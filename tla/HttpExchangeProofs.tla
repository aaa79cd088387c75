------------------------- MODULE HttpExchangeProofs -------------------------
(***************************************************************************)
(* Proofs about HttpExchange, for bodies of any length, any number of      *)
(* tries and any failures: TypeOK, that an exchange implements RemoteCall, *)
(* and that an exchange in which nothing fails carries both messages       *)
(* whole.                                                                  *)
(*                                                                         *)
(* The argument: the first line of the request is in one place only, still *)
(* to be written, on its way, in the hands of the server, or executed;     *)
(* whatever is cut leaves a rest of a line, which is no first line.  The   *)
(* first line of a success is written only after the execution.  While     *)
(* nothing has failed, what is under way and what is still to be written   *)
(* are the message without the tokens that its reader has counted.         *)
(***************************************************************************)
EXTENDS HttpExchange, TLAPS

Has(s, t) == \E i \in 1..Len(s) : s[i] = t
Once(s, t) == \A i, j \in 1..Len(s) : s[i] = t /\ s[j] = t => i = j

\* The tokens that matter occur in u only if, and as often as, they do in s.
Within(u, s) ==
  \A t \in {"request", "ok"} : (Has(u, t) => Has(s, t)) /\ (Once(s, t) => Once(u, t))

LEMMA Numbers ==
  RequestBody \in Nat /\ ResponseBody \in Nat /\ MaxTries \in Nat /\ MaxTrouble \in Nat
BY ValueAssumption

LEMMA WithinSelf == \A s : Within(s, s)
BY DEF Within

LEMMA WithinEmpty == \A s : Within(<<>>, s)
BY DEF Within, Has, Once

LEMMA WithinSub ==
  ASSUME NEW s \in Seq(Tokens), NEW n \in Nat, n <= Len(s)
  PROVE  /\ SubSeq(s, n + 1, Len(s)) \in Seq(Tokens)
         /\ Within(SubSeq(s, n + 1, Len(s)), s)
<1> DEFINE u == SubSeq(s, n + 1, Len(s))
<1>1. u \in Seq(Tokens) /\ Len(u) = Len(s) - n
  OBVIOUS
<1>2. \A i \in 1..Len(u) : u[i] = s[i + n] /\ i + n \in 1..Len(s)
  BY <1>1
<1> HIDE DEF u
<1>3. ASSUME NEW t PROVE Has(u, t) => Has(s, t)
  BY <1>2 DEF Has
<1>4. ASSUME NEW t, Once(s, t) PROVE Once(u, t)
  <2>1. SUFFICES ASSUME NEW i \in 1..Len(u), NEW j \in 1..Len(u), u[i] = t, u[j] = t
                 PROVE  i = j
    BY DEF Once
  <2>2. i + n = j + n
    BY <1>2, <1>4, <2>1 DEF Once
  <2> QED BY <2>2
<1> QED BY <1>1, <1>3, <1>4 DEF u, Within

LEMMA WithinTail ==
  ASSUME NEW s \in Seq(Tokens), s # <<>>
  PROVE  Tail(s) \in Seq(Tokens) /\ Within(Tail(s), s)
<1> DEFINE u == Tail(s)
<1>1. u \in Seq(Tokens) /\ Len(u) = Len(s) - 1 /\ Len(s) \in Nat
  OBVIOUS
<1>2. \A i \in 1..Len(u) : u[i] = s[i + 1] /\ i + 1 \in 1..Len(s)
  BY <1>1
<1> HIDE DEF u
<1>3. Within(u, s)
  BY <1>1, <1>2 DEF Within, Has, Once
<1> QED BY <1>1, <1>3 DEF u

\* Once the only occurrence is at the head, the rest has none.
LEMMA GoneWithHead ==
  ASSUME NEW s \in Seq(Tokens), s # <<>>, NEW t, Once(s, t), Head(s) = t
  PROVE  ~Has(Tail(s), t) /\ ~Has(SubSeq(s, 2, Len(s)), t) /\ Has(s, t)
<1>1. Len(s) \in Nat /\ Len(s) > 0 /\ s[1] = t
  OBVIOUS
<1>2. \A i \in 2..Len(s) : s[i] # t
  BY <1>1 DEF Once
<1>3. \A i \in 1..Len(Tail(s)) : Tail(s)[i] = s[i + 1] /\ i + 1 \in 2..Len(s)
  OBVIOUS
<1>4. \A i \in 1..Len(SubSeq(s, 2, Len(s))) :
        SubSeq(s, 2, Len(s))[i] = s[i + 1] /\ i + 1 \in 2..Len(s)
  OBVIOUS
<1> QED BY <1>1, <1>2, <1>3, <1>4 DEF Has

LEMMA WithinRest ==
  ASSUME NEW s \in Seq(Tokens)
  PROVE  Append(s, "rest") \in Seq(Tokens) /\ Within(Append(s, "rest"), s)
<1> DEFINE u == Append(s, "rest")
<1>1. u \in Seq(Tokens) /\ Len(u) = Len(s) + 1 /\ Len(s) \in Nat /\ u[Len(u)] = "rest"
  BY DEF Tokens, Headers
<1>2. \A i \in 1..Len(s) : u[i] = s[i]
  OBVIOUS
<1> HIDE DEF u
<1>3. \A i \in 1..Len(u) : u[i] # "rest" => i \in 1..Len(s)
  BY <1>1
<1>4. Within(u, s)
  BY <1>1, <1>2, <1>3 DEF Within, Has, Once
<1> QED BY <1>1, <1>4 DEF u

LEMMA WithinCut ==
  ASSUME NEW s \in Seq(Tokens), s # <<>>
  PROVE  <<"rest">> \o Tail(s) \in Seq(Tokens) /\ Within(<<"rest">> \o Tail(s), s)
<1> DEFINE u == <<"rest">> \o Tail(s)
<1>0. <<"rest">> \in Seq(Tokens) /\ Tail(s) \in Seq(Tokens) /\ Len(Tail(s)) = Len(s) - 1
  BY DEF Tokens, Headers
<1>1. u \in Seq(Tokens) /\ Len(u) = Len(s) /\ Len(s) \in Nat /\ u[1] = "rest"
  BY <1>0
<1>2. \A i \in 2..Len(s) : u[i] = s[i]
  BY <1>0
<1> HIDE DEF u
<1>3. \A i \in 1..Len(u) : u[i] # "rest" => i \in 2..Len(s)
  BY <1>1
<1>4. Within(u, s)
  BY <1>1, <1>2, <1>3 DEF Within, Has, Once
<1> QED BY <1>1, <1>4 DEF u

LEMMA HasAppend ==
  ASSUME NEW s \in Seq(Tokens), NEW x \in Tokens, NEW t
  PROVE  /\ Append(s, x) \in Seq(Tokens)
         /\ Has(Append(s, x), t) => Has(s, t) \/ x = t
         /\ Once(s, t) /\ (x # t \/ ~Has(s, t)) => Once(Append(s, x), t)
<1> DEFINE u == Append(s, x)
<1>1. u \in Seq(Tokens) /\ Len(u) = Len(s) + 1 /\ Len(s) \in Nat /\ u[Len(u)] = x
  OBVIOUS
<1>2. \A i \in 1..Len(s) : u[i] = s[i]
  OBVIOUS
<1> HIDE DEF u
<1>3. \A i \in 1..Len(u) : i \in 1..Len(s) \/ i = Len(u)
  BY <1>1
<1>4. Has(u, t) => Has(s, t) \/ x = t
  BY <1>1, <1>2, <1>3 DEF Has
<1>5. Once(s, t) /\ (x # t \/ ~Has(s, t)) => Once(u, t)
  BY <1>1, <1>2, <1>3 DEF Once, Has
<1> QED BY <1>1, <1>4, <1>5 DEF u

\* The messages.
LEMMA Messages ==
  /\ Request \in Seq(Tokens) /\ Success \in Seq(Tokens) /\ BadRequest \in Seq(Tokens)
  /\ Once(Request, "request") /\ (\A s : Within(BadRequest, s)) /\ ~Has(Success, "request")
  /\ ~Has(Request, "ok")
<1>1. \A n \in Nat : Body(n) \in Seq(Tokens) /\ Len(Body(n)) = n
                     /\ \A i \in 1..n : Body(n)[i] = "body"
  BY DEF Body, Tokens, Headers
<1>2. RequestBody \in Nat /\ ResponseBody \in Nat
  BY Numbers
<1>3. /\ <<"request", "host", "length", "empty">> \in Seq(Tokens)
      /\ <<"ok", "length", "empty">> \in Seq(Tokens)
      /\ BadRequest \in Seq(Tokens)
  BY DEF Tokens, Headers, FirstLines, BadRequest
<1>4. Request \in Seq(Tokens) /\ \A i \in 1..Len(Request) : Request[i] # "ok" /\ (Request[i] = "request" => i = 1)
  <2>1. Request \in Seq(Tokens) /\ Len(Request) = 4 + RequestBody
    BY <1>1, <1>2, <1>3 DEF Request
  <2>2. \A i \in 1..4 : Request[i] = <<"request", "host", "length", "empty">>[i]
    BY <1>1, <1>2, <1>3 DEF Request
  <2>3. \A i \in 5..(4 + RequestBody) : Request[i] = "body"
    BY <1>1, <1>2, <1>3 DEF Request
  <2> QED BY <2>1, <2>2, <2>3, <1>2
<1>5. Success \in Seq(Tokens) /\ \A i \in 1..Len(Success) : Success[i] # "request"
  <2>1. Success \in Seq(Tokens) /\ Len(Success) = 3 + ResponseBody
    BY <1>1, <1>2, <1>3 DEF Success
  <2>2. \A i \in 1..3 : Success[i] = <<"ok", "length", "empty">>[i]
    BY <1>1, <1>2, <1>3 DEF Success
  <2>3. \A i \in 4..(3 + ResponseBody) : Success[i] = "body"
    BY <1>1, <1>2, <1>3 DEF Success
  <2> QED BY <2>1, <2>2, <2>3, <1>2
<1>6. \A s : Within(BadRequest, s)
  BY DEF BadRequest, Within, Has, Once
<1> QED BY <1>3, <1>4, <1>5, <1>6 DEF Has, Once

-----------------------------------------------------------------------------
(* The invariant.                                                          *)

\* The server has read the first line of the request and may yet execute it.
InHand == line["server"] = "request" /\ pc["server"] \in {"headers", "body", "decide"}

ToWrite == Has(out["client"], "request")
OnTheWay == Has(wire["client"], "request")

\* The request is in one place.
OnePlace ==
  /\ Once(out["client"], "request") /\ Once(wire["client"], "request")
  /\ pc["client"] = "connect" => ~ToWrite /\ ~OnTheWay /\ ~InHand /\ executed = 0
  /\ ToWrite => ~OnTheWay /\ ~InHand /\ executed = 0
  /\ OnTheWay => ~InHand /\ executed = 0
  /\ InHand => executed = 0
  /\ executed \in {0, 1}

\* A success follows the execution.
Earned ==
  Has(out["server"], "ok") \/ Has(wire["server"], "ok") \/ line["client"] = "ok" =>
    executed = 1

IInv == TypeOK /\ OnePlace /\ Earned

\* A step that moves no first line on.
Lesser ==
  /\ \A p \in Peers : Within(out'[p], out[p]) /\ Within(wire'[p], wire[p])
  /\ InHand' => InHand
  /\ line'["client"] = "ok" => line["client"] = "ok"
  /\ executed' = executed
  /\ pc'["client"] = "connect" => pc["client"] = "connect"

LEMMA LesserIInv == ASSUME IInv, TypeOK', Lesser PROVE IInv'
<1>1. /\ Within(out'["client"], out["client"]) /\ Within(wire'["client"], wire["client"])
      /\ Within(out'["server"], out["server"]) /\ Within(wire'["server"], wire["server"])
  BY DEF Lesser, Peers
<1>2. /\ ToWrite' => ToWrite
      /\ OnTheWay' => OnTheWay
      /\ Once(out["client"], "request") => Once(out'["client"], "request")
      /\ Once(wire["client"], "request") => Once(wire'["client"], "request")
      /\ Has(out'["server"], "ok") => Has(out["server"], "ok")
      /\ Has(wire'["server"], "ok") => Has(wire["server"], "ok")
  BY <1>1 DEF Within, ToWrite, OnTheWay
<1>3. OnePlace'
  BY <1>2 DEF IInv, OnePlace, Lesser
<1>4. Earned'
  BY <1>2 DEF IInv, Earned, Lesser
<1> QED BY <1>3, <1>4 DEF IInv

LEMMA InitIInv == Init => IInv
<1> SUFFICES ASSUME Init PROVE IInv
  OBVIOUS
<1>1. <<>> \in Seq(Tokens) /\ Len(<<>>) = 0
  OBVIOUS
<1>2. /\ out["client"] = <<>> /\ out["server"] = <<>>
      /\ wire["client"] = <<>> /\ wire["server"] = <<>>
      /\ line["client"] = "none" /\ line["server"] = "none" /\ executed = 0
  BY DEF Init, Peers
<1>3. TypeOK
  <2>1. /\ out \in [Peers -> Seq(Tokens)] /\ wire \in [Peers -> Seq(Tokens)]
        /\ closed \in [Peers -> BOOLEAN]
    BY <1>1 DEF Init
  <2>2. /\ line \in [Peers -> FirstLines \cup {"junk", "none"}]
        /\ headers \in [Peers -> SUBSET Headers]
        /\ len \in [Peers -> Int] /\ stored \in [Peers -> Nat]
    BY DEF Init
  <2>3. tries \in [Peers -> 0..MaxTries] /\ trouble \in 0..MaxTrouble
    BY Numbers DEF Init
  <2>4. pc \in [Peers -> {"connect", "write", "line", "headers", "body", "drain", "decide",
                         "leave", "done"}]
    BY DEF Init
  <2>5. whole \in BOOLEAN /\ executed \in Nat /\ calm \in BOOLEAN
    BY DEF Init
  <2> QED BY <2>1, <2>2, <2>3, <2>4, <2>5 DEF TypeOK
<1>4. OnePlace /\ Earned
  BY <1>1, <1>2 DEF OnePlace, Earned, ToWrite, OnTheWay, InHand, Has, Once
<1> QED BY <1>3, <1>4 DEF IInv

-----------------------------------------------------------------------------
(* Parts of steps.                                                         *)

LEMMA OtherPeer == \A p \in Peers : Other(p) \in Peers /\ Other(Other(p)) = p
BY DEF Other, Peers

LEMMA Taken ==
  ASSUME TypeOK, NEW p \in Peers, NEW n \in Nat, n <= Len(In(p)), Take(p, n)
  PROVE  wire' \in [Peers -> Seq(Tokens)] /\ \A q \in Peers : Within(wire'[q], wire[q])
<1>1. wire[Other(p)] \in Seq(Tokens) /\ wire \in [Peers -> Seq(Tokens)] /\ Other(p) \in Peers
  BY OtherPeer DEF TypeOK
<1>2. wire' = [wire EXCEPT ![Other(p)] = SubSeq(wire[Other(p)], n + 1, Len(wire[Other(p)]))]
  BY <1>1 DEF Take
<1>3. /\ SubSeq(wire[Other(p)], n + 1, Len(wire[Other(p)])) \in Seq(Tokens)
      /\ Within(SubSeq(wire[Other(p)], n + 1, Len(wire[Other(p)])), wire[Other(p)])
  BY <1>1, WithinSub DEF In
<1> QED BY <1>1, <1>2, <1>3, WithinSelf

LEMMA TakenOne ==
  ASSUME TypeOK, NEW p \in Peers, In(p) # <<>>, Take(p, 1)
  PROVE  wire' \in [Peers -> Seq(Tokens)] /\ \A q \in Peers : Within(wire'[q], wire[q])
<1>1. In(p) \in Seq(Tokens)
  BY OtherPeer DEF TypeOK, In
<1>2. 1 <= Len(In(p))
  BY <1>1
<1> QED BY <1>2, Taken

LEMMA TroubleTypes == ASSUME TypeOK, Trouble PROVE calm' \in BOOLEAN /\ trouble' \in 0..MaxTrouble
<1>1. trouble \in 0..MaxTrouble /\ trouble < MaxTrouble /\ trouble' = trouble + 1 /\ calm' = FALSE
  BY DEF TypeOK, Trouble
<1>2. trouble' \in 0..MaxTrouble
  BY <1>1, Numbers
<1> QED BY <1>1, <1>2

LEMMA NoByteTypes ==
  ASSUME TypeOK, NEW p \in Peers, NoByte(p)
  PROVE  calm' \in BOOLEAN /\ trouble' \in 0..MaxTrouble
BY TroubleTypes, OtherPeer DEF TypeOK, NoByte

LEMMA CutTypes ==
  ASSUME TypeOK, NEW p \in Peers, CutLine(p)
  PROVE  /\ wire' \in [Peers -> Seq(Tokens)] /\ \A q \in Peers : Within(wire'[q], wire[q])
         /\ calm' \in BOOLEAN /\ trouble' \in 0..MaxTrouble
<1>1. CASE NoByte(p) /\ UNCHANGED wire
  BY <1>1, NoByteTypes, WithinSelf DEF TypeOK
<1>2. CASE In(p) # <<>> /\ ~(NoByte(p) /\ UNCHANGED wire)
  <2>1. wire[Other(p)] \in Seq(Tokens) /\ wire[Other(p)] # <<>> /\ Other(p) \in Peers
        /\ wire \in [Peers -> Seq(Tokens)]
    BY <1>2, OtherPeer DEF TypeOK, In
  <2>2. PICK u : /\ wire' = [wire EXCEPT ![Other(p)] = u]
                 /\ u = <<"rest">> \o Tail(wire[Other(p)])
    BY <1>2, <2>1 DEF CutLine
  <2>3. u \in Seq(Tokens) /\ Within(u, wire[Other(p)])
    BY <2>1, <2>2, WithinCut
  <2>4. Trouble
    BY <1>2 DEF CutLine
  <2> QED BY <2>1, <2>2, <2>3, <2>4, WithinSelf, TroubleTypes
<1> QED BY <1>1, <1>2 DEF CutLine

\* What is sent arrives or is gone.
LEMMA Sent ==
  ASSUME TypeOK, NEW p \in Peers, NEW t \in Tokens, Send(p, t)
  PROVE  /\ wire' \in [Peers -> Seq(Tokens)]
         /\ wire'[p] = wire[p] \/ wire'[p] = Append(wire[p], t)
         /\ \A q \in Peers : q # p => wire'[q] = wire[q]
<1>1. wire[p] \in Seq(Tokens) /\ wire \in [Peers -> Seq(Tokens)]
  BY DEF TypeOK
<1>2. wire' = wire \/ wire' = [wire EXCEPT ![p] = Append(wire[p], t)]
  BY <1>1 DEF Send
<1>3. Append(wire[p], t) \in Seq(Tokens)
  BY <1>1
<1> QED BY <1>1, <1>2, <1>3

-----------------------------------------------------------------------------
(* Writing.                                                                *)

\* The variables a step leaves alone keep their types.
Labels == {"connect", "write", "line", "headers", "body", "drain", "decide", "leave", "done"}

ReadingTypes ==
  /\ line \in [Peers -> FirstLines \cup {"junk", "none"}]
  /\ headers \in [Peers -> SUBSET Headers]
  /\ len \in [Peers -> Int] /\ stored \in [Peers -> Nat]
  /\ tries \in [Peers -> 0..MaxTries]

SendingTypes == out \in [Peers -> Seq(Tokens)] /\ wire \in [Peers -> Seq(Tokens)]

OtherTypes ==
  /\ closed \in [Peers -> BOOLEAN] /\ whole \in BOOLEAN /\ executed \in Nat

TroubleOK == calm \in BOOLEAN /\ trouble \in 0..MaxTrouble

LEMMA TypeParts ==
  TypeOK <=> pc \in [Peers -> Labels] /\ ReadingTypes /\ SendingTypes /\ OtherTypes /\ TroubleOK
BY DEF TypeOK, Labels, ReadingTypes, SendingTypes, OtherTypes, TroubleOK

LEMMA TypeParts2 ==
  /\ pc' \in [Peers -> Labels] /\ ReadingTypes' /\ SendingTypes' /\ OtherTypes' /\ TroubleOK'
  => TypeOK'
BY DEF TypeOK, Labels, ReadingTypes, SendingTypes, OtherTypes, TroubleOK

LEMMA ReadingKept == ReadingTypes /\ UNCHANGED reading => ReadingTypes'
BY DEF ReadingTypes, reading

LEMMA Started ==
  ASSUME ReadingTypes, NEW p \in Peers, NEW l \in FirstLines \cup {"junk", "none"},
         StartMessage(p, l)
  PROVE  /\ ReadingTypes'
         /\ line' = [line EXCEPT ![p] = l]
<1>1. 0 \in 0..MaxTries
  BY Numbers
<1> QED BY <1>1 DEF ReadingTypes, StartMessage

LEMMA Went ==
  ASSUME pc \in [Peers -> Labels], NEW p \in Peers, NEW l \in Labels, Goto(p, l)
  PROVE  pc' \in [Peers -> Labels] /\ pc'[p] = l /\ \A q \in Peers : q # p => pc'[q] = pc[q]
BY DEF Goto

LEMMA WithinKept == UNCHANGED <<out, wire>> =>
  \A p \in Peers : Within(out'[p], out[p]) /\ Within(wire'[p], wire[p])
BY WithinSelf

LEMMA ConnectIInv == ASSUME IInv, Connect PROVE IInv'
<1>0. TypeOK /\ "client" \in Peers /\ "server" \in Peers
  BY DEF IInv, Peers
<1>1. /\ out' = [out EXCEPT !["client"] = Request] /\ pc["client"] = "connect"
      /\ UNCHANGED <<wire, closed, reading, whole, executed, calm, trouble>>
      /\ UNCHANGED line
  BY DEF Connect, history, reading
<1>2. pc' \in [Peers -> Labels] /\ pc'["client"] = "write" /\ pc'["server"] = pc["server"]
  BY <1>0, TypeParts, Went DEF Connect, Labels
<1>3. out' \in [Peers -> Seq(Tokens)] /\ out'["client"] = Request /\ out'["server"] = out["server"]
  BY <1>0, <1>1, Messages DEF TypeOK
<1>4. TypeOK'
  BY <1>0, <1>1, <1>2, <1>3, TypeParts, TypeParts2, ReadingKept DEF SendingTypes, OtherTypes, TroubleOK
<1>5. OnePlace'
  BY <1>1, <1>2, <1>3, Messages DEF IInv, OnePlace, ToWrite, OnTheWay, InHand
<1>6. Earned'
  BY <1>1, <1>3 DEF IInv, Earned
<1> QED BY <1>4, <1>5, <1>6 DEF IInv

LEMMA ConnectFailsIInv == ASSUME IInv, ConnectFails PROVE IInv'
<1>0. TypeOK /\ "client" \in Peers /\ "server" \in Peers
  BY DEF IInv, Peers
<1>1. /\ UNCHANGED <<out, wire, reading, line, whole, executed>> /\ Trouble
      /\ closed' = [closed EXCEPT !["client"] = TRUE]
  BY DEF ConnectFails, reading
<1>2. pc' \in [Peers -> Labels] /\ pc'["client"] = "done" /\ pc'["server"] = pc["server"]
  BY <1>0, TypeParts, Went DEF ConnectFails, Labels
<1>4. TypeOK'
  BY <1>0, <1>1, <1>2, TypeParts, TypeParts2, ReadingKept, TroubleTypes
     DEF SendingTypes, OtherTypes, TroubleOK
<1>5. Lesser
  BY <1>1, <1>2, WithinKept DEF Lesser, InHand
<1> QED BY <1>4, <1>5, LesserIInv

\* The first of the tokens still to be written is sent, some of the others may be dropped.
LEMMA SendIInv ==
  ASSUME IInv, NEW p \in Peers, out[p] # <<>>, Send(p, Head(out[p])),
         NEW u \in Seq(Tokens), Within(u, Tail(out[p])), out' = [out EXCEPT ![p] = u],
         UNCHANGED <<pc, closed, reading, line, whole, executed>>, TroubleOK'
  PROVE  IInv'
<1>0. TypeOK /\ "client" \in Peers /\ "server" \in Peers
  BY DEF IInv, Peers
<1>1. /\ out[p] # <<>> /\ Send(p, Head(out[p]))
      /\ UNCHANGED <<pc, closed, reading, line, whole, executed>>
  OBVIOUS
<1>2. out[p] \in Seq(Tokens) /\ Head(out[p]) \in Tokens /\ wire[p] \in Seq(Tokens)
  BY <1>0, <1>1 DEF TypeOK
<1>3. /\ Tail(out[p]) \in Seq(Tokens) /\ Within(Tail(out[p]), out[p])
  BY <1>1, <1>2, WithinTail
<1>4. /\ wire' \in [Peers -> Seq(Tokens)]
      /\ wire'[p] = wire[p] \/ wire'[p] = Append(wire[p], Head(out[p]))
      /\ \A q \in Peers : q # p => wire'[q] = wire[q]
  BY <1>0, <1>1, <1>2, Sent
<1>5. /\ out' \in [Peers -> Seq(Tokens)] /\ out'[p] = u
      /\ \A q \in Peers : q # p => out'[q] = out[q]
  BY <1>0, <1>3 DEF TypeOK
<1>6. TypeOK'
  BY <1>0, <1>1, <1>4, <1>5, TypeParts, TypeParts2, ReadingKept DEF SendingTypes, OtherTypes
<1>7. \A t : Has(wire'[p], t) => Has(wire[p], t) \/ Head(out[p]) = t
  BY <1>2, <1>4, HasAppend
<1>8. Head(out[p]) # "request" \/ ~Has(wire[p], "request") =>
        (Once(wire[p], "request") => Once(wire'[p], "request"))
  <2>1. CASE wire'[p] = wire[p]
    BY <2>1
  <2>2. CASE wire'[p] = Append(wire[p], Head(out[p]))
    BY <1>2, <2>2, HasAppend
  <2> QED BY <1>4, <2>1, <2>2
<1>9. \A t : Head(out[p]) = t => Has(out[p], t)
  BY <1>1, <1>2 DEF Has
<1>10. \A t \in {"request", "ok"} :
         /\ Has(u, t) => Has(Tail(out[p]), t) /\ Has(out[p], t)
         /\ Once(out[p], t) => Once(u, t)
  BY <1>3 DEF Within
<1>11. CASE p = "client"
  <2>1. wire'["server"] = wire["server"] /\ out'["server"] = out["server"]
    BY <1>0, <1>4, <1>5, <1>11
  <2>2. /\ Once(out'["client"], "request") /\ (ToWrite' => ToWrite)
        /\ OnTheWay' => OnTheWay \/ Head(out["client"]) = "request"
        /\ Head(out["client"]) = "request" => ToWrite
    BY <1>5, <1>7, <1>9, <1>10, <1>11 DEF IInv, OnePlace, ToWrite, OnTheWay
  <2>3. Head(out["client"]) = "request" => ~ToWrite'
    <3>1. Once(out[p], "request") /\ out'["client"] = u
      BY <1>5, <1>11 DEF IInv, OnePlace
    <3>2. Head(out[p]) = "request" => ~Has(Tail(out[p]), "request")
      BY <1>1, <1>2, <3>1, GoneWithHead
    <3> QED BY <1>10, <3>1, <3>2, <1>11 DEF ToWrite
  <2>4. Once(wire'["client"], "request")
    BY <1>8, <2>2, <1>11 DEF IInv, OnePlace, ToWrite, OnTheWay
  <2>5. OnePlace'
    BY <1>1, <2>2, <2>3, <2>4, <1>11 DEF IInv, OnePlace, InHand
  <2>6. Earned'
    BY <1>1, <2>1 DEF IInv, Earned
  <2> QED BY <1>6, <2>5, <2>6 DEF IInv
<1>12. CASE p = "server"
  <2>1. wire'["client"] = wire["client"] /\ out'["client"] = out["client"]
    BY <1>0, <1>4, <1>5, <1>12
  <2>2. OnePlace'
    BY <1>1, <2>1 DEF IInv, OnePlace, InHand, ToWrite, OnTheWay
  <2>3. Has(out'["server"], "ok") \/ Has(wire'["server"], "ok") =>
          Has(out["server"], "ok") \/ Has(wire["server"], "ok")
    BY <1>5, <1>7, <1>9, <1>10, <1>12
  <2>4. Earned'
    BY <1>1, <2>3 DEF IInv, Earned
  <2> QED BY <1>6, <2>2, <2>4 DEF IInv
<1> QED BY <1>11, <1>12 DEF Peers

LEMMA WriteIInv == ASSUME IInv, NEW p \in Peers, Write(p) PROVE IInv'
<1>0. TypeOK
  BY DEF IInv
<1>1. /\ out[p] # <<>> /\ Send(p, Head(out[p])) /\ out' = [out EXCEPT ![p] = Tail(out[p])]
      /\ UNCHANGED <<pc, closed, reading, line, whole, executed, calm, trouble>>
  BY <1>0 DEF Write, history, reading, TypeOK
<1>2. out[p] \in Seq(Tokens)
  BY <1>0 DEF TypeOK
<1>3. Tail(out[p]) \in Seq(Tokens) /\ Within(Tail(out[p]), Tail(out[p]))
  BY <1>1, <1>2, WithinTail, WithinSelf
<1>4. TroubleOK'
  BY <1>0, <1>1, TypeParts DEF TroubleOK
<1> QED BY <1>1, <1>3, <1>4, SendIInv

LEMMA WriteFailsIInv == ASSUME IInv, NEW p \in Peers, WriteFails(p) PROVE IInv'
<1>0. TypeOK
  BY DEF IInv
<1>1. /\ out[p] # <<>> /\ out[p] \in Seq(Tokens) /\ wire[p] \in Seq(Tokens)
      /\ UNCHANGED <<pc, closed, reading, line, whole, executed>> /\ Trouble
  BY <1>0 DEF WriteFails, reading, TypeOK
<1>2. Tail(out[p]) \in Seq(Tokens) /\ Within(Tail(out[p]), out[p])
  BY <1>1, WithinTail
<1>3. CASE /\ (UNCHANGED wire \/ Send(p, "rest"))
           /\ out' = [out EXCEPT ![p] = IF Head(@) \in FirstLines THEN Tail(@) ELSE <<>>]
  <2>1. PICK u : out' = [out EXCEPT ![p] = u] /\ (u = Tail(out[p]) \/ u = <<>>)
    BY <1>0, <1>3 DEF TypeOK
  <2>2. u \in Seq(Tokens) /\ Within(u, out[p])
    <3>1. <<>> \in Seq(Tokens) /\ Within(<<>>, out[p])
      BY WithinEmpty
    <3> QED BY <1>2, <2>1, <3>1
  <2>3. out' \in [Peers -> Seq(Tokens)] /\ \A q \in Peers : Within(out'[q], out[q])
    BY <1>0, <2>1, <2>2, WithinSelf DEF TypeOK
  <2>4. wire' \in [Peers -> Seq(Tokens)] /\ \A q \in Peers : Within(wire'[q], wire[q])
    <3>1. CASE UNCHANGED wire
      BY <1>0, <3>1, WithinSelf DEF TypeOK
    <3>2. CASE Send(p, "rest")
      <4>1. "rest" \in Tokens
        BY DEF Tokens
      <4> QED BY <1>0, <1>1, <3>2, <4>1, Sent, WithinRest, WithinSelf
    <3> QED BY <1>3, <3>1, <3>2
  <2>5. TypeOK'
    BY <1>0, <1>1, <2>3, <2>4, TypeParts, TypeParts2, ReadingKept, TroubleTypes
       DEF SendingTypes, OtherTypes, TroubleOK
  <2>6. Lesser
    BY <1>1, <2>3, <2>4 DEF Lesser, InHand
  <2> QED BY <2>5, <2>6, LesserIInv
<1>4. CASE /\ Send(p, Head(out[p]))
           /\ \/ out' = [out EXCEPT ![p] = Tail(@)]
              \/ Tail(out[p]) # <<>> /\ out' = [out EXCEPT ![p] = Tail(Tail(@))]
  <2>1. PICK u : /\ out' = [out EXCEPT ![p] = u]
                 /\ u = Tail(out[p]) \/ (Tail(out[p]) # <<>> /\ u = Tail(Tail(out[p])))
    BY <1>0, <1>4 DEF TypeOK
  <2>2. u \in Seq(Tokens) /\ Within(u, Tail(out[p]))
    BY <1>2, <2>1, WithinTail, WithinSelf
  <2>3. TroubleOK'
    BY <1>0, <1>1, TroubleTypes DEF TroubleOK
  <2> QED BY <1>1, <1>4, <2>1, <2>2, <2>3, SendIInv
<1> QED BY <1>3, <1>4 DEF WriteFails

LEMMA WrittenIInv == ASSUME IInv, NEW p \in Peers, Written(p) PROVE IInv'
<1>0. TypeOK /\ "client" \in Peers /\ "server" \in Peers
  BY DEF IInv, Peers
<1>1. UNCHANGED <<out, wire, closed, whole, executed, calm, trouble>> /\ Forget(p)
  BY DEF Written, history
<1>2. ReadingTypes' /\ line' = [line EXCEPT ![p] = "none"] /\ line \in [Peers -> FirstLines \cup {"junk", "none"}]
  BY <1>0, <1>1, TypeParts, Started DEF Forget, TypeOK
<1>3. PICK l \in {"line", "leave"} : Goto(p, l)
  BY DEF Written
<1>4. pc' \in [Peers -> Labels] /\ pc'[p] = l /\ \A q \in Peers : q # p => pc'[q] = pc[q]
  BY <1>0, <1>3, TypeParts, Went DEF Labels
<1>5. TypeOK'
  BY <1>0, <1>1, <1>2, <1>4, TypeParts, TypeParts2 DEF SendingTypes, OtherTypes, TroubleOK
<1>6. Lesser
  BY <1>0, <1>1, <1>2, <1>4, WithinKept DEF Lesser, InHand
<1> QED BY <1>5, <1>6, LesserIInv

-----------------------------------------------------------------------------
(* Reading.                                                                *)

LEMMA SkipLineIInv == ASSUME IInv, SkipLine PROVE IInv'
<1>0. TypeOK /\ "client" \in Peers /\ "server" \in Peers
  BY DEF IInv, Peers
<1>1. UNCHANGED <<pc, out, closed, reading, line, whole, executed, calm, trouble>>
  BY DEF SkipLine, reading, history
<1>2. wire' \in [Peers -> Seq(Tokens)] /\ \A q \in Peers : Within(wire'[q], wire[q])
  BY <1>0, TakenOne DEF SkipLine
<1>3. TypeOK'
  BY <1>0, <1>1, <1>2, TypeParts, TypeParts2, ReadingKept
     DEF SendingTypes, OtherTypes, TroubleOK
<1>4. Lesser
  BY <1>1, <1>2, WithinSelf DEF Lesser, InHand
<1> QED BY <1>3, <1>4, LesserIInv

LEMMA ReadFirstLineIInv == ASSUME IInv, NEW p \in Peers, ReadFirstLine(p) PROVE IInv'
<1>0. TypeOK /\ "client" \in Peers /\ "server" \in Peers
  BY DEF IInv, Peers
<1>1. /\ In(p) # <<>> /\ Take(p, 1) /\ pc[p] = "line"
      /\ UNCHANGED <<out, closed, whole, executed, calm, trouble>>
  BY DEF ReadFirstLine, history
<1>2. wire' \in [Peers -> Seq(Tokens)] /\ \A q \in Peers : Within(wire'[q], wire[q])
  BY <1>0, <1>1, TakenOne
<1>3. PICK l \in FirstLines \cup {"junk"} :
        StartMessage(p, l) /\ (l # "junk" => l = Head(In(p)))
  BY DEF ReadFirstLine
<1>4. ReadingTypes' /\ line' = [line EXCEPT ![p] = l]
      /\ line \in [Peers -> FirstLines \cup {"junk", "none"}]
  BY <1>0, <1>3, TypeParts, Started DEF TypeOK
<1>5. pc' \in [Peers -> Labels] /\ pc'[p] = "headers" /\ \A q \in Peers : q # p => pc'[q] = pc[q]
  BY <1>0, TypeParts, Went DEF ReadFirstLine, Labels
<1>6. TypeOK'
  BY <1>0, <1>1, <1>2, <1>4, <1>5, TypeParts, TypeParts2
     DEF SendingTypes, OtherTypes, TroubleOK
<1>7. CASE p = "client"
  <2>1. In(p) = wire["server"] /\ wire["server"] \in Seq(Tokens)
    BY <1>0, <1>7 DEF In, Other, TypeOK
  <2>2. l = "ok" => Has(wire["server"], "ok")
    BY <1>1, <1>3, <2>1 DEF Has
  <2>3. Has(wire'["server"], "ok") => Has(wire["server"], "ok")
    BY <1>0, <1>2 DEF Within
  <2>4. Earned'
    BY <1>0, <1>1, <1>4, <1>7, <2>2, <2>3 DEF IInv, Earned
  <2>5. /\ OnTheWay' => OnTheWay
        /\ Once(wire["client"], "request") => Once(wire'["client"], "request")
    BY <1>0, <1>2 DEF Within, OnTheWay
  <2>6. InHand' => InHand
    BY <1>0, <1>4, <1>5, <1>7 DEF InHand
  <2>7. OnePlace'
    BY <1>0, <1>1, <1>5, <1>7, <2>5, <2>6 DEF IInv, OnePlace, ToWrite
  <2> QED BY <1>6, <2>4, <2>7 DEF IInv
<1>8. CASE p = "server"
  <2>1. In(p) = wire["client"] /\ wire["client"] \in Seq(Tokens)
    BY <1>0, <1>8 DEF In, Other, TypeOK
  <2>2. wire' = [wire EXCEPT !["client"] = SubSeq(wire["client"], 2, Len(wire["client"]))]
    BY <1>1, <1>8 DEF Take, Other
  <2>3. wire'["client"] = SubSeq(wire["client"], 2, Len(wire["client"]))
    BY <1>0, <2>2 DEF TypeOK
  <2>4. Once(wire["client"], "request")
    BY DEF IInv, OnePlace
  <2>5. l = "request" => OnTheWay /\ ~OnTheWay'
    BY <1>1, <1>3, <2>1, <2>3, <2>4, GoneWithHead DEF OnTheWay, FirstLines
  <2>6. /\ OnTheWay' => OnTheWay
        /\ Once(wire'["client"], "request")
        /\ Has(wire'["server"], "ok") => Has(wire["server"], "ok")
    BY <1>0, <1>2, <2>4 DEF Within, OnTheWay
  <2>7. InHand' => l = "request"
    BY <1>0, <1>4, <1>8 DEF InHand
  <2>8. ~InHand /\ pc'["client"] = pc["client"]
    BY <1>0, <1>1, <1>5, <1>8 DEF InHand
  <2>9. OnePlace'
    BY <1>1, <2>5, <2>6, <2>7, <2>8 DEF IInv, OnePlace, ToWrite
  <2>10. line'["client"] = line["client"]
    BY <1>0, <1>4, <1>8
  <2>11. Earned'
    BY <1>1, <2>6, <2>10 DEF IInv, Earned
  <2> QED BY <1>6, <2>9, <2>11 DEF IInv
<1> QED BY <1>7, <1>8 DEF Peers

LEMMA ReadNoRequestIInv == ASSUME IInv, ReadNoRequest PROVE IInv'
<1>0. TypeOK /\ "client" \in Peers /\ "server" \in Peers
  BY DEF IInv, Peers
<1>1. UNCHANGED <<out, closed, reading, line, whole, executed, calm, trouble>>
  BY DEF ReadNoRequest, reading, history
<1>2. wire' \in [Peers -> Seq(Tokens)] /\ \A q \in Peers : Within(wire'[q], wire[q])
  BY <1>0, TakenOne DEF ReadNoRequest
<1>3. pc' \in [Peers -> Labels] /\ pc'["server"] = "leave" /\ pc'["client"] = pc["client"]
  BY <1>0, TypeParts, Went DEF ReadNoRequest, Labels
<1>4. TypeOK'
  BY <1>0, <1>1, <1>2, <1>3, TypeParts, TypeParts2, ReadingKept
     DEF SendingTypes, OtherTypes, TroubleOK
<1>5. Lesser
  BY <1>1, <1>2, <1>3, WithinSelf DEF Lesser, InHand
<1> QED BY <1>4, <1>5, LesserIInv

LEMMA NoFirstLineIInv == ASSUME IInv, NEW p \in Peers, NoFirstLine(p) PROVE IInv'
<1>0. TypeOK /\ "client" \in Peers /\ "server" \in Peers
  BY DEF IInv, Peers
<1>1. UNCHANGED <<out, closed, reading, line, whole, executed>> /\ CutLine(p)
  BY DEF NoFirstLine, reading
<1>2. /\ wire' \in [Peers -> Seq(Tokens)] /\ \A q \in Peers : Within(wire'[q], wire[q])
      /\ TroubleOK'
  BY <1>0, <1>1, CutTypes DEF TroubleOK
<1>3. pc' \in [Peers -> Labels] /\ pc'[p] = "leave" /\ \A q \in Peers : q # p => pc'[q] = pc[q]
  BY <1>0, TypeParts, Went DEF NoFirstLine, Labels
<1>4. TypeOK'
  BY <1>0, <1>1, <1>2, <1>3, TypeParts, TypeParts2, ReadingKept DEF SendingTypes, OtherTypes
<1>5. Lesser
  BY <1>0, <1>1, <1>2, <1>3, WithinSelf DEF Lesser, InHand
<1> QED BY <1>4, <1>5, LesserIInv

LEMMA ReadHeaderIInv == ASSUME IInv, NEW p \in Peers, ReadHeader(p) PROVE IInv'
<1>0. TypeOK
  BY DEF IInv
<1>1. /\ UNCHANGED <<pc, out, closed, line, len, stored, tries, whole, executed, calm, trouble>>
      /\ headers' = [headers EXCEPT ![p] = @ \cup ({Head(In(p))} \cap (IF HasLength(p) THEN {"host"} ELSE Headers))]
  BY DEF ReadHeader, history
<1>2. wire' \in [Peers -> Seq(Tokens)] /\ \A q \in Peers : Within(wire'[q], wire[q])
  BY <1>0, TakenOne DEF ReadHeader
<1>3. ReadingTypes'
  <2>1. headers[p] \in SUBSET Headers /\ headers \in [Peers -> SUBSET Headers]
    BY <1>0, TypeParts DEF ReadingTypes
  <2>2. PICK h \in SUBSET Headers : headers' = [headers EXCEPT ![p] = h]
    BY <1>1, <2>1 DEF Headers
  <2>3. headers' \in [Peers -> SUBSET Headers]
    BY <2>1, <2>2
  <2> QED BY <1>0, <1>1, <2>3, TypeParts DEF ReadingTypes
<1>4. TypeOK'
  BY <1>0, <1>1, <1>2, <1>3, TypeParts, TypeParts2 DEF SendingTypes, OtherTypes, TroubleOK
<1>5. Lesser
  BY <1>1, <1>2, WithinSelf DEF Lesser, InHand
<1> QED BY <1>4, <1>5, LesserIInv

\* Where the headers lead to.
LEMMA Afterwards ==
  ASSUME TypeOK, NEW p \in Peers, AfterHeaders(p)
  PROVE  /\ pc' \in [Peers -> Labels] /\ pc'[p] # "connect"
         /\ \A q \in Peers : q # p => pc'[q] = pc[q]
<1>1. PICK l \in {"body", "decide", "leave", "drain"} : Goto(p, l)
  BY DEF AfterHeaders
<1> QED BY <1>1, TypeParts, Went DEF Labels

LEMMA EndOfHeadersIInv == ASSUME IInv, NEW p \in Peers, EndOfHeaders(p) PROVE IInv'
<1>0. TypeOK /\ "client" \in Peers /\ "server" \in Peers
  BY DEF IInv, Peers
<1>1. UNCHANGED <<out, closed, reading, line, whole, executed, calm, trouble>> /\ pc[p] = "headers"
  BY DEF EndOfHeaders, reading, history
<1>2. wire' \in [Peers -> Seq(Tokens)] /\ \A q \in Peers : Within(wire'[q], wire[q])
  BY <1>0, TakenOne DEF EndOfHeaders
<1>3. /\ pc' \in [Peers -> Labels] /\ pc'[p] # "connect"
      /\ \A q \in Peers : q # p => pc'[q] = pc[q]
  BY <1>0, Afterwards DEF EndOfHeaders
<1>4. TypeOK'
  BY <1>0, <1>1, <1>2, <1>3, TypeParts, TypeParts2, ReadingKept
     DEF SendingTypes, OtherTypes, TroubleOK
<1>5. Lesser
  BY <1>0, <1>1, <1>2, <1>3, WithinSelf DEF Lesser, InHand
<1> QED BY <1>4, <1>5, LesserIInv

LEMMA CutHeadersIInv == ASSUME IInv, NEW p \in Peers, CutHeaders(p) PROVE IInv'
<1>0. TypeOK /\ "client" \in Peers /\ "server" \in Peers
  BY DEF IInv, Peers
<1>1. /\ UNCHANGED <<out, closed, reading, line, whole, executed>> /\ CutLine(p)
      /\ pc[p] = "headers"
  BY DEF CutHeaders, reading
<1>2. /\ wire' \in [Peers -> Seq(Tokens)] /\ \A q \in Peers : Within(wire'[q], wire[q])
      /\ TroubleOK'
  BY <1>0, <1>1, CutTypes DEF TroubleOK
<1>3. /\ pc' \in [Peers -> Labels] /\ pc'[p] # "connect"
      /\ \A q \in Peers : q # p => pc'[q] = pc[q]
  BY <1>0, Afterwards DEF CutHeaders
<1>4. TypeOK'
  BY <1>0, <1>1, <1>2, <1>3, TypeParts, TypeParts2, ReadingKept DEF SendingTypes, OtherTypes
<1>5. Lesser
  BY <1>0, <1>1, <1>2, <1>3, WithinSelf DEF Lesser, InHand
<1> QED BY <1>4, <1>5, LesserIInv

LEMMA ReadBodyIInv == ASSUME IInv, NEW p \in Peers, ReadBody(p) PROVE IInv'
<1>0. TypeOK
  BY DEF IInv
<1>1. UNCHANGED <<pc, out, closed, line, headers, tries, whole, executed, calm, trouble>>
  BY DEF ReadBody, history
<1>2. ContentLength(p) \in Nat /\ len[p] \in Int
  BY <1>0, Numbers DEF ContentLength, BodyLength, TypeOK
<1>3. PICK n \in 1..(ContentLength(p) - len[p]) :
        /\ n <= Len(In(p)) /\ Take(p, n)
        /\ len' = [len EXCEPT ![p] = @ + n] /\ stored' = [stored EXCEPT ![p] = @ + n]
  BY DEF ReadBody
<1>4. n \in Nat
  BY <1>2, <1>3
<1>5. wire' \in [Peers -> Seq(Tokens)] /\ \A q \in Peers : Within(wire'[q], wire[q])
  BY <1>0, <1>3, <1>4, Taken
<1>6. ReadingTypes'
  BY <1>0, <1>1, <1>3, <1>4, TypeParts DEF ReadingTypes
<1>7. TypeOK'
  BY <1>0, <1>1, <1>5, <1>6, TypeParts, TypeParts2 DEF SendingTypes, OtherTypes, TroubleOK
<1>8. Lesser
  BY <1>1, <1>5, WithinSelf DEF Lesser, InHand
<1> QED BY <1>7, <1>8, LesserIInv

\* A failed read counts as a try.
LEMMA Tried ==
  ASSUME ReadingTypes, NEW p \in Peers, Wants(p), tries' = [tries EXCEPT ![p] = @ + 1]
  PROVE  tries' \in [Peers -> 0..MaxTries]
<1>1. tries[p] \in 0..MaxTries /\ tries[p] < MaxTries
  BY DEF ReadingTypes, Wants
<1>2. tries[p] + 1 \in 0..MaxTries
  BY <1>1, Numbers
<1> QED BY <1>2 DEF ReadingTypes

LEMMA ReadNothingIInv == ASSUME IInv, NEW p \in Peers, ReadNothing(p) PROVE IInv'
<1>0. TypeOK
  BY DEF IInv
<1>1. UNCHANGED <<pc, out, wire, closed, line, headers, len, stored, whole, executed>>
  BY DEF ReadNothing
<1>2. TroubleOK'
  BY <1>0, NoByteTypes DEF ReadNothing, TroubleOK
<1>3. ReadingTypes'
  BY <1>0, <1>1, TypeParts, Tried DEF ReadingTypes, ReadNothing
<1>4. TypeOK'
  BY <1>0, <1>1, <1>2, <1>3, TypeParts, TypeParts2 DEF SendingTypes, OtherTypes
<1>5. Lesser
  BY <1>1, WithinSelf DEF Lesser, InHand
<1> QED BY <1>4, <1>5, LesserIInv

LEMMA ReadErrorIInv == ASSUME IInv, NEW p \in Peers, ReadError(p) PROVE IInv'
<1>0. TypeOK
  BY DEF IInv
<1>1. /\ UNCHANGED <<pc, out, wire, closed, line, headers, stored, whole, executed>>
      /\ len' = [len EXCEPT ![p] = @ - 1]
  BY DEF ReadError
<1>2. TroubleOK'
  BY <1>0, TroubleTypes DEF ReadError, TroubleOK
<1>3. tries' \in [Peers -> 0..MaxTries]
  BY <1>0, TypeParts, Tried DEF ReadError
<1>4. ReadingTypes'
  BY <1>0, <1>1, <1>3, TypeParts DEF ReadingTypes
<1>5. TypeOK'
  BY <1>0, <1>1, <1>2, <1>4, TypeParts, TypeParts2 DEF SendingTypes, OtherTypes
<1>6. Lesser
  BY <1>1, WithinSelf DEF Lesser, InHand
<1> QED BY <1>5, <1>6, LesserIInv

LEMMA EndOfBodyIInv == ASSUME IInv, NEW p \in Peers, EndOfBody(p) PROVE IInv'
<1>0. TypeOK /\ "client" \in Peers /\ "server" \in Peers
  BY DEF IInv, Peers
<1>1. UNCHANGED <<out, wire, closed, reading, line, whole, executed, calm, trouble>> /\ pc[p] = "body"
  BY DEF EndOfBody, reading, history
<1>2. PICK l \in {"decide", "leave"} : Goto(p, l)
  BY DEF EndOfBody
<1>3. pc' \in [Peers -> Labels] /\ pc'[p] = l /\ \A q \in Peers : q # p => pc'[q] = pc[q]
  BY <1>0, <1>2, TypeParts, Went DEF Labels
<1>4. TypeOK'
  BY <1>0, <1>1, <1>3, TypeParts, TypeParts2, ReadingKept DEF SendingTypes, OtherTypes, TroubleOK
<1>5. Lesser
  BY <1>0, <1>1, <1>3, WithinSelf DEF Lesser, InHand
<1> QED BY <1>4, <1>5, LesserIInv

LEMMA DrainIInv == ASSUME IInv, Drain PROVE IInv'
<1>0. TypeOK /\ "client" \in Peers /\ "server" \in Peers
  BY DEF IInv, Peers
<1>1. UNCHANGED <<out, closed, reading, line, whole, executed>>
  BY DEF Drain, reading
<1>2. /\ pc' \in [Peers -> Labels] /\ pc'["server"] = pc["server"]
      /\ pc'["client"] = "connect" => pc["client"] = "connect"
  <2>1. CASE UNCHANGED pc
    BY <1>0, <2>1, TypeParts
  <2>2. CASE Goto("client", "leave")
    BY <1>0, <2>2, TypeParts, Went DEF Labels
  <2> QED BY <2>1, <2>2 DEF Drain
<1>3. /\ wire' \in [Peers -> Seq(Tokens)] /\ \A q \in Peers : Within(wire'[q], wire[q])
      /\ TroubleOK'
  <2>1. CASE In("client") # <<>> /\ Take("client", 1) /\ UNCHANGED <<pc, history>>
    BY <1>0, <2>1, TypeParts, TakenOne DEF TroubleOK, history
  <2>2. CASE NoByte("client") /\ UNCHANGED wire
    BY <1>0, <2>2, TypeParts, NoByteTypes, WithinSelf DEF TroubleOK, SendingTypes
  <2> QED BY <2>1, <2>2 DEF Drain
<1>4. TypeOK'
  BY <1>0, <1>1, <1>2, <1>3, TypeParts, TypeParts2, ReadingKept DEF SendingTypes, OtherTypes
<1>5. Lesser
  BY <1>1, <1>2, <1>3, WithinSelf DEF Lesser, InHand
<1> QED BY <1>4, <1>5, LesserIInv

-----------------------------------------------------------------------------
(* The server's answer, and the end.                                       *)

LEMMA RefuseIInv == ASSUME IInv, Refuse PROVE IInv'
<1>0. TypeOK /\ "client" \in Peers /\ "server" \in Peers
  BY DEF IInv, Peers
<1>1. /\ UNCHANGED <<wire, closed, reading, line, whole, executed, calm, trouble>>
      /\ out' = [out EXCEPT !["server"] = BadRequest]
  BY DEF Refuse, reading, history
<1>2. out' \in [Peers -> Seq(Tokens)] /\ \A q \in Peers : Within(out'[q], out[q])
  BY <1>0, <1>1, Messages, WithinSelf DEF TypeOK
<1>3. pc' \in [Peers -> Labels] /\ pc'["server"] = "write" /\ pc'["client"] = pc["client"]
  BY <1>0, TypeParts, Went DEF Refuse, Labels
<1>4. TypeOK'
  BY <1>0, <1>1, <1>2, <1>3, TypeParts, TypeParts2, ReadingKept
     DEF SendingTypes, OtherTypes, TroubleOK
<1>5. Lesser
  BY <1>1, <1>2, <1>3, WithinSelf DEF Lesser, InHand
<1> QED BY <1>4, <1>5, LesserIInv

LEMMA ExecuteIInv == ASSUME IInv, Execute PROVE IInv' /\ executed = 0 /\ executed' = 1
<1>0. TypeOK /\ "client" \in Peers /\ "server" \in Peers
  BY DEF IInv, Peers
<1>1. /\ UNCHANGED <<wire, closed, reading, line, calm, trouble>>
      /\ out' = [out EXCEPT !["server"] = Success]
      /\ pc["server"] = "decide" /\ line["server"] = "request" /\ executed' = executed + 1
      /\ whole' \in BOOLEAN
  BY DEF Execute, reading, history
<1>2. out' \in [Peers -> Seq(Tokens)] /\ out'["client"] = out["client"]
  BY <1>0, <1>1, Messages DEF TypeOK
<1>3. pc' \in [Peers -> Labels] /\ pc'["server"] = "write" /\ pc'["client"] = pc["client"]
  BY <1>0, TypeParts, Went DEF Execute, Labels
<1>4. InHand /\ ~InHand'
  BY <1>1, <1>3 DEF InHand
<1>5. executed = 0 /\ executed' = 1
  BY <1>1, <1>4 DEF IInv, OnePlace
<1>6. TypeOK'
  BY <1>0, <1>1, <1>2, <1>3, <1>5, TypeParts, TypeParts2, ReadingKept
     DEF SendingTypes, OtherTypes, TroubleOK
<1>7. OnePlace'
  BY <1>1, <1>2, <1>3, <1>4, <1>5 DEF IInv, OnePlace, ToWrite, OnTheWay
<1>8. Earned'
  BY <1>5 DEF Earned
<1> QED BY <1>5, <1>6, <1>7, <1>8 DEF IInv

LEMMA LeaveIInv == ASSUME IInv, NEW p \in Peers, Leave(p) PROVE IInv'
<1>0. TypeOK /\ "client" \in Peers /\ "server" \in Peers
  BY DEF IInv, Peers
<1>1. /\ UNCHANGED <<out, whole, executed, calm, trouble>>
      /\ closed' = [closed EXCEPT ![p] = TRUE]
      /\ wire' = [wire EXCEPT ![Other(p)] = <<>>]
  BY DEF Leave, history
<1>2. wire' \in [Peers -> Seq(Tokens)] /\ \A q \in Peers : Within(wire'[q], wire[q])
  <2>1. <<>> \in Seq(Tokens)
    OBVIOUS
  <2> QED BY <1>0, <1>1, <2>1, OtherPeer, WithinEmpty, WithinSelf DEF TypeOK
<1>3. pc' \in [Peers -> Labels] /\ pc'[p] = "done" /\ \A q \in Peers : q # p => pc'[q] = pc[q]
  BY <1>0, TypeParts, Went DEF Leave, Labels
<1>4. ReadingTypes' /\ line'["client"] = line["client"]
      /\ (p = "client" => line'["server"] = line["server"])
  <2>1. CASE p = "server"
    <3>1. Forget(p)
      BY <2>1 DEF Leave
    <3>2. line \in [Peers -> FirstLines \cup {"junk", "none"}]
      BY <1>0 DEF TypeOK
    <3> QED BY <1>0, <2>1, <3>1, <3>2, TypeParts, Started DEF Forget
  <2>2. CASE p # "server"
    <3>1. UNCHANGED reading
      BY <2>2 DEF Leave
    <3> QED BY <1>0, <3>1, <2>2, TypeParts, ReadingKept DEF reading
  <2> QED BY <2>1, <2>2
<1>5. TypeOK'
  BY <1>0, <1>1, <1>2, <1>3, <1>4, TypeParts, TypeParts2 DEF SendingTypes, OtherTypes, TroubleOK
<1>6. Lesser
  <2>1. InHand' => InHand
    BY <1>0, <1>3, <1>4 DEF InHand, Peers
  <2> QED BY <1>0, <1>1, <1>2, <1>3, <1>4, <2>1, WithinSelf DEF Lesser
<1> QED BY <1>5, <1>6, LesserIInv

LEMMA PeerIInv == ASSUME IInv, NEW p \in Peers, PeerNext(p) PROVE IInv'
BY WriteIInv, WriteFailsIInv, WrittenIInv, ReadFirstLineIInv, NoFirstLineIInv, ReadHeaderIInv,
   EndOfHeadersIInv, CutHeadersIInv, ReadBodyIInv, ReadNothingIInv, ReadErrorIInv,
   EndOfBodyIInv, LeaveIInv DEF PeerNext

LEMMA NextIInv == IInv /\ [Next]_vars => IInv'
<1> SUFFICES ASSUME IInv, [Next]_vars PROVE IInv'
  OBVIOUS
<1>0. "client" \in Peers /\ "server" \in Peers
  BY DEF Peers
<1>1. CASE ClientNext
  BY <1>0, <1>1, ConnectIInv, ConnectFailsIInv, DrainIInv, PeerIInv DEF ClientNext
<1>2. CASE ServerNext
  BY <1>0, <1>2, SkipLineIInv, ReadNoRequestIInv, RefuseIInv, ExecuteIInv, PeerIInv DEF ServerNext
<1>3. CASE UNCHANGED vars
  <2>1. UNCHANGED <<pc, out, wire, closed, reading, line, whole, executed, calm, trouble>>
    BY <1>3 DEF vars, reading, history
  <2>2. TypeOK'
    BY <2>1, TypeParts, TypeParts2, ReadingKept
       DEF IInv, SendingTypes, OtherTypes, TroubleOK
  <2>3. Lesser
    BY <2>1, WithinSelf DEF Lesser, InHand
  <2> QED BY <2>2, <2>3, LesserIInv
<1> QED BY <1>1, <1>2, <1>3 DEF Next

THEOREM Invariance == Spec => []IInv
BY InitIInv, NextIInv, PTL DEF Spec

\* Types, for any bodies and any number of failures.
THEOREM Types == Spec => []TypeOK
<1>1. IInv => TypeOK
  BY DEF IInv
<1> QED BY <1>1, Invariance, PTL

-----------------------------------------------------------------------------
(* Refinement.                                                             *)

\* Nothing happens to a client that is done.
Stays == Done("client") => Done("client")' /\ line'["client"] = line["client"]

LEMMA PeerStays ==
  ASSUME TypeOK, NEW p \in Peers, PeerNext(p)
  PROVE  Stays /\ executed' = executed
<1>0. /\ "client" \in Peers /\ "server" \in Peers /\ pc \in [Peers -> Labels]
      /\ line \in [Peers -> FirstLines \cup {"junk", "none"}]
  BY TypeParts DEF Peers, TypeOK
<1>1. executed' = executed
  BY DEF PeerNext, Write, WriteFails, Written, ReadFirstLine, NoFirstLine, ReadHeader,
         EndOfHeaders, CutHeaders, ReadBody, ReadNothing, ReadError, EndOfBody, Leave
<1>2. CASE p = "client"
  <2>1. ~Done("client")
    BY <1>2 DEF Done, PeerNext, Write, WriteFails, Written, ReadFirstLine, NoFirstLine,
         ReadHeader, EndOfHeaders, CutHeaders, ReadBody, ReadNothing, ReadError, EndOfBody, Leave
  <2> QED BY <1>1, <2>1 DEF Stays
<1>3. CASE p = "server"
  <2>1. UNCHANGED pc \/ \E l : Goto(p, l)
    BY DEF PeerNext, Write, WriteFails, Written, ReadFirstLine, NoFirstLine, ReadHeader,
         EndOfHeaders, CutHeaders, AfterHeaders, ReadBody, ReadNothing, ReadError, EndOfBody,
         Leave
  <2>2. pc'["client"] = pc["client"]
    BY <1>0, <1>3, <2>1 DEF Goto
  <2>3. UNCHANGED line \/ \E l : line' = [line EXCEPT ![p] = l]
    BY DEF PeerNext, Write, WriteFails, Written, ReadFirstLine, NoFirstLine, ReadHeader,
         EndOfHeaders, CutHeaders, ReadBody, ReadNothing, ReadError, EndOfBody,
         Leave, Forget, StartMessage, reading
  <2>4. line'["client"] = line["client"]
    BY <1>0, <1>3, <2>3
  <2> QED BY <1>1, <2>2, <2>4 DEF Stays, Done
<1> QED BY <1>2, <1>3 DEF Peers

LEMMA NextStays == ASSUME TypeOK, [Next]_vars PROVE Stays /\ (executed' = executed \/ Execute)
<1>0. "client" \in Peers /\ "server" \in Peers /\ pc \in [Peers -> Labels]
  BY TypeParts DEF Peers
<1>1. CASE Connect \/ ConnectFails \/ Drain
  BY <1>1 DEF Connect, ConnectFails, Drain, Stays, Done
<1>2. CASE SkipLine \/ ReadNoRequest \/ Refuse \/ Execute
  <2>1. UNCHANGED line /\ (executed' = executed \/ Execute)
    BY <1>2 DEF SkipLine, ReadNoRequest, Refuse, Execute, reading
  <2>2. pc'["client"] = pc["client"]
    BY <1>0, <1>2 DEF SkipLine, ReadNoRequest, Refuse, Execute, Goto
  <2> QED BY <2>1, <2>2 DEF Stays, Done
<1>3. CASE \E p \in Peers : PeerNext(p)
  BY <1>3, PeerStays
<1>4. CASE UNCHANGED vars
  BY <1>4 DEF vars, reading, Stays, Done
<1> QED BY <1>0, <1>1, <1>2, <1>3, <1>4 DEF Next, ClientNext, ServerNext

LEMMA StepImplements ==
  ASSUME IInv, IInv', [Next]_vars
  PROVE  [Call!Next]_<<executed, result>>
<1>1. TypeOK /\ Stays /\ (executed' = executed \/ Execute)
  BY NextStays DEF IInv
<1>2. result # "none" => result' = result
  BY <1>1 DEF Stays, Done, result
<1>3. result \in {"none", "ok", "failed"} /\ result' \in {"none", "ok", "failed"}
  BY DEF result
<1>4. result' = "ok" => executed' = 1
  BY DEF IInv, Earned, result
<1>5. CASE executed' = executed
  BY <1>2, <1>3, <1>4, <1>5 DEF Call!Next, Call!Succeed, Call!Fail
<1>6. CASE Execute
  <2>1. executed = 0 /\ executed' = executed + 1
    BY <1>6, ExecuteIInv DEF Execute
  <2>2. "client" \in Peers /\ "server" \in Peers /\ pc \in [Peers -> Labels]
    BY <1>1, TypeParts DEF Peers
  <2>3. pc'["client"] = pc["client"] /\ UNCHANGED line
    BY <1>6, <2>2 DEF Execute, Goto, reading
  <2>4. UNCHANGED result
    BY <2>3 DEF result, Done
  <2> QED BY <2>1, <2>4 DEF Call!Next, Call!Execute
<1> QED BY <1>1, <1>5, <1>6

\* However long the bodies are and whatever fails: the listener gets the request at most
\* once, and a client that reads a success has been heard (HttpExchange implements
\* RemoteCall, for cg_http_request_post and the client thread of the server).
THEOREM ExchangeImplements == Spec => ImplementsCall
<1>1. Init => Call!Init
  BY DEF Init, Call!Init, result, Done, Peers
<1>2. IInv /\ IInv' /\ [Next]_vars => [Call!Next]_<<executed, result>>
  BY StepImplements
<1>3. Spec => Init /\ [][Next]_vars
  BY PTL DEF Spec
<1> QED BY <1>1, <1>2, <1>3, Invariance, PTL DEF ImplementsCall, Call!Spec

-----------------------------------------------------------------------------
(* An exchange in which no read and no write has timed out or failed.      *)

\* w and then o are m without its first k tokens.
Rest(w, o, m, k) ==
  /\ k \in Nat /\ k + Len(w) + Len(o) = Len(m)
  /\ \A i \in 1..Len(w) : w[i] = m[k + i]
  /\ \A i \in 1..Len(o) : o[i] = m[k + Len(w) + i]

\* What p has written and has still to write.
Left(p, m, k) == Rest(wire[p], out[p], m, k)

Quiet(p) == wire[p] = <<>> /\ out[p] = <<>>

\* The message p reads, and its tokens before the body.
ToRead(p) == IF p = "client" THEN Success ELSE Request
Lines(p) == IF p = "client" THEN 3 ELSE 4

\* The length is the last header of both messages.
AtHeaders(p) ==
  /\ pc[p] = "headers" /\ len[p] = 0 /\ stored[p] = 0 /\ tries[p] = 0
  /\ \E k \in 1..(Lines(p) - 1) :
       /\ Left(Other(p), ToRead(p), k)
       /\ IF k = Lines(p) - 1 THEN "length" \in headers[p] ELSE ~HasLength(p)
       /\ p = "server" /\ k > 1 => "host" \in headers[p]

AtBody(p) ==
  /\ pc[p] = "body" /\ stored[p] = len[p] /\ tries[p] = 0
  /\ p = "server" => "host" \in headers[p]
  /\ "length" \in headers[p] /\ len[p] \in 0..BodyLength(p)
  /\ Left(Other(p), ToRead(p), Lines(p) + len[p])

HasRead(p) ==
  /\ pc[p] \in (IF p = "client" THEN {"leave", "done"} ELSE {"decide"})
  /\ p = "server" => "host" \in headers[p]
  /\ len[p] = BodyLength(p) /\ stored[p] = len[p]
  /\ Left(Other(p), ToRead(p), Len(ToRead(p)))

Hearing(p) == line[p] = ToRead(p)[1] /\ (AtHeaders(p) \/ AtBody(p) \/ HasRead(p))

\* The client before and after it has read the first line of the answer.
ClientWalk ==
  \/ /\ pc["client"] = "connect" /\ pc["server"] = "line" /\ executed = 0
     /\ Quiet("client") /\ Quiet("server")
  \/ /\ pc["client"] \in {"write", "line"}
     /\ IF executed = 0 THEN Quiet("server") ELSE Left("server", Success, 0)
  \/ executed = 1 /\ Hearing("client")

\* The server before, while and after it reads the request.
ServerWalk ==
  \/ /\ pc["server"] = "line" /\ executed = 0
     /\ pc["client"] # "connect" => Left("client", Request, 0)
  \/ pc["client"] # "connect" /\ executed = 0 /\ Hearing("server")
  \/ /\ executed = 1 /\ whole /\ Quiet("client")
     /\ pc["server"] \in {"write", "line", "leave", "done"}
     /\ pc["server"] # "write" => out["server"] = <<>>

ClosedDone == \A p \in Peers : closed[p] => pc[p] = "done"

CalmInv == calm => ClientWalk /\ ServerWalk /\ ClosedDone

LEMMA MessageTokens ==
  /\ Request \in Seq(Tokens) /\ Len(Request) = 4 + RequestBody
  /\ Request[1] = "request" /\ Request[2] = "host" /\ Request[3] = "length"
  /\ Request[4] = "empty"
  /\ Success \in Seq(Tokens) /\ Len(Success) = 3 + ResponseBody
  /\ Success[1] = "ok" /\ Success[2] = "length" /\ Success[3] = "empty"
<1>1. \A n \in Nat : Body(n) \in Seq(Tokens) /\ Len(Body(n)) = n
  BY DEF Body, Tokens, Headers
<1>2. RequestBody \in Nat /\ ResponseBody \in Nat
  BY Numbers
<1>3. /\ <<"request", "host", "length", "empty">> \in Seq(Tokens)
      /\ <<"ok", "length", "empty">> \in Seq(Tokens)
  BY DEF Tokens, Headers, FirstLines
<1>4. Len(Request) = 4 + RequestBody /\ Len(Success) = 3 + ResponseBody
  BY <1>1, <1>2, <1>3 DEF Request, Success
<1>5. \A i \in 1..4 : Request[i] = <<"request", "host", "length", "empty">>[i]
  BY <1>1, <1>2, <1>3 DEF Request
<1>6. \A i \in 1..3 : Success[i] = <<"ok", "length", "empty">>[i]
  BY <1>1, <1>2, <1>3 DEF Success
<1> QED BY <1>4, <1>5, <1>6, Messages

\* What the proofs below use of the message that p reads.
LEMMA Read ==
  ASSUME NEW p \in Peers
  PROVE  /\ ToRead(p) \in Seq(Tokens) /\ Lines(p) \in {3, 4}
         /\ BodyLength(p) \in Nat
         /\ Len(ToRead(p)) = Lines(p) + BodyLength(p)
         /\ ToRead(p)[1] \in FirstLines
         /\ ToRead(p)[Lines(p) - 1] = "length" /\ ToRead(p)[Lines(p)] = "empty"
         /\ \A k \in 2..(Lines(p) - 1) : ToRead(p)[k] \in {"host", "length"}
         /\ \A k \in 2..(Lines(p) - 2) : ToRead(p)[k] = "host"
         /\ p = "server" => /\ ToRead(p)[2] = "host" /\ Lines(p) = 4
                            /\ BodyLength(p) > 0
<1>1. RequestBody \in Nat /\ RequestBody > 0 /\ ResponseBody \in Nat
  BY ValueAssumption
<1>2. CASE p = "client"
  <2>1. ToRead(p) = Success /\ Lines(p) = 3 /\ BodyLength(p) = ResponseBody
    BY <1>2, MessageTokens DEF ToRead, Lines, BodyLength
  <2> QED BY <1>1, <1>2, <2>1, MessageTokens DEF FirstLines
<1>3. CASE p = "server"
  <2>1. ToRead(p) = Request /\ Lines(p) = 4 /\ BodyLength(p) = RequestBody
    BY <1>3, MessageTokens DEF ToRead, Lines, BodyLength
  <2> QED BY <1>1, <1>3, <2>1, MessageTokens DEF FirstLines
<1> QED BY <1>2, <1>3 DEF Peers

LEMMA RestNothing ==
  ASSUME NEW w \in Seq(Tokens), NEW o \in Seq(Tokens), NEW m \in Seq(Tokens)
  PROVE  Rest(w, o, m, Len(m)) <=> w = <<>> /\ o = <<>>
<1>1. Len(w) \in Nat /\ Len(o) \in Nat /\ Len(m) \in Nat
  OBVIOUS
<1>2. Rest(w, o, m, Len(m)) => Len(w) = 0 /\ Len(o) = 0
  BY <1>1 DEF Rest
<1>3. Len(w) = 0 /\ Len(o) = 0 => Rest(w, o, m, Len(m))
  BY <1>1 DEF Rest
<1>4. (w = <<>> <=> Len(w) = 0) /\ (o = <<>> <=> Len(o) = 0)
  OBVIOUS
<1> QED BY <1>2, <1>3, <1>4

LEMMA RestWritten ==
  ASSUME NEW w \in Seq(Tokens), NEW o \in Seq(Tokens), NEW m \in Seq(Tokens), NEW k,
         o # <<>>, Rest(w, o, m, k)
  PROVE  Rest(Append(w, Head(o)), Tail(o), m, k)
<1> DEFINE v == Append(w, Head(o))
<1> DEFINE u == Tail(o)
<1>1. /\ Len(v) = Len(w) + 1 /\ Len(u) = Len(o) - 1
      /\ Len(w) \in Nat /\ Len(o) \in Nat \ {0} /\ Len(m) \in Nat
      /\ v[Len(w) + 1] = o[1]
  OBVIOUS
<1>2. /\ \A i \in 1..Len(w) : v[i] = w[i]
      /\ \A i \in 1..Len(u) : u[i] = o[i + 1] /\ i + 1 \in 1..Len(o)
  OBVIOUS
<1> HIDE DEF v, u
<1>3. k \in Nat /\ k + Len(w) + Len(o) = Len(m)
  BY DEF Rest
<1>4. \A i \in 1..Len(v) : v[i] = m[k + i]
  <2>1. v[Len(w) + 1] = m[k + (Len(w) + 1)]
    <3>1. 1 \in 1..Len(o) /\ k + Len(w) + 1 = k + (Len(w) + 1)
      BY <1>1, <1>3
    <3> QED BY <1>1, <3>1 DEF Rest
  <2>2. \A i \in 1..Len(v) : i \in 1..Len(w) \/ i = Len(w) + 1
    BY <1>1
  <2>3. \A i \in 1..Len(w) : v[i] = m[k + i]
    BY <1>2 DEF Rest
  <2> QED BY <2>1, <2>2, <2>3
<1>5. \A i \in 1..Len(u) : u[i] = m[k + Len(v) + i]
  <2> SUFFICES ASSUME NEW i \in 1..Len(u) PROVE u[i] = m[k + Len(v) + i]
    OBVIOUS
  <2>1. u[i] = m[k + Len(w) + (i + 1)]
    BY <1>2 DEF Rest
  <2>2. k + Len(w) + (i + 1) = k + Len(v) + i
    BY <1>1, <1>3
  <2> QED BY <2>1, <2>2
<1>6. k + Len(v) + Len(u) = Len(m)
  BY <1>1, <1>3
<1> QED BY <1>3, <1>4, <1>5, <1>6 DEF Rest, v, u

LEMMA RestTaken ==
  ASSUME NEW w \in Seq(Tokens), NEW o \in Seq(Tokens), NEW m \in Seq(Tokens), NEW k,
         NEW n \in Nat, n <= Len(w), Rest(w, o, m, k)
  PROVE  Rest(SubSeq(w, n + 1, Len(w)), o, m, k + n)
<1> DEFINE v == SubSeq(w, n + 1, Len(w))
<1>1. /\ Len(v) = Len(w) - n
      /\ Len(w) \in Nat /\ Len(o) \in Nat /\ Len(m) \in Nat
  OBVIOUS
<1>2. \A i \in 1..Len(v) : v[i] = w[n + i] /\ n + i \in 1..Len(w)
  OBVIOUS
<1> HIDE DEF v
<1>3. k \in Nat /\ k + Len(w) + Len(o) = Len(m)
  BY DEF Rest
<1>4. \A i \in 1..Len(v) : v[i] = m[k + n + i]
  <2> SUFFICES ASSUME NEW i \in 1..Len(v) PROVE v[i] = m[k + n + i]
    OBVIOUS
  <2>1. v[i] = m[k + (n + i)]
    BY <1>2 DEF Rest
  <2>2. k + (n + i) = k + n + i
    BY <1>1, <1>3
  <2> QED BY <2>1, <2>2
<1>5. \A i \in 1..Len(o) : o[i] = m[k + n + Len(v) + i]
  <2> SUFFICES ASSUME NEW i \in 1..Len(o) PROVE o[i] = m[k + n + Len(v) + i]
    OBVIOUS
  <2>1. o[i] = m[k + Len(w) + i]
    BY DEF Rest
  <2>2. k + Len(w) + i = k + n + Len(v) + i
    BY <1>1, <1>3
  <2> QED BY <2>1, <2>2
<1>6. k + n + Len(v) + Len(o) = Len(m)
  BY <1>1, <1>3
<1>7. k + n \in Nat
  BY <1>3
<1> QED BY <1>4, <1>5, <1>6, <1>7 DEF Rest, v

LEMMA RestHead ==
  ASSUME NEW w \in Seq(Tokens), NEW o \in Seq(Tokens), NEW m \in Seq(Tokens), NEW k,
         w # <<>>, Rest(w, o, m, k)
  PROVE  Head(w) = m[k + 1] /\ 1 <= Len(w)
<1>1. Head(w) = w[1] /\ Len(w) \in Nat \ {0}
  OBVIOUS
<1> QED BY <1>1 DEF Rest

LEMMA RestLen ==
  ASSUME NEW w \in Seq(Tokens), NEW o \in Seq(Tokens), NEW m \in Seq(Tokens), NEW k,
         Rest(w, o, m, k)
  PROVE  /\ k \in Nat /\ k + Len(w) <= Len(m) /\ k <= Len(m)
         /\ k < Len(m) /\ w = <<>> => o # <<>>
<1>1. Len(w) \in Nat /\ Len(o) \in Nat /\ Len(m) \in Nat
  OBVIOUS
<1>2. k \in Nat /\ k + Len(w) + Len(o) = Len(m)
  BY DEF Rest
<1>3. k + Len(w) <= Len(m) /\ k <= Len(m)
  BY <1>1, <1>2
<1>4. k < Len(m) /\ w = <<>> => o # <<>>
  BY <1>1, <1>2
<1> QED BY <1>2, <1>3, <1>4

-----------------------------------------------------------------------------
(* What the steps leave of a message.                                      *)

LEMMA LeftKept ==
  ASSUME NEW p \in Peers, NEW m, NEW k, Left(p, m, k), wire'[p] = wire[p], out'[p] = out[p]
  PROVE  Left(p, m, k)'
BY DEF Left

LEMMA Nothing ==
  ASSUME TypeOK, NEW p \in Peers, NEW m \in Seq(Tokens)
  PROVE  Left(p, m, Len(m)) <=> Quiet(p)
<1>1. wire[p] \in Seq(Tokens) /\ out[p] \in Seq(Tokens)
  BY DEF TypeOK
<1> QED BY <1>1, RestNothing DEF Left, Quiet

LEMMA LeftWritten ==
  ASSUME TypeOK, NEW p \in Peers, Write(p), ~closed[Other(p)],
         NEW m \in Seq(Tokens), NEW k, Left(p, m, k)
  PROVE  Left(p, m, k)'
<1>1. /\ wire[p] \in Seq(Tokens) /\ out[p] \in Seq(Tokens) /\ out[p] # <<>>
      /\ wire \in [Peers -> Seq(Tokens)] /\ out \in [Peers -> Seq(Tokens)]
  BY DEF TypeOK, Write
<1>2. wire'[p] = Append(wire[p], Head(out[p])) /\ out'[p] = Tail(out[p])
  BY <1>1 DEF Write, Send
<1>3. Rest(Append(wire[p], Head(out[p])), Tail(out[p]), m, k)
  BY <1>1, RestWritten DEF Left
<1> QED BY <1>2, <1>3 DEF Left

LEMMA LeftTaken ==
  ASSUME TypeOK, NEW p \in Peers, NEW n \in Nat, n <= Len(In(p)), Take(p, n),
         UNCHANGED out, NEW m \in Seq(Tokens), NEW k, Left(Other(p), m, k)
  PROVE  /\ Left(Other(p), m, k + n)'
         /\ wire'[p] = wire[p] /\ out'[p] = out[p]
<1> DEFINE q == Other(p)
<1>0. q \in Peers /\ q # p
  BY DEF Other, Peers
<1>1. /\ wire[q] \in Seq(Tokens) /\ out[q] \in Seq(Tokens)
      /\ wire \in [Peers -> Seq(Tokens)]
  BY <1>0 DEF TypeOK
<1>2. /\ wire'[q] = SubSeq(wire[q], n + 1, Len(wire[q])) /\ n <= Len(wire[q])
      /\ wire'[p] = wire[p] /\ out'[q] = out[q] /\ out'[p] = out[p]
  BY <1>0, <1>1 DEF Take, In
<1>3. Rest(SubSeq(wire[q], n + 1, Len(wire[q])), out[q], m, k + n)
  BY <1>1, <1>2, RestTaken DEF Left
<1> QED BY <1>2, <1>3 DEF Left

\* The first token under way is the next one of the message.
LEMMA LeftHead ==
  ASSUME TypeOK, NEW p \in Peers, In(p) # <<>>, NEW m \in Seq(Tokens), NEW k,
         Left(Other(p), m, k)
  PROVE  Head(In(p)) = m[k + 1] /\ 1 <= Len(In(p))
<1>1. wire[Other(p)] \in Seq(Tokens) /\ out[Other(p)] \in Seq(Tokens)
  BY OtherPeer DEF TypeOK
<1> QED BY <1>1, RestHead DEF Left, In

\* While something is left, it is under way or still to be written.
LEMMA LeftThere ==
  ASSUME TypeOK, NEW p \in Peers, NEW m \in Seq(Tokens), NEW k, Left(Other(p), m, k)
  PROVE  /\ k \in Nat /\ k + Len(In(p)) <= Len(m)
         /\ k < Len(m) /\ In(p) = <<>> => out[Other(p)] # <<>>
<1>1. wire[Other(p)] \in Seq(Tokens) /\ out[Other(p)] \in Seq(Tokens)
  BY OtherPeer DEF TypeOK
<1> QED BY <1>1, RestLen DEF Left, In

-----------------------------------------------------------------------------
(* A side that reads.                                                      *)

\* What p does and has read stays.
SameReader(p) ==
  /\ pc'[p] = pc[p] /\ line'[p] = line[p] /\ headers'[p] = headers[p]
  /\ len'[p] = len[p] /\ stored'[p] = stored[p] /\ tries'[p] = tries[p]

LEMMA HearingKept ==
  ASSUME NEW p \in Peers, SameReader(p), Hearing(p),
         \A k : Left(Other(p), ToRead(p), k) => Left(Other(p), ToRead(p), k)'
  PROVE  Hearing(p)'
<1>1. line'[p] = ToRead(p)[1] /\ line'[p] = line[p]
  BY DEF SameReader, Hearing
<1>2. CASE AtHeaders(p)
  <2>1. AtHeaders(p)'
    BY <1>2 DEF AtHeaders, SameReader, HasLength
  <2> QED BY <1>1, <2>1 DEF Hearing
<1>3. CASE AtBody(p)
  <2>1. AtBody(p)'
    BY <1>1, <1>3 DEF AtBody, SameReader, Left
  <2> QED BY <1>1, <2>1 DEF Hearing
<1>4. CASE HasRead(p)
  <2>1. HasRead(p)'
    BY <1>1, <1>4 DEF HasRead, SameReader, Left
  <2> QED BY <1>1, <2>1 DEF Hearing
<1> QED BY <1>2, <1>3, <1>4 DEF Hearing

LEMMA HearingStays ==
  ASSUME NEW p \in Peers, SameReader(p), Hearing(p),
         wire'[Other(p)] = wire[Other(p)], out'[Other(p)] = out[Other(p)]
  PROVE  Hearing(p)'
<1>1. \A k : Left(Other(p), ToRead(p), k) => Left(Other(p), ToRead(p), k)'
  BY DEF Left
<1> QED BY <1>1, HearingKept

\* No read comes back empty while the exchange is calm, except at the end of the stream.
LEMMA CalmRead ==
  ASSUME NEW p \in Peers, calm', NoByte(p) \/ CutLine(p)
  PROVE  In(p) = <<>> /\ closed[Other(p)] /\ calm
BY DEF NoByte, CutLine, Trouble

\* The end of the stream is not met before the end of the message.
LEMMA NotEarly ==
  ASSUME TypeOK, NEW p \in Peers, calm', NoByte(p) \/ CutLine(p),
         closed[Other(p)] => out[Other(p)] = <<>>,
         NEW k, Left(Other(p), ToRead(p), k), k < Len(ToRead(p))
  PROVE  FALSE
<1>1. In(p) = <<>> /\ out[Other(p)] = <<>>
  BY CalmRead
<1> QED BY <1>1, LeftThere, Read

\* Steps of p that read or decide about what was read.
Reading(p) ==
  \/ ReadHeader(p) \/ EndOfHeaders(p) \/ CutHeaders(p)
  \/ ReadBody(p) \/ ReadNothing(p) \/ ReadError(p) \/ EndOfBody(p)

LEMMA ReadHeaderHearing ==
  ASSUME TypeOK, NEW p \in Peers, Hearing(p), ReadHeader(p)
  PROVE  Hearing(p)'
<1>1. AtHeaders(p) /\ line[p] = ToRead(p)[1]
  BY DEF Hearing, AtBody, HasRead, ReadHeader
<1>2. PICK k \in 1..(Lines(p) - 1) :
        /\ Left(Other(p), ToRead(p), k)
        /\ (k = Lines(p) - 1 \/ ~HasLength(p))
        /\ p = "server" /\ k > 1 => "host" \in headers[p]
  BY <1>1 DEF AtHeaders
<1>3. Head(In(p)) = ToRead(p)[k + 1] /\ 1 <= Len(In(p))
  BY <1>2, LeftHead, Read DEF ReadHeader
<1>4. k + 1 \in 1..(Lines(p) - 1)
  <2>1. Lines(p) \in Nat /\ (k = Lines(p) - 1 => k + 1 = Lines(p))
    BY Read
  <2>2. k # Lines(p) - 1
    BY <1>3, <2>1, Read DEF ReadHeader
  <2> QED BY <1>2, <2>1, <2>2
<1>5. Left(Other(p), ToRead(p), k + 1)'
  BY <1>2, <1>3, LeftTaken, Read DEF ReadHeader
<1>6. /\ headers'[p] = headers[p] \cup ({Head(In(p))} \cap Headers)
      /\ pc'[p] = "headers" /\ line'[p] = line[p] /\ len'[p] = len[p]
      /\ stored'[p] = stored[p] /\ tries'[p] = tries[p]
  <2>1. ~HasLength(p)
    BY <1>2, <1>4, Read
  <2> QED BY <2>1 DEF ReadHeader, TypeOK
<1>7. IF k + 1 = Lines(p) - 1 THEN "length" \in headers'[p] ELSE ~HasLength(p)'
  <2>1. CASE k + 1 = Lines(p) - 1
    <3>1. ToRead(p)[k + 1] = "length"
      BY <2>1, Read
    <3> QED BY <1>3, <1>6, <2>1, <3>1 DEF Headers
  <2>2. CASE k + 1 # Lines(p) - 1
    <3>1. ~HasLength(p)
      BY <1>2, <1>4, Read
    <3>2. k + 1 \in 2..(Lines(p) - 2)
      BY <1>2, <1>4, <2>2, Read
    <3>3. Head(In(p)) = "host"
      BY <1>3, <3>2, Read
    <3> QED BY <1>6, <2>2, <3>1, <3>3 DEF HasLength
  <2> QED BY <2>1, <2>2
<1>8. p = "server" => "host" \in headers'[p]
  <2> SUFFICES ASSUME p = "server" PROVE "host" \in headers'[p]
    OBVIOUS
  <2>1. CASE k = 1
    <3>1. ToRead(p)[2] = "host"
      BY Read
    <3>2. k + 1 = 2
      BY <2>1
    <3>3. Head(In(p)) = "host"
      BY <1>3, <3>1, <3>2
    <3> QED BY <3>3, <1>6 DEF Headers
  <2>2. CASE k > 1
    BY <2>2, <1>2, <1>6
  <2> QED BY <2>1, <2>2
<1>9. AtHeaders(p)'
  BY <1>1, <1>4, <1>5, <1>6, <1>7, <1>8 DEF AtHeaders
<1> QED BY <1>1, <1>6, <1>9 DEF Hearing

LEMMA EndOfHeadersHearing ==
  ASSUME TypeOK, NEW p \in Peers, Hearing(p), EndOfHeaders(p)
  PROVE  Hearing(p)'
<1>1. AtHeaders(p) /\ line[p] = ToRead(p)[1]
  BY DEF Hearing, AtBody, HasRead, EndOfHeaders
<1>2. PICK k \in 1..(Lines(p) - 1) :
        /\ Left(Other(p), ToRead(p), k)
        /\ IF k = Lines(p) - 1 THEN "length" \in headers[p] ELSE ~HasLength(p)
        /\ p = "server" /\ k > 1 => "host" \in headers[p]
  BY <1>1 DEF AtHeaders
<1>3. Head(In(p)) = ToRead(p)[k + 1] /\ 1 <= Len(In(p))
  BY <1>2, LeftHead, Read DEF EndOfHeaders
<1>4. k = Lines(p) - 1
  <2>1. k + 1 \notin 2..(Lines(p) - 1)
    BY <1>3, Read DEF EndOfHeaders
  <2> QED BY <1>2, <2>1, Read
<1>5. Left(Other(p), ToRead(p), Lines(p))'
  <2>1. Left(Other(p), ToRead(p), k + 1)'
    BY <1>2, <1>3, LeftTaken, Read DEF EndOfHeaders
  <2>2. k + 1 = Lines(p)
    <3>1. Lines(p) \in {3, 4}
      BY Read
    <3> QED BY <1>4, <3>1
  <2> QED BY <2>1, <2>2
<1>6. /\ headers'[p] = headers[p] /\ line'[p] = line[p] /\ len'[p] = 0
      /\ stored'[p] = 0 /\ tries'[p] = 0
  BY <1>1 DEF EndOfHeaders, reading, AtHeaders
<1>7. "length" \in headers[p] /\ (p = "server" => "host" \in headers[p])
  BY <1>2, <1>4, Read
<1>8. ContentLength(p) = BodyLength(p) /\ HasLength(p)
  BY <1>7 DEF ContentLength, HasLength
<1>9. CASE ContentLength(p) > 0
  <2>1. pc'[p] = "body"
    BY <1>7, <1>9 DEF EndOfHeaders, AfterHeaders, Goto, TypeOK
  <2>2. len'[p] \in 0..BodyLength(p)
    BY <1>6, Read
  <2>3. Lines(p) + len'[p] = Lines(p)
    BY <1>6, Read
  <2>4. AtBody(p)'
    BY <1>5, <1>6, <1>7, <2>1, <2>2, <2>3 DEF AtBody, Left
  <2> QED BY <1>1, <1>6, <2>4 DEF Hearing
<1>10. CASE ~(ContentLength(p) > 0)
  <2>1. ContentLength(p) = 0 /\ Len(ToRead(p)) = Lines(p) /\ p = "client"
    <3>1. ContentLength(p) = BodyLength(p) /\ ContentLength(p) \in Nat
      BY <1>8, Read
    <3>2. ContentLength(p) = 0
      BY <1>10, <3>1
    <3>3. p # "server"
      BY <1>10, <3>1, Read
    <3>4. Len(ToRead(p)) = Lines(p)
      <4>1. Len(ToRead(p)) = Lines(p) + 0
        BY <3>1, <3>2, Read, <1>1
      <4> QED BY <4>1, Read
    <3> QED BY <3>2, <3>3, <3>4 DEF Peers
  <2>2. pc'[p] = "leave"
    BY <1>7, <1>8, <2>1 DEF EndOfHeaders, AfterHeaders, Goto, TypeOK
  <2>3. HasRead(p)'
    BY <1>5, <1>6, <1>8, <2>1, <2>2 DEF HasRead
  <2> QED BY <1>1, <1>6, <2>3 DEF Hearing
<1> QED BY <1>9, <1>10

LEMMA CutHeadersHearing ==
  ASSUME TypeOK, NEW p \in Peers, Hearing(p), calm', CutHeaders(p),
         closed[Other(p)] => out[Other(p)] = <<>>
  PROVE  FALSE
<1>1. PICK k \in 1..(Lines(p) - 1) : Left(Other(p), ToRead(p), k)
  BY DEF Hearing, AtHeaders, AtBody, HasRead, CutHeaders
<1>2. k < Len(ToRead(p))
  BY <1>1, Read
<1> QED BY <1>1, <1>2, NotEarly DEF CutHeaders

LEMMA ReadBodyHearing ==
  ASSUME TypeOK, NEW p \in Peers, Hearing(p), ReadBody(p)
  PROVE  Hearing(p)'
<1>1. AtBody(p) /\ line[p] = ToRead(p)[1]
  BY DEF Hearing, AtHeaders, HasRead, ReadBody
<1>0. ContentLength(p) = BodyLength(p)
  BY <1>1 DEF AtBody, ContentLength
<1>2. PICK n \in 1..(ContentLength(p) - len[p]) :
        /\ n <= Len(In(p)) /\ Take(p, n)
        /\ len' = [len EXCEPT ![p] = @ + n] /\ stored' = [stored EXCEPT ![p] = @ + n]
  BY DEF ReadBody
<1>3. /\ len[p] \in Nat /\ ContentLength(p) \in Nat /\ len[p] <= ContentLength(p)
      /\ stored[p] = len[p]
  BY <1>0, <1>1, Read DEF AtBody
<1>4. n \in Nat /\ len[p] + n \in 0..ContentLength(p)
  BY <1>2, <1>3
<1>5. /\ len'[p] = len[p] + n /\ stored'[p] = len[p] + n
      /\ UNCHANGED <<pc, out, line, headers, tries>>
  BY <1>2, <1>3 DEF ReadBody, TypeOK
<1>6. Left(Other(p), ToRead(p), Lines(p) + len[p])'
  <2> DEFINE k == Lines(p) + len[p]
  <2>1. Left(Other(p), ToRead(p), k)
    BY <1>1 DEF AtBody
  <2> HIDE DEF k
  <2>2. Rest(wire'[Other(p)], out'[Other(p)], ToRead(p), k + n)
    BY <1>2, <1>4, <1>5, <2>1, LeftTaken, Read DEF Left
  <2>3. k + n = Lines(p) + len'[p]
    <3>1. Lines(p) \in Nat
      BY Read
    <3> QED BY <1>3, <1>4, <1>5, <3>1 DEF k
  <2>4. Rest(wire'[Other(p)], out'[Other(p)], ToRead(p), Lines(p) + len'[p])
    BY <2>2, <2>3
  <2> QED BY <2>4 DEF Left
<1>7. len'[p] \in 0..BodyLength(p)
  BY <1>0, <1>4, <1>5
<1>8. AtBody(p)'
  BY <1>1, <1>5, <1>6, <1>7 DEF AtBody
<1> QED BY <1>1, <1>5, <1>8 DEF Hearing

LEMMA ReadNothingHearing ==
  ASSUME TypeOK, NEW p \in Peers, Hearing(p), calm', ReadNothing(p) \/ ReadError(p),
         closed[Other(p)] => out[Other(p)] = <<>>
  PROVE  FALSE
<1>1. AtBody(p) /\ line[p] = ToRead(p)[1] /\ Wants(p)
  BY DEF Hearing, AtHeaders, HasRead, ReadNothing, ReadError
<1>2. NoByte(p)
  BY DEF ReadNothing, ReadError, Trouble
<1>3. Lines(p) + len[p] < Len(ToRead(p))
  BY <1>1, Read DEF Wants, AtBody, ContentLength
<1> DEFINE k == Lines(p) + len[p]
<1>4. Left(Other(p), ToRead(p), k)
  BY <1>1 DEF AtBody
<1> HIDE DEF k
<1>5. k < Len(ToRead(p))
  BY <1>3 DEF k
<1>6. In(p) = <<>> /\ out[Other(p)] = <<>>
  BY <1>2, CalmRead
<1> QED BY <1>4, <1>5, <1>6, LeftThere, Read

LEMMA EndOfBodyHearing ==
  ASSUME TypeOK, NEW p \in Peers, Hearing(p), EndOfBody(p)
  PROVE  Hearing(p)'
<1>1. AtBody(p) /\ line[p] = ToRead(p)[1] /\ ~Wants(p)
  BY DEF Hearing, AtHeaders, HasRead, EndOfBody
<1>2. len[p] = BodyLength(p)
  <2>1. MaxTries > 0
    BY ValueAssumption
  <2> QED BY <1>1, <2>1, Read DEF Wants, AtBody, ContentLength
<1>3. Left(Other(p), ToRead(p), Len(ToRead(p)))
  <2>1. Lines(p) + len[p] = Len(ToRead(p))
    BY <1>1, <1>2, Read
  <2> QED BY <1>1, <2>1 DEF AtBody
<1>4. UNCHANGED <<out, wire, line, headers, len, stored>>
  BY DEF EndOfBody, reading
<1>5. pc'[p] = IF p = "server" THEN "decide" ELSE "leave"
  BY DEF EndOfBody, Goto, TypeOK
<1>6. HasRead(p)'
  BY <1>1, <1>2, <1>3, <1>4, <1>5 DEF HasRead, AtBody, Left, Peers
<1> QED BY <1>1, <1>4, <1>6 DEF Hearing

LEMMA ReadingHearing ==
  ASSUME TypeOK, NEW p \in Peers, Hearing(p), calm', Reading(p),
         closed[Other(p)] => out[Other(p)] = <<>>
  PROVE  Hearing(p)'
BY ReadHeaderHearing, EndOfHeadersHearing, CutHeadersHearing, ReadBodyHearing,
   ReadNothingHearing, EndOfBodyHearing DEF Reading

LEMMA FirstLineHearing ==
  ASSUME TypeOK, NEW p \in Peers, ReadFirstLine(p), Left(Other(p), ToRead(p), 0)
  PROVE  Hearing(p)'
<1>1. Head(In(p)) = ToRead(p)[1] /\ 1 <= Len(In(p))
  <2>1. Head(In(p)) = ToRead(p)[0 + 1] /\ 1 <= Len(In(p))
    BY LeftHead, Read DEF ReadFirstLine
  <2> QED BY <2>1
<1>2. Left(Other(p), ToRead(p), 1)'
  <2>1. Left(Other(p), ToRead(p), 0 + 1)'
    BY <1>1, LeftTaken, Read DEF ReadFirstLine
  <2> QED BY <2>1
<1>3. StartMessage(p, ToRead(p)[1]) /\ Goto(p, "headers")
  BY <1>1, Read DEF ReadFirstLine
<1>4. /\ line'[p] = ToRead(p)[1] /\ len'[p] = 0 /\ stored'[p] = 0 /\ tries'[p] = 0
      /\ pc'[p] = "headers" /\ ~HasLength(p)'
  BY <1>3 DEF StartMessage, Goto, TypeOK, HasLength
<1>5. 1 \in 1..(Lines(p) - 1) /\ 1 # Lines(p) - 1
  BY Read
<1>6. AtHeaders(p)'
  <2>1. ~(1 > 1)
    OBVIOUS
  <2> QED BY <1>2, <1>4, <1>5, <2>1 DEF AtHeaders
<1> QED BY <1>4, <1>6 DEF Hearing

-----------------------------------------------------------------------------
(* The other side, and the invariant.                                      *)

LEMMA InitCalm == Init => CalmInv
<1> SUFFICES ASSUME Init PROVE CalmInv
  OBVIOUS
<1>1. /\ pc["client"] = "connect" /\ pc["server"] = "line" /\ executed = 0
      /\ Quiet("client") /\ Quiet("server") /\ \A p \in Peers : ~closed[p]
  BY DEF Init, Peers, Quiet
<1> QED BY <1>1 DEF CalmInv, ClientWalk, ServerWalk, ClosedDone

\* Steps of p leave alone what the other side does and has read, and what p has written.
Aside(p) ==
  /\ SameReader(Other(p)) /\ wire'[p] = wire[p]
  /\ UNCHANGED <<out, closed, whole, executed>>

LEMMA TakeAside ==
  ASSUME TypeOK, NEW p \in Peers, NEW n, Take(p, n)
  PROVE  wire'[p] = wire[p]
BY DEF TypeOK, Take, Other, Peers

LEMMA GotoAside ==
  ASSUME TypeOK, NEW p \in Peers, NEW l, Goto(p, l)
  PROVE  pc'[Other(p)] = pc[Other(p)] /\ pc'[p] = l
BY DEF TypeOK, Goto, Other, Peers

LEMMA StartAside ==
  ASSUME TypeOK, NEW p \in Peers, NEW l, StartMessage(p, l)
  PROVE  /\ line'[Other(p)] = line[Other(p)] /\ headers'[Other(p)] = headers[Other(p)]
         /\ len'[Other(p)] = len[Other(p)] /\ stored'[Other(p)] = stored[Other(p)]
         /\ tries'[Other(p)] = tries[Other(p)]
BY DEF TypeOK, StartMessage, Other, Peers

LEMMA CalmCut ==
  ASSUME NEW p \in Peers, calm', CutLine(p)
  PROVE  UNCHANGED wire
BY DEF CutLine, Trouble

LEMMA FirstLineAside ==
  ASSUME TypeOK, NEW p \in Peers, ReadFirstLine(p)
  PROVE  Aside(p)
<1>1. \E l : StartMessage(p, l)
  BY DEF ReadFirstLine
<1> QED BY <1>1, TakeAside, GotoAside, StartAside DEF ReadFirstLine, Aside, SameReader

LEMMA ReadingAside ==
  ASSUME TypeOK, NEW p \in Peers, calm', Reading(p)
  PROVE  Aside(p)
<1>0. Other(p) \in Peers /\ Other(p) # p
  BY DEF Other, Peers
<1>1. CASE ReadHeader(p)
  <2>1. headers'[Other(p)] = headers[Other(p)]
    BY <1>0, <1>1 DEF ReadHeader, TypeOK
  <2> QED BY <1>1, <2>1, TakeAside DEF ReadHeader, Aside, SameReader
<1>2. CASE EndOfHeaders(p)
  BY <1>2, TakeAside, GotoAside DEF EndOfHeaders, AfterHeaders, Aside, SameReader, reading
<1>3. CASE CutHeaders(p)
  BY <1>3, CalmCut, GotoAside DEF CutHeaders, AfterHeaders, Aside, SameReader, reading
<1>4. CASE ReadBody(p)
  <2>1. PICK n : /\ Take(p, n)
                 /\ len' = [len EXCEPT ![p] = @ + n] /\ stored' = [stored EXCEPT ![p] = @ + n]
    BY <1>4 DEF ReadBody
  <2>2. len'[Other(p)] = len[Other(p)] /\ stored'[Other(p)] = stored[Other(p)]
    BY <1>0, <2>1 DEF TypeOK
  <2> QED BY <1>4, <2>1, <2>2, TakeAside DEF ReadBody, Aside, SameReader
<1>5. CASE ReadNothing(p)
  <2>1. tries'[Other(p)] = tries[Other(p)]
    BY <1>0, <1>5 DEF ReadNothing, TypeOK
  <2> QED BY <1>5, <2>1 DEF ReadNothing, Aside, SameReader
<1>6. CASE ReadError(p)
  BY <1>6 DEF ReadError, Trouble
<1>7. CASE EndOfBody(p)
  BY <1>7, GotoAside DEF EndOfBody, Aside, SameReader, reading
<1> QED BY <1>1, <1>2, <1>3, <1>4, <1>5, <1>6, <1>7 DEF Reading

\* Where a side that has read the first line may be.
LEMMA ClientPlace ==
  ASSUME Hearing("client")
  PROVE  pc["client"] \in {"headers", "body", "leave", "done"}
BY DEF Hearing, AtHeaders, AtBody, HasRead

LEMMA ServerPlace ==
  ASSUME Hearing("server")
  PROVE  pc["server"] \in {"headers", "body", "decide"}
BY DEF Hearing, AtHeaders, AtBody, HasRead

LEMMA AnswerRead ==
  ASSUME TypeOK, Hearing("client"), pc["client"] \in {"leave", "done"}
  PROVE  /\ line["client"] = "ok" /\ len["client"] = ResponseBody
         /\ stored["client"] = ResponseBody /\ Quiet("server")
<1>1. HasRead("client") /\ line["client"] = ToRead("client")[1]
  BY DEF Hearing, AtHeaders, AtBody
<1>2. ToRead("client") = Success /\ Other("client") = "server" /\ Success \in Seq(Tokens)
      /\ Success[1] = "ok" /\ BodyLength("client") = ResponseBody
  BY MessageTokens DEF ToRead, Other, BodyLength
<1> QED BY <1>1, <1>2, Nothing DEF HasRead, Peers

LEMMA RequestRead ==
  ASSUME TypeOK, Hearing("server"), pc["server"] = "decide"
  PROVE  /\ line["server"] = "request" /\ "host" \in headers["server"]
         /\ len["server"] = RequestBody /\ stored["server"] = RequestBody /\ Quiet("client")
<1>1. HasRead("server") /\ line["server"] = ToRead("server")[1]
  BY DEF Hearing, AtHeaders, AtBody
<1>2. ToRead("server") = Request /\ Other("server") = "client" /\ Request \in Seq(Tokens)
      /\ Request[1] = "request" /\ BodyLength("server") = RequestBody
  BY MessageTokens DEF ToRead, Other, BodyLength
<1> QED BY <1>1, <1>2, Nothing DEF HasRead, Peers

\* A side that has closed has nothing to write, and has heard the whole message.
LEMMA ClosedQuiet ==
  ASSUME TypeOK, CalmInv, calm, NEW p \in Peers, closed[p]
  PROVE  out[p] = <<>> /\ executed = 1 /\ (p = "client" => Hearing("client"))
<1>1. pc[p] = "done" /\ ClientWalk /\ ServerWalk
  BY DEF CalmInv, ClosedDone
<1>2. CASE p = "client"
  <2>1. executed = 1 /\ Hearing("client")
    BY <1>1, <1>2 DEF ClientWalk
  <2>2. Quiet("client")
    BY <1>1, <2>1 DEF ServerWalk
  <2> QED BY <1>2, <2>1, <2>2 DEF Quiet
<1>3. CASE p = "server"
  BY <1>1, <1>3, ServerPlace DEF ServerWalk
<1> QED BY <1>2, <1>3 DEF Peers

\* Once the request is executed, the steps of the client do not concern the server.
LEMMA ServerAnswers ==
  ASSUME ServerWalk, executed = 1, SameReader("server"), wire'["client"] = wire["client"],
         UNCHANGED <<out, whole, executed>>
  PROVE  ServerWalk'
BY DEF ServerWalk, SameReader, Quiet

\* Until then, those of the server do not concern the client.
LEMMA ClientWaits ==
  ASSUME ClientWalk, executed = 0, pc["client"] # "connect", SameReader("client"),
         wire'["server"] = wire["server"], UNCHANGED <<out, executed>>
  PROVE  ClientWalk'
BY DEF ClientWalk, SameReader, Quiet

Walks == ClientWalk /\ ServerWalk /\ ClosedDone

LEMMA ConnectCalm == ASSUME IInv, Walks, Connect PROVE Walks'
<1>0. TypeOK /\ "client" \in Peers /\ "server" \in Peers
  BY DEF IInv, Peers
<1>1. /\ pc["client"] = "connect" /\ pc'["client"] = "write" /\ pc'["server"] = pc["server"]
      /\ out'["client"] = Request /\ out'["server"] = out["server"]
      /\ UNCHANGED <<wire, closed, executed>>
  BY <1>0 DEF Connect, Goto, TypeOK
<1>2. pc["server"] = "line" /\ executed = 0 /\ Quiet("client") /\ Quiet("server")
  BY <1>1, ClientPlace DEF Walks, ClientWalk
<1>3. Rest(<<>>, Request, Request, 0)
  <2>1. Len(<<>>) = 0 /\ Len(Request) \in Nat
    BY MessageTokens
  <2> QED BY <2>1 DEF Rest
<1>4. Left("client", Request, 0)'
  BY <1>1, <1>2, <1>3 DEF Left, Quiet
<1>5. ClientWalk' /\ ServerWalk'
  BY <1>1, <1>2, <1>4 DEF ClientWalk, ServerWalk, Quiet
<1>6. ClosedDone'
  BY <1>1 DEF Walks, ClosedDone, Peers
<1> QED BY <1>5, <1>6 DEF Walks

LEMMA WriteCalm == ASSUME IInv, Walks, calm, NEW p \in Peers, Write(p) PROVE Walks'
<1>0. TypeOK /\ "client" \in Peers /\ "server" \in Peers /\ CalmInv
  BY DEF IInv, Peers, Walks, CalmInv
<1>1. /\ pc[p] = "write" /\ out[p] # <<>>
      /\ UNCHANGED <<pc, closed, line, headers, len, stored, tries, whole, executed>>
      /\ out'[Other(p)] = out[Other(p)] /\ wire'[Other(p)] = wire[Other(p)]
  <2>1. Other(p) # p /\ Other(p) \in Peers
    BY DEF Other, Peers
  <2> QED BY <1>0, <2>1 DEF Write, Send, reading, TypeOK
<1>2. ClosedDone'
  BY <1>1 DEF Walks, ClosedDone
<1>3. \A q \in Peers : SameReader(q)
  BY <1>1 DEF SameReader
<1>4. ~closed[Other(p)]
  <2> SUFFICES ASSUME closed[Other(p)] PROVE FALSE
    OBVIOUS
  <2>1. executed = 1 /\ (Other(p) = "client" => Hearing("client") /\ pc["client"] = "done")
    BY <1>0, ClosedQuiet, OtherPeer DEF Walks, ClosedDone
  <2>2. CASE p = "client"
    BY <2>1, <2>2, <1>1, <1>0, ServerPlace DEF Walks, ServerWalk, Quiet
  <2>3. CASE p = "server"
    <3>1. Quiet("server")
      BY <2>1, <2>3, <1>0, AnswerRead DEF Other
    <3> QED BY <2>3, <3>1, <1>1 DEF Quiet
  <2> QED BY <2>2, <2>3 DEF Peers
<1>5. CASE p = "client"
  <2>1. Other(p) = "server" /\ pc["client"] = "write"
    BY <1>1, <1>5 DEF Other
  <2>2. ClientWalk'
    BY <1>1, <2>1, ClientPlace DEF Walks, ClientWalk, Quiet, Left
  <2>3. executed # 1
    BY <1>1, <1>5, ServerPlace DEF Walks, ServerWalk, Quiet
  <2>4. \A k : Left("client", Request, k) => Left("client", Request, k)'
    BY <1>0, <1>4, <1>5, LeftWritten, MessageTokens
  <2>5. Hearing("server") => Hearing("server")'
    BY <1>0, <1>3, <2>4, HearingKept DEF Other, ToRead
  <2>6. Left("client", Request, 0) => Left("client", Request, 0)'
    BY <2>4
  <2>7. ServerWalk'
    BY <1>1, <2>1, <2>3, <2>5, <2>6 DEF Walks, ServerWalk
  <2> QED BY <1>2, <2>2, <2>7 DEF Walks
<1>6. CASE p = "server"
  <2>1. Other(p) = "client" /\ pc["server"] = "write"
    BY <1>1, <1>6 DEF Other
  <2>2. executed = 1 /\ whole /\ Quiet("client")
    BY <2>1, ServerPlace DEF Walks, ServerWalk
  <2>3. ServerWalk'
    BY <1>1, <2>1, <2>2 DEF ServerWalk, Quiet
  <2>4. \A k : Left("server", Success, k) => Left("server", Success, k)'
    BY <1>0, <1>4, <1>6, LeftWritten, MessageTokens
  <2>5. Hearing("client") => Hearing("client")'
    BY <1>0, <1>3, <2>4, HearingKept DEF Other, ToRead
  <2>6. Left("server", Success, 0) => Left("server", Success, 0)'
    BY <2>4
  <2>7. ClientWalk'
    BY <1>1, <2>2, <2>5, <2>6 DEF Walks, ClientWalk
  <2> QED BY <1>2, <2>3, <2>7 DEF Walks
<1> QED BY <1>5, <1>6 DEF Peers

LEMMA WrittenCalm == ASSUME IInv, Walks, NEW p \in Peers, Written(p) PROVE Walks'
<1>0. TypeOK /\ "client" \in Peers /\ "server" \in Peers
  BY DEF IInv, Peers
<1>1. /\ pc[p] = "write" /\ out[p] = <<>> /\ SameReader(Other(p))
      /\ UNCHANGED <<wire, out, closed, whole, executed>>
      /\ pc'[p] \in {"line", "leave"} /\ (p = "client" => pc'[p] = "line")
  BY <1>0, GotoAside, StartAside DEF Written, Forget, SameReader
<1>2. ClosedDone'
  BY <1>1 DEF Walks, ClosedDone, Peers, Other, SameReader
<1>3. CASE p = "client"
  <2>1. Other(p) = "server" /\ pc["client"] = "write" /\ pc'["client"] = "line"
        /\ SameReader("server")
    BY <1>1, <1>3 DEF Other
  <2>2. ClientWalk'
    BY <1>1, <2>1, ClientPlace DEF Walks, ClientWalk, Quiet, Left
  <2>3. Hearing("server") => Hearing("server")'
    BY <1>0, <1>1, <2>1, HearingStays
  <2>4. Left("client", Request, 0) => Left("client", Request, 0)'
    BY <1>1 DEF Left
  <2>5. pc'["server"] = pc["server"]
    BY <2>1 DEF SameReader
  <2>6. ServerWalk'
    BY <1>1, <2>1, <2>3, <2>4, <2>5 DEF Walks, ServerWalk, Quiet
  <2> QED BY <1>2, <2>2, <2>6 DEF Walks
<1>4. CASE p = "server"
  <2>1. Other(p) = "client" /\ pc["server"] = "write" /\ SameReader("client")
    BY <1>1, <1>4 DEF Other
  <2>2. executed = 1 /\ whole /\ Quiet("client")
    BY <2>1, ServerPlace DEF Walks, ServerWalk
  <2>3. ServerWalk'
    BY <1>1, <1>4, <2>2 DEF ServerWalk, Quiet
  <2>4. Hearing("client") => Hearing("client")'
    BY <1>0, <1>1, <2>1, HearingStays
  <2>5. Left("server", Success, 0) => Left("server", Success, 0)'
    BY <1>1 DEF Left
  <2>6. pc'["client"] = pc["client"]
    BY <2>1 DEF SameReader
  <2>7. ClientWalk'
    BY <1>1, <2>1, <2>2, <2>4, <2>5, <2>6 DEF Walks, ClientWalk
  <2> QED BY <1>2, <2>3, <2>7 DEF Walks
<1> QED BY <1>3, <1>4 DEF Peers

LEMMA FirstLineCalm == ASSUME IInv, Walks, NEW p \in Peers, ReadFirstLine(p) PROVE Walks'
<1>0. TypeOK /\ "client" \in Peers /\ "server" \in Peers /\ executed \in {0, 1}
  BY DEF IInv, OnePlace, Peers
<1>1. pc[p] = "line" /\ In(p) # <<>> /\ Aside(p) /\ SameReader(Other(p))
  BY <1>0, FirstLineAside DEF ReadFirstLine, Aside
<1>2. ClosedDone'
  BY <1>1 DEF Walks, ClosedDone, Peers, Other, SameReader, Aside
<1>3. CASE p = "client"
  <2>1. Other(p) = "server" /\ pc["client"] = "line" /\ ToRead(p) = Success
    BY <1>1, <1>3 DEF Other, ToRead
  <2>2. executed = 1 /\ Left("server", Success, 0)
    BY <1>0, <1>1, <2>1, ClientPlace DEF Walks, ClientWalk, Quiet, In
  <2>3. Hearing("client")'
    BY <1>0, <1>3, <2>1, <2>2, FirstLineHearing
  <2>4. ClientWalk' /\ ServerWalk'
    BY <1>1, <1>3, <2>1, <2>2, <2>3, ServerAnswers DEF Walks, ClientWalk, Aside
  <2> QED BY <1>2, <2>4 DEF Walks
<1>4. CASE p = "server"
  <2>1. Other(p) = "client" /\ pc["server"] = "line" /\ ToRead(p) = Request
    BY <1>1, <1>4 DEF Other, ToRead
  <2>2. executed = 0 /\ pc["client"] # "connect" /\ Left("client", Request, 0)
    BY <1>1, <2>1, ClientPlace, ServerPlace DEF Walks, ClientWalk, ServerWalk, Quiet, In
  <2>3. Hearing("server")'
    BY <1>0, <1>4, <2>1, <2>2, FirstLineHearing
  <2>4. ClientWalk'
    BY <1>1, <1>4, <2>1, <2>2, ClientWaits DEF Walks, Aside
  <2>5. ServerWalk'
    BY <1>1, <2>1, <2>2, <2>3 DEF ServerWalk, Aside, SameReader
  <2> QED BY <1>2, <2>4, <2>5 DEF Walks
<1> QED BY <1>3, <1>4 DEF Peers

LEMMA ReadingCalm ==
  ASSUME IInv, Walks, calm, calm', NEW p \in Peers, Reading(p) PROVE Walks'
<1>0. TypeOK /\ "client" \in Peers /\ "server" \in Peers /\ CalmInv
  BY DEF IInv, Peers, Walks, CalmInv
<1>1. pc[p] \in {"headers", "body"} /\ Aside(p) /\ SameReader(Other(p))
  BY <1>0, ReadingAside DEF Aside, Reading, ReadHeader, EndOfHeaders, CutHeaders, ReadBody,
     ReadNothing, ReadError, EndOfBody
<1>2. ClosedDone'
  BY <1>1 DEF Walks, ClosedDone, Peers, Other, SameReader, Aside
<1>3. closed[Other(p)] => out[Other(p)] = <<>>
  BY <1>0, ClosedQuiet, OtherPeer
<1>4. CASE p = "client"
  <2>1. executed = 1 /\ Hearing("client")
    BY <1>1, <1>4 DEF Walks, ClientWalk
  <2>2. Hearing("client")'
    BY <1>0, <1>3, <1>4, <2>1, ReadingHearing
  <2>3. ClientWalk' /\ ServerWalk'
    BY <1>1, <1>4, <2>1, <2>2, ServerAnswers DEF Walks, ClientWalk, Aside, Other
  <2> QED BY <1>2, <2>3 DEF Walks
<1>5. CASE p = "server"
  <2>1. executed = 0 /\ pc["client"] # "connect" /\ Hearing("server")
    BY <1>1, <1>5 DEF Walks, ServerWalk
  <2>2. Hearing("server")'
    BY <1>0, <1>3, <1>5, <2>1, ReadingHearing
  <2>3. ClientWalk'
    BY <1>1, <1>5, <2>1, ClientWaits DEF Walks, Aside, Other
  <2>4. ServerWalk'
    BY <1>1, <1>5, <2>1, <2>2 DEF ServerWalk, Aside, SameReader, Other
  <2> QED BY <1>2, <2>3, <2>4 DEF Walks
<1> QED BY <1>4, <1>5 DEF Peers

LEMMA NoFirstLineCalm ==
  ASSUME IInv, Walks, calm, calm', NEW p \in Peers, NoFirstLine(p) PROVE Walks'
<1>0. TypeOK /\ "client" \in Peers /\ "server" \in Peers /\ CalmInv
  BY DEF IInv, Peers, Walks, CalmInv
<1>1. /\ pc[p] = "line" /\ CutLine(p) /\ pc'[p] = "leave" /\ SameReader(Other(p))
      /\ UNCHANGED <<wire, out, closed, whole, executed>>
  BY <1>0, GotoAside, CalmCut DEF NoFirstLine, reading, SameReader
<1>2. In(p) = <<>> /\ closed[Other(p)]
  BY <1>1, CalmRead
<1>3. out[Other(p)] = <<>> /\ executed = 1 /\ (Other(p) = "client" => Hearing("client"))
  BY <1>0, <1>2, ClosedQuiet, OtherPeer
<1>4. ClosedDone'
  BY <1>1 DEF Walks, ClosedDone, Peers, Other, SameReader
<1>5. CASE p = "client"
  <2>1. Left("server", Success, 0)
    BY <1>1, <1>3, <1>5, ClientPlace DEF Walks, ClientWalk
  <2>2. 0 < Len(Success)
    BY MessageTokens, Numbers
  <2>3. Left(Other(p), ToRead(p), 0) /\ 0 < Len(ToRead(p))
    BY <1>5, <2>1, <2>2 DEF Other, ToRead
  <2> QED BY <1>0, <1>1, <1>3, <2>3, NotEarly
<1>6. CASE p = "server"
  <2>1. whole /\ Quiet("client") /\ out["server"] = <<>>
    BY <1>1, <1>3, <1>6 DEF Walks, ServerWalk
  <2>2. ServerWalk'
    BY <1>1, <1>3, <1>6, <2>1 DEF ServerWalk, Quiet
  <2>3. Hearing("client")'
    BY <1>0, <1>1, <1>3, <1>6, HearingStays DEF Other
  <2>4. ClientWalk'
    BY <1>1, <1>3, <2>3 DEF ClientWalk
  <2> QED BY <1>4, <2>2, <2>4 DEF Walks
<1> QED BY <1>5, <1>6 DEF Peers

LEMMA ExecuteCalm == ASSUME IInv, Walks, Execute PROVE Walks'
<1>0. TypeOK /\ "client" \in Peers /\ "server" \in Peers
  BY DEF IInv, Peers
<1>1. /\ pc["server"] = "decide" /\ executed' = executed + 1
      /\ pc'["server"] = "write" /\ pc'["client"] = pc["client"]
      /\ out'["server"] = Success /\ out'["client"] = out["client"]
      /\ UNCHANGED <<wire, closed>>
      /\ whole' = (len["server"] = RequestBody /\ stored["server"] = RequestBody)
  BY <1>0 DEF Execute, Goto, TypeOK
<1>2. executed = 0 /\ pc["client"] # "connect" /\ Hearing("server")
  BY <1>1 DEF Walks, ServerWalk
<1>3. whole' /\ Quiet("client")
  BY <1>0, <1>1, <1>2, RequestRead
<1>4. Quiet("server") /\ pc["client"] \in {"write", "line"}
  BY <1>2 DEF Walks, ClientWalk
<1>5. Rest(<<>>, Success, Success, 0)
  <2>1. Len(<<>>) = 0 /\ Len(Success) \in Nat
    BY MessageTokens
  <2> QED BY <2>1 DEF Rest
<1>6. Left("server", Success, 0)'
  BY <1>1, <1>4, <1>5 DEF Left, Quiet
<1>7. executed' = 1
  BY <1>1, <1>2
<1>8. ClientWalk' /\ ServerWalk'
  BY <1>1, <1>3, <1>4, <1>6, <1>7 DEF ClientWalk, ServerWalk, Quiet
<1>9. ClosedDone'
  BY <1>1 DEF Walks, ClosedDone, Peers
<1> QED BY <1>8, <1>9 DEF Walks

LEMMA LeaveCalm == ASSUME IInv, Walks, calm, NEW p \in Peers, Leave(p) PROVE Walks'
<1>0. /\ TypeOK /\ "client" \in Peers /\ "server" \in Peers /\ CalmInv
      /\ Other(p) \in Peers /\ Other(p) # p
  BY DEF IInv, Peers, Walks, CalmInv, Other
<1>1. /\ pc[p] = "leave" /\ pc'[p] = "done" /\ pc'[Other(p)] = pc[Other(p)]
      /\ closed' = [closed EXCEPT ![p] = TRUE] /\ closed'[Other(p)] = closed[Other(p)]
      /\ wire' = [wire EXCEPT ![Other(p)] = <<>>] /\ wire'[p] = wire[p]
      /\ UNCHANGED <<out, whole, executed>>
  BY <1>0, GotoAside DEF Leave, TypeOK
<1>2. ClosedDone'
  BY <1>0, <1>1 DEF Walks, ClosedDone, Peers, Other
<1>3. CASE p = "client"
  <2>1. executed = 1 /\ Hearing("client") /\ Other(p) = "server"
    BY <1>1, <1>3 DEF Walks, ClientWalk, Other
  <2>2. Quiet("server")
    BY <1>0, <1>1, <1>3, <2>1, AnswerRead
  <2>3. wire'["server"] = wire["server"] /\ UNCHANGED reading
    BY <1>0, <1>1, <1>3, <2>1, <2>2 DEF Leave, Quiet, TypeOK
  <2>4. HasRead("client")'
    BY <1>1, <1>3, <2>1, <2>3
       DEF Hearing, AtHeaders, AtBody, HasRead, Left, reading
  <2>5. ClientWalk'
    BY <1>1, <2>1, <2>3, <2>4 DEF ClientWalk, Hearing, reading
  <2>6. ServerWalk'
    BY <1>1, <1>3, <2>1, <2>3, ServerAnswers DEF Walks, SameReader, reading
  <2> QED BY <1>2, <2>5, <2>6 DEF Walks
<1>4. CASE p = "server"
  <2>1. /\ executed = 1 /\ whole /\ Quiet("client") /\ out["server"] = <<>>
        /\ Other(p) = "client"
    BY <1>1, <1>4, ServerPlace DEF Walks, ServerWalk, Other
  <2>2. wire'["client"] = <<>> /\ wire'["server"] = wire["server"]
    BY <1>0, <1>1, <1>4, <2>1 DEF TypeOK
  <2>3. SameReader("client")
    BY <1>0, <1>1, <1>4, <2>1, StartAside DEF Leave, Forget, SameReader
  <2>4. ServerWalk'
    BY <1>1, <1>4, <2>1, <2>2 DEF ServerWalk, Quiet
  <2>5. Hearing("client") => Hearing("client")'
    BY <1>0, <1>1, <2>2, <2>3, HearingStays DEF Other
  <2>6. Left("server", Success, 0) => Left("server", Success, 0)'
    BY <1>1, <2>2 DEF Left
  <2>7. pc'["client"] = pc["client"]
    BY <2>3 DEF SameReader
  <2>8. ClientWalk'
    BY <1>1, <1>4, <2>1, <2>5, <2>6, <2>7 DEF Walks, ClientWalk
  <2> QED BY <1>2, <2>4, <2>8 DEF Walks
<1> QED BY <1>3, <1>4 DEF Peers

\* What the server refuses or skips does not come from a client whose writes succeed.
LEMMA NoJunk ==
  ASSUME IInv, Walks, SkipLine \/ ReadNoRequest \/ Refuse PROVE FALSE
<1>0. TypeOK /\ "client" \in Peers /\ "server" \in Peers
  BY DEF IInv, Peers
<1>1. CASE Refuse
  <2>1. Hearing("server") /\ pc["server"] = "decide"
    BY <1>1 DEF Walks, ServerWalk, Refuse
  <2> QED BY <1>0, <1>1, <2>1, RequestRead DEF Refuse
<1>2. CASE SkipLine \/ ReadNoRequest
  <2>1. /\ pc["server"] = "line" /\ In("server") # <<>> /\ In("server") = wire["client"]
        /\ Head(In("server")) # "request"
    BY <1>2 DEF SkipLine, ReadNoRequest, In, Other, FirstLines
  <2>2. Left("client", Request, 0)
    BY <2>1, ClientPlace, ServerPlace DEF Walks, ClientWalk, ServerWalk, Quiet
  <2>3. Head(In("server")) = Request[0 + 1]
    BY <1>0, <2>1, <2>2, LeftHead, MessageTokens DEF Other
  <2> QED BY <2>1, <2>3, MessageTokens
<1> QED BY <1>1, <1>2

LEMMA NextCalm == ASSUME IInv, CalmInv, [Next]_vars PROVE CalmInv'
<1>0. "client" \in Peers /\ "server" \in Peers
  BY DEF Peers
<1> SUFFICES ASSUME calm' PROVE Walks'
  BY DEF CalmInv, Walks
<1>1. CASE \E p \in Peers : PeerNext(p)
  <2>1. PICK p \in Peers : PeerNext(p)
    BY <1>1
  <2>2. calm /\ ~WriteFails(p)
    BY <2>1 DEF PeerNext, Write, WriteFails, Written, ReadFirstLine, NoFirstLine, ReadHeader,
       EndOfHeaders, CutHeaders, ReadBody, ReadNothing, ReadError, EndOfBody, Leave, history,
       Trouble, CutLine, NoByte
  <2>3. Walks
    BY <2>2 DEF CalmInv, Walks
  <2> QED BY <2>1, <2>2, <2>3, WriteCalm, WrittenCalm, FirstLineCalm, NoFirstLineCalm,
             ReadingCalm, LeaveCalm DEF PeerNext, Reading
<1>2. CASE Connect \/ Execute
  <2>1. calm
    BY <1>2 DEF Connect, Execute, history
  <2>2. Walks
    BY <2>1 DEF CalmInv, Walks
  <2> QED BY <1>2, <2>2, ConnectCalm, ExecuteCalm
<1>3. CASE ConnectFails
  BY <1>3 DEF ConnectFails, Trouble
<1>4. CASE SkipLine \/ ReadNoRequest \/ Refuse
  <2>1. calm
    BY <1>4 DEF SkipLine, ReadNoRequest, Refuse, history
  <2>2. Walks
    BY <2>1 DEF CalmInv, Walks
  <2> QED BY <1>4, <2>2, NoJunk
<1>5. CASE Drain
  <2>1. calm /\ pc["client"] = "drain"
    BY <1>5 DEF Drain, history, NoByte, Trouble
  <2>2. ClientWalk
    BY <2>1 DEF CalmInv
  <2> QED BY <2>1, <2>2, ClientPlace DEF ClientWalk
<1>6. CASE UNCHANGED vars
  <2>1. UNCHANGED <<pc, out, wire, closed, line, headers, len, stored, tries, whole,
                    executed, calm>>
    BY <1>6 DEF vars, reading, history
  <2>2. Walks
    BY <2>1 DEF CalmInv, Walks
  <2>3. (Hearing("client") => Hearing("client")') /\ (Hearing("server") => Hearing("server")')
    BY <1>0, <2>1, HearingStays DEF SameReader
  <2>4. /\ Left("client", Request, 0) => Left("client", Request, 0)'
        /\ Left("server", Success, 0) => Left("server", Success, 0)'
    BY <2>1 DEF Left
  <2>5. ClientWalk'
    BY <2>1, <2>2, <2>3, <2>4 DEF Walks, ClientWalk, Quiet
  <2>6. ServerWalk' /\ ClosedDone'
    BY <2>1, <2>2, <2>3, <2>4 DEF Walks, ServerWalk, ClosedDone, Quiet
  <2> QED BY <2>5, <2>6 DEF Walks
<1> QED BY <1>0, <1>1, <1>2, <1>3, <1>4, <1>5, <1>6 DEF Next, ClientNext, ServerNext

\* As long as no read and no write has timed out or failed, both sides agree where a
\* message ends, for bodies of any length: the listener is given the whole request, and
\* the client reads the whole answer (cg_http_request_read, cg_http_response_read,
\* cg_http_packet_read).
THEOREM WholeWhenCalm == Spec => []CalmIsWhole
<1>1. IInv /\ CalmInv => CalmIsWhole
  <2> SUFFICES ASSUME IInv, CalmInv, calm, Done("client")
               PROVE  /\ executed = 1 /\ whole
                      /\ line["client"] = "ok" /\ len["client"] = ResponseBody
                      /\ stored["client"] = ResponseBody
    BY DEF CalmIsWhole
  <2>1. TypeOK /\ ClientWalk /\ ServerWalk /\ pc["client"] = "done"
    BY DEF IInv, CalmInv, Done
  <2>2. executed = 1 /\ Hearing("client")
    BY <2>1 DEF ClientWalk
  <2>3. whole
    BY <2>1, <2>2 DEF ServerWalk
  <2> QED BY <2>1, <2>2, <2>3, AnswerRead
<1>2. IInv /\ CalmInv /\ [Next]_vars => CalmInv'
  BY NextCalm
<1> QED BY <1>1, <1>2, InitCalm, Invariance, PTL DEF Spec

=============================================================================
