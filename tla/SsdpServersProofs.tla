-------------------------- MODULE SsdpServersProofs --------------------------
(***************************************************************************)
(* Proofs about SsdpServers, for any number of interfaces, any searches    *)
(* and any filter interval.                                                *)
(*                                                                         *)
(* The argument: the application frees nothing a thread uses before it     *)
(* stops (ServeInv); in a quiet stop no thread leaves its receive until    *)
(* its socket is closed, and then it ends (QuietInv with FreedInv, which   *)
(* says that no socket of a freed server is open); and the filter's        *)
(* timestamp is never older than the last search let through (FilterInv).  *)
(***************************************************************************)
EXTENDS SsdpServers, TLAPS

\* What is not opened yet is untouched.
OpenInv ==
  app = "open" => \A i \in Servers :
    /\ pc[i] = "none"
    /\ i >= next => sock[i] = "none" /\ server[i] = "live"

\* A freed server has no open socket, and after the walk that closes them none has.
FreedInv ==
  /\ \A i \in Servers : server[i] = "freed" => sock[i] # "open"
  /\ app = "close" => \A i \in Servers : i < next => sock[i] # "open"
  /\ app \in {"delete", "deleted"} => \A i \in Servers : sock[i] # "open"

\* Until the stop begins all that a thread uses is there.
ServeInv ==
  app \in {"open", "start", "serving"} =>
    /\ ~fault /\ ~quiet
    /\ \A i \in Servers :
         /\ obj[i] # "freed" /\ sock[i] # "closed"
         /\ pc[i] # "none" => server[i] = "live"

\* In a quiet stop all threads wait or have ended.
QuietInv ==
  quiet => ~fault /\ \A i \in Servers : pc[i] \in {"none", "wait", "end"}

FilterInv ==
  /\ now >= 1
  /\ \A i \in Servers, s \in Searches : passed[i][s] <= last[i][s] /\ last[i][s] <= now

IInv == TypeOK /\ OpenInv /\ FreedInv /\ ServeInv /\ QuietInv /\ FilterInv

LEMMA Sizes == N \in Nat \ {0} /\ Interval \in Nat \ {0} /\ Other \notin Searches
BY ServerAssumption

LEMMA InitIInv == Init => IInv
<1> SUFFICES ASSUME Init PROVE IInv
  OBVIOUS
<1>a. last \in [Servers -> [Searches -> Nat]] /\ passed \in [Servers -> [Searches -> Nat]]
  BY DEF Init
<1>b. server \in [Servers -> {"live", "freed"}] /\ sock \in [Servers -> {"none", "open", "closed"}]
  BY DEF Init
<1>c. obj \in [Servers -> {"none", "live", "freed"}] /\ flag \in [Servers -> BOOLEAN]
  BY DEF Init
<1>d. pc \in [Servers -> {"none", "begin", "top", "recv", "wait", "got", "listener",
                        "delay", "end"}]
  BY DEF Init
<1>e. next \in Servers /\ now \in Nat /\ pkt \in [Servers -> Packets]
  BY Sizes DEF Init, Servers, Packets
<1>1. TypeOK
  BY <1>a, <1>b, <1>c, <1>d, <1>e DEF Init, TypeOK
<1>2. OpenInv /\ FreedInv /\ ServeInv /\ QuietInv /\ FilterInv
  BY Sizes DEF Init, OpenInv, FreedInv, ServeInv, QuietInv, FilterInv, Servers
<1> QED BY <1>1, <1>2 DEF IInv

LEMMA OpenIInv ==
  ASSUME IInv, ~fault, Open
  PROVE  IInv'
<1>0. TypeOK /\ OpenInv /\ FreedInv /\ ServeInv /\ QuietInv /\ FilterInv
  BY DEF IInv
<1>1. TypeOK'
  BY <1>0, Sizes DEF Open, Advance, AppRest, Listed, TypeOK, Packets, Servers, walk,
     objects, filter
<1>2. OpenInv'
  BY <1>0, Sizes DEF Open, Advance, AppRest, Listed, OpenInv, TypeOK, Servers, walk,
     objects, filter
<1>3. FreedInv'
  BY <1>0, Sizes DEF Open, Advance, AppRest, Listed, FreedInv, OpenInv, TypeOK, Servers,
     walk, objects, filter
<1>4. ServeInv'
  BY <1>0, Sizes DEF Open, Advance, AppRest, Listed, ServeInv, OpenInv, TypeOK, Servers,
     walk, objects, filter
<1>5. QuietInv'
  BY <1>0, Sizes DEF Open, Advance, AppRest, Listed, QuietInv, ServeInv, FreedInv,
     TypeOK, Servers, walk, objects, filter
<1>6. FilterInv'
  BY <1>0, Sizes DEF Open, Advance, AppRest, Listed, FilterInv, TypeOK, Servers, walk,
     objects, filter
<1> QED BY <1>1, <1>2, <1>3, <1>4, <1>5, <1>6 DEF IInv

LEMMA OpenFailsIInv ==
  ASSUME IInv, ~fault, OpenFails
  PROVE  IInv'
<1>0. TypeOK /\ OpenInv /\ FreedInv /\ ServeInv /\ QuietInv /\ FilterInv
  BY DEF IInv
<1>1. TypeOK'
  BY <1>0, Sizes DEF OpenFails, Advance, AppRest, Listed, TypeOK, Packets, Servers, walk,
     objects, filter
<1>2. OpenInv'
  BY <1>0, Sizes DEF OpenFails, Advance, AppRest, Listed, OpenInv, TypeOK, Servers, walk,
     objects, filter
<1>3. FreedInv'
  BY <1>0, Sizes DEF OpenFails, Advance, AppRest, Listed, FreedInv, OpenInv, TypeOK,
     Servers, walk, objects, filter
<1>4. ServeInv'
  BY <1>0, Sizes DEF OpenFails, Advance, AppRest, Listed, ServeInv, OpenInv, TypeOK,
     Servers, walk, objects, filter
<1>5. QuietInv'
  BY <1>0, Sizes DEF OpenFails, Advance, AppRest, Listed, QuietInv, ServeInv, FreedInv,
     TypeOK, Servers, walk, objects, filter
<1>6. FilterInv'
  BY <1>0, Sizes DEF OpenFails, Advance, AppRest, Listed, FilterInv, TypeOK, Servers,
     walk, objects, filter
<1> QED BY <1>1, <1>2, <1>3, <1>4, <1>5, <1>6 DEF IInv

LEMMA StartIInv ==
  ASSUME IInv, ~fault, Start
  PROVE  IInv'
<1>0. TypeOK /\ OpenInv /\ FreedInv /\ ServeInv /\ QuietInv /\ FilterInv
  BY DEF IInv
<1>1. TypeOK'
  <2>1. next \in Nat /\ next' \in Servers /\ app' \in {"start", "serving"}
    BY <1>0, Sizes DEF Start, Advance, TypeOK, Servers
  <2>2. obj' \in [Servers -> {"none", "live", "freed"}] /\ flag' \in [Servers -> BOOLEAN]
    BY <1>0 DEF Start, TypeOK
  <2>3. pc' \in [Servers -> {"none", "begin", "top", "recv", "wait", "got", "listener",
                           "delay", "end"}]
    BY <1>0 DEF Start, TypeOK
  <2> QED BY <1>0, <2>1, <2>2, <2>3 DEF Start, TypeOK, filter
<1>2. OpenInv'
  BY <1>0, Sizes DEF Start, Advance, AppRest, Listed, OpenInv, TypeOK, Servers, walk,
     objects, filter
<1>3. FreedInv'
  BY <1>0, Sizes DEF Start, Advance, AppRest, Listed, FreedInv, OpenInv, TypeOK, Servers,
     walk, objects, filter
<1>4. ServeInv'
  BY <1>0, Sizes DEF Start, Advance, AppRest, Listed, ServeInv, OpenInv, TypeOK, Servers,
     walk, objects, filter
<1>5. QuietInv'
  BY <1>0, Sizes DEF Start, Advance, AppRest, Listed, QuietInv, ServeInv, FreedInv,
     TypeOK, Servers, walk, objects, filter
<1>6. FilterInv'
  BY <1>0, Sizes DEF Start, Advance, AppRest, Listed, FilterInv, TypeOK, Servers, walk,
     objects, filter
<1> QED BY <1>1, <1>2, <1>3, <1>4, <1>5, <1>6 DEF IInv

LEMMA StartFailsIInv ==
  ASSUME IInv, ~fault, StartFails
  PROVE  IInv'
<1>0. TypeOK /\ OpenInv /\ FreedInv /\ ServeInv /\ QuietInv /\ FilterInv
  BY DEF IInv
<1>1. TypeOK'
  BY <1>0, Sizes DEF StartFails, Advance, AppRest, Listed, TypeOK, Packets, Servers,
     walk, objects, filter
<1>2. OpenInv'
  BY <1>0, Sizes DEF StartFails, Advance, AppRest, Listed, OpenInv, TypeOK, Servers,
     walk, objects, filter
<1>3. FreedInv'
  BY <1>0, Sizes DEF StartFails, Advance, AppRest, Listed, FreedInv, OpenInv, TypeOK,
     Servers, walk, objects, filter
<1>4. ServeInv'
  BY <1>0, Sizes DEF StartFails, Advance, AppRest, Listed, ServeInv, OpenInv, TypeOK,
     Servers, walk, objects, filter
<1>5. QuietInv'
  BY <1>0, Sizes DEF StartFails, Advance, AppRest, Listed, QuietInv, ServeInv, FreedInv,
     TypeOK, Servers, walk, objects, filter
<1>6. FilterInv'
  BY <1>0, Sizes DEF StartFails, Advance, AppRest, Listed, FilterInv, TypeOK, Servers,
     walk, objects, filter
<1> QED BY <1>1, <1>2, <1>3, <1>4, <1>5, <1>6 DEF IInv

LEMMA SkipIInv ==
  ASSUME IInv, ~fault, Skip
  PROVE  IInv'
<1>0. TypeOK /\ OpenInv /\ FreedInv /\ ServeInv /\ QuietInv /\ FilterInv
  BY DEF IInv
<1>1. TypeOK'
  BY <1>0, Sizes DEF Skip, Advance, AppRest, Listed, TypeOK, Packets, Servers, walk,
     objects, filter
<1>2. OpenInv'
  BY <1>0, Sizes DEF Skip, Advance, AppRest, Listed, OpenInv, TypeOK, Servers, walk,
     objects, filter
<1>3. FreedInv'
  <2>1. server[next] = "freed" /\ UNCHANGED objects /\ next \in Nat
    BY <1>0 DEF Skip, Listed, TypeOK, Servers
  <2>2. sock[next] # "open"
    BY <1>0, <2>1 DEF FreedInv, TypeOK
  <2>3. CASE app # "close"
    BY <1>0, <2>1, <2>3, Sizes DEF Skip, Advance, FreedInv, TypeOK, Servers, objects
  <2>4. CASE app = "close" /\ next < N
    <3>1. app' = "close" /\ next' = next + 1
      BY <2>4 DEF Skip, Advance
    <3>2. \A i \in Servers : i < next' => sock[i] # "open"
      BY <1>0, <2>1, <2>2, <2>4, <3>1 DEF FreedInv, Servers
    <3> QED BY <1>0, <2>1, <3>1, <3>2 DEF FreedInv, objects
  <2>5. CASE app = "close" /\ ~(next < N)
    <3>1. app' = "delete" /\ next' = 1
      BY <2>5 DEF Skip, Advance
    <3>2. next = N
      BY <1>0, <2>5, Sizes DEF TypeOK, Servers
    <3>3. \A i \in Servers : sock[i] # "open"
      BY <1>0, <2>2, <2>5, <3>2, Sizes DEF FreedInv, Servers
    <3> QED BY <1>0, <2>1, <3>1, <3>3 DEF FreedInv, objects
  <2> QED BY <2>3, <2>4, <2>5
<1>4. ServeInv'
  BY <1>0, Sizes DEF Skip, Advance, AppRest, Listed, ServeInv, OpenInv, TypeOK, Servers,
     walk, objects, filter
<1>5. QuietInv'
  BY <1>0, Sizes DEF Skip, Advance, AppRest, Listed, QuietInv, ServeInv, FreedInv,
     TypeOK, Servers, walk, objects, filter
<1>6. FilterInv'
  BY <1>0, Sizes DEF Skip, Advance, AppRest, Listed, FilterInv, TypeOK, Servers, walk,
     objects, filter
<1> QED BY <1>1, <1>2, <1>3, <1>4, <1>5, <1>6 DEF IInv

LEMMA BeginStopIInv ==
  ASSUME IInv, ~fault, BeginStop
  PROVE  IInv'
<1>0. TypeOK /\ OpenInv /\ FreedInv /\ ServeInv /\ QuietInv /\ FilterInv
  BY DEF IInv
<1>1. TypeOK'
  BY <1>0, Sizes DEF BeginStop, Advance, AppRest, Listed, TypeOK, Packets, Servers, walk,
     objects, filter
<1>2. OpenInv'
  BY <1>0, Sizes DEF BeginStop, Advance, AppRest, Listed, OpenInv, TypeOK, Servers, walk,
     objects, filter
<1>3. FreedInv'
  BY <1>0, Sizes DEF BeginStop, Advance, AppRest, Listed, FreedInv, OpenInv, TypeOK,
     Servers, walk, objects, filter
<1>4. ServeInv'
  BY <1>0, Sizes DEF BeginStop, Advance, AppRest, Listed, ServeInv, OpenInv, TypeOK,
     Servers, walk, objects, filter
<1>5. QuietInv'
  BY <1>0, Sizes DEF BeginStop, Advance, AppRest, Listed, QuietInv, ServeInv, FreedInv,
     TypeOK, Servers, walk, objects, filter
<1>6. FilterInv'
  BY <1>0, Sizes DEF BeginStop, Advance, AppRest, Listed, FilterInv, TypeOK, Servers,
     walk, objects, filter
<1> QED BY <1>1, <1>2, <1>3, <1>4, <1>5, <1>6 DEF IInv

LEMMA StopIInv ==
  ASSUME IInv, ~fault, Stop
  PROVE  IInv'
<1>0. TypeOK /\ OpenInv /\ FreedInv /\ ServeInv /\ QuietInv /\ FilterInv
  BY DEF IInv
<1>1. TypeOK'
  BY <1>0, Sizes DEF Stop, Advance, AppRest, Listed, TypeOK, Packets, Servers, walk,
     objects, filter
<1>2. OpenInv'
  BY <1>0, Sizes DEF Stop, Advance, AppRest, Listed, OpenInv, TypeOK, Servers, walk,
     objects, filter
<1>3. FreedInv'
  BY <1>0, Sizes DEF Stop, Advance, AppRest, Listed, FreedInv, OpenInv, TypeOK, Servers,
     walk, objects, filter
<1>4. ServeInv'
  BY <1>0, Sizes DEF Stop, Advance, AppRest, Listed, ServeInv, OpenInv, TypeOK, Servers,
     walk, objects, filter
<1>5. QuietInv'
  BY <1>0, Sizes DEF Stop, Advance, AppRest, Listed, QuietInv, ServeInv, FreedInv,
     TypeOK, Servers, walk, objects, filter
<1>6. FilterInv'
  BY <1>0, Sizes DEF Stop, Advance, AppRest, Listed, FilterInv, TypeOK, Servers, walk,
     objects, filter
<1> QED BY <1>1, <1>2, <1>3, <1>4, <1>5, <1>6 DEF IInv

LEMMA StopNothingIInv ==
  ASSUME IInv, ~fault, StopNothing
  PROVE  IInv'
<1>0. TypeOK /\ OpenInv /\ FreedInv /\ ServeInv /\ QuietInv /\ FilterInv
  BY DEF IInv
<1>1. TypeOK'
  BY <1>0, Sizes DEF StopNothing, Advance, AppRest, Listed, TypeOK, Packets, Servers,
     walk, objects, filter
<1>2. OpenInv'
  BY <1>0, Sizes DEF StopNothing, Advance, AppRest, Listed, OpenInv, TypeOK, Servers,
     walk, objects, filter
<1>3. FreedInv'
  BY <1>0, Sizes DEF StopNothing, Advance, AppRest, Listed, FreedInv, OpenInv, TypeOK,
     Servers, walk, objects, filter
<1>4. ServeInv'
  BY <1>0, Sizes DEF StopNothing, Advance, AppRest, Listed, ServeInv, OpenInv, TypeOK,
     Servers, walk, objects, filter
<1>5. QuietInv'
  BY <1>0, Sizes DEF StopNothing, Advance, AppRest, Listed, QuietInv, ServeInv, FreedInv,
     TypeOK, Servers, walk, objects, filter
<1>6. FilterInv'
  BY <1>0, Sizes DEF StopNothing, Advance, AppRest, Listed, FilterInv, TypeOK, Servers,
     walk, objects, filter
<1> QED BY <1>1, <1>2, <1>3, <1>4, <1>5, <1>6 DEF IInv

LEMMA FreeThreadIInv ==
  ASSUME IInv, ~fault, FreeThread
  PROVE  IInv'
<1>0. TypeOK /\ OpenInv /\ FreedInv /\ ServeInv /\ QuietInv /\ FilterInv
  BY DEF IInv
<1>1. TypeOK'
  BY <1>0, Sizes DEF FreeThread, Advance, AppRest, Listed, TypeOK, Packets, Servers,
     walk, objects, filter
<1>2. OpenInv'
  BY <1>0, Sizes DEF FreeThread, Advance, AppRest, Listed, OpenInv, TypeOK, Servers,
     walk, objects, filter
<1>3. FreedInv'
  BY <1>0, Sizes DEF FreeThread, Advance, AppRest, Listed, FreedInv, OpenInv, TypeOK,
     Servers, walk, objects, filter
<1>4. ServeInv'
  BY <1>0, Sizes DEF FreeThread, Advance, AppRest, Listed, ServeInv, OpenInv, TypeOK,
     Servers, walk, objects, filter
<1>5. QuietInv'
  BY <1>0, Sizes DEF FreeThread, Advance, AppRest, Listed, QuietInv, ServeInv, FreedInv,
     TypeOK, Servers, walk, objects, filter
<1>6. FilterInv'
  BY <1>0, Sizes DEF FreeThread, Advance, AppRest, Listed, FilterInv, TypeOK, Servers,
     walk, objects, filter
<1> QED BY <1>1, <1>2, <1>3, <1>4, <1>5, <1>6 DEF IInv

LEMMA CloseIInv ==
  ASSUME IInv, ~fault, Close
  PROVE  IInv'
<1>0. TypeOK /\ OpenInv /\ FreedInv /\ ServeInv /\ QuietInv /\ FilterInv
  BY DEF IInv
<1>1. TypeOK'
  BY <1>0, Sizes DEF Close, Advance, AppRest, Listed, TypeOK, Packets, Servers, walk,
     objects, filter
<1>2. OpenInv'
  BY <1>0, Sizes DEF Close, Advance, AppRest, Listed, OpenInv, TypeOK, Servers, walk,
     objects, filter
<1>3. FreedInv'
  BY <1>0, Sizes DEF Close, Advance, AppRest, Listed, FreedInv, OpenInv, TypeOK, Servers,
     walk, objects, filter
<1>4. ServeInv'
  BY <1>0, Sizes DEF Close, Advance, AppRest, Listed, ServeInv, OpenInv, TypeOK, Servers,
     walk, objects, filter
<1>5. QuietInv'
  BY <1>0, Sizes DEF Close, Advance, AppRest, Listed, QuietInv, ServeInv, FreedInv,
     TypeOK, Servers, walk, objects, filter
<1>6. FilterInv'
  BY <1>0, Sizes DEF Close, Advance, AppRest, Listed, FilterInv, TypeOK, Servers, walk,
     objects, filter
<1> QED BY <1>1, <1>2, <1>3, <1>4, <1>5, <1>6 DEF IInv

LEMMA DeleteIInv ==
  ASSUME IInv, ~fault, Delete
  PROVE  IInv'
<1>0. TypeOK /\ OpenInv /\ FreedInv /\ ServeInv /\ QuietInv /\ FilterInv
  BY DEF IInv
<1>1. TypeOK'
  BY <1>0, Sizes DEF Delete, Advance, AppRest, Listed, TypeOK, Packets, Servers, walk,
     objects, filter
<1>2. OpenInv'
  BY <1>0, Sizes DEF Delete, Advance, AppRest, Listed, OpenInv, TypeOK, Servers, walk,
     objects, filter
<1>3. FreedInv'
  BY <1>0, Sizes DEF Delete, Advance, AppRest, Listed, FreedInv, OpenInv, TypeOK,
     Servers, walk, objects, filter
<1>4. ServeInv'
  BY <1>0, Sizes DEF Delete, Advance, AppRest, Listed, ServeInv, OpenInv, TypeOK,
     Servers, walk, objects, filter
<1>5. QuietInv'
  BY <1>0, Sizes DEF Delete, Advance, AppRest, Listed, QuietInv, ServeInv, FreedInv,
     TypeOK, Servers, walk, objects, filter
<1>6. FilterInv'
  BY <1>0, Sizes DEF Delete, Advance, AppRest, Listed, FilterInv, TypeOK, Servers, walk,
     objects, filter
<1> QED BY <1>1, <1>2, <1>3, <1>4, <1>5, <1>6 DEF IInv

LEMMA BeginIInv ==
  ASSUME IInv, ~fault, NEW i \in Servers, Begin(i)
  PROVE  IInv'
<1>0. TypeOK /\ OpenInv /\ FreedInv /\ ServeInv /\ QuietInv /\ FilterInv
  BY DEF IInv
<1>1. TypeOK'
  BY <1>0, Sizes DEF Begin, Step, Goto, Fault, TypeOK, Packets, Servers, walk, objects,
     filter
<1>2. OpenInv'
  BY <1>0, Sizes DEF Begin, Step, Goto, Fault, OpenInv, TypeOK, Servers, walk, objects,
     filter
<1>3. FreedInv'
  BY <1>0, Sizes DEF Begin, Step, Goto, Fault, FreedInv, OpenInv, TypeOK, Servers, walk,
     objects, filter
<1>4. ServeInv'
  BY <1>0, Sizes DEF Begin, Step, Goto, Fault, ServeInv, OpenInv, TypeOK, Servers, walk,
     objects, filter
<1>5. QuietInv'
  BY <1>0, Sizes DEF Begin, Step, Goto, Fault, QuietInv, ServeInv, FreedInv, TypeOK,
     Servers, walk, objects, filter
<1>6. FilterInv'
  BY <1>0, Sizes DEF Begin, Step, Goto, Fault, FilterInv, TypeOK, Servers, walk, objects,
     filter
<1> QED BY <1>1, <1>2, <1>3, <1>4, <1>5, <1>6 DEF IInv

LEMMA TopIInv ==
  ASSUME IInv, ~fault, NEW i \in Servers, Top(i)
  PROVE  IInv'
<1>0. TypeOK /\ OpenInv /\ FreedInv /\ ServeInv /\ QuietInv /\ FilterInv
  BY DEF IInv
<1>1. TypeOK'
  BY <1>0, Sizes DEF Top, Step, Goto, Fault, TypeOK, Packets, Servers, walk, objects,
     filter
<1>2. OpenInv'
  BY <1>0, Sizes DEF Top, Step, Goto, Fault, OpenInv, TypeOK, Servers, walk, objects,
     filter
<1>3. FreedInv'
  BY <1>0, Sizes DEF Top, Step, Goto, Fault, FreedInv, OpenInv, TypeOK, Servers, walk,
     objects, filter
<1>4. ServeInv'
  BY <1>0, Sizes DEF Top, Step, Goto, Fault, ServeInv, OpenInv, TypeOK, Servers, walk,
     objects, filter
<1>5. QuietInv'
  BY <1>0, Sizes DEF Top, Step, Goto, Fault, QuietInv, ServeInv, FreedInv, TypeOK,
     Servers, walk, objects, filter
<1>6. FilterInv'
  BY <1>0, Sizes DEF Top, Step, Goto, Fault, FilterInv, TypeOK, Servers, walk, objects,
     filter
<1> QED BY <1>1, <1>2, <1>3, <1>4, <1>5, <1>6 DEF IInv

LEMMA CallIInv ==
  ASSUME IInv, ~fault, NEW i \in Servers, Call(i)
  PROVE  IInv'
<1>0. TypeOK /\ OpenInv /\ FreedInv /\ ServeInv /\ QuietInv /\ FilterInv
  BY DEF IInv
<1>1. TypeOK'
  BY <1>0, Sizes DEF Call, Step, Goto, Fault, TypeOK, Packets, Servers, walk, objects,
     filter
<1>2. OpenInv'
  BY <1>0, Sizes DEF Call, Step, Goto, Fault, OpenInv, TypeOK, Servers, walk, objects,
     filter
<1>3. FreedInv'
  BY <1>0, Sizes DEF Call, Step, Goto, Fault, FreedInv, OpenInv, TypeOK, Servers, walk,
     objects, filter
<1>4. ServeInv'
  BY <1>0, Sizes DEF Call, Step, Goto, Fault, ServeInv, OpenInv, TypeOK, Servers, walk,
     objects, filter
<1>5. QuietInv'
  BY <1>0, Sizes DEF Call, Step, Goto, Fault, QuietInv, ServeInv, FreedInv, TypeOK,
     Servers, walk, objects, filter
<1>6. FilterInv'
  BY <1>0, Sizes DEF Call, Step, Goto, Fault, FilterInv, TypeOK, Servers, walk, objects,
     filter
<1> QED BY <1>1, <1>2, <1>3, <1>4, <1>5, <1>6 DEF IInv

LEMMA ReceiveIInv ==
  ASSUME IInv, ~fault, NEW i \in Servers, Receive(i)
  PROVE  IInv'
<1>0. TypeOK /\ OpenInv /\ FreedInv /\ ServeInv /\ QuietInv /\ FilterInv
  BY DEF IInv
<1>1. TypeOK'
  BY <1>0, Sizes DEF Receive, Goto, TypeOK, Packets, Servers, walk, objects, filter
<1>2. OpenInv'
  BY <1>0, Sizes DEF Receive, Goto, OpenInv, TypeOK, Servers, walk, objects, filter
<1>3. FreedInv'
  BY <1>0, Sizes DEF Receive, Goto, FreedInv, OpenInv, TypeOK, Servers, walk, objects,
     filter
<1>4. ServeInv'
  BY <1>0, Sizes DEF Receive, Goto, ServeInv, OpenInv, TypeOK, Servers, walk, objects,
     filter
<1>5. QuietInv'
  BY <1>0, Sizes DEF Receive, Goto, QuietInv, ServeInv, FreedInv, TypeOK, Servers, walk,
     objects, filter
<1>6. FilterInv'
  BY <1>0, Sizes DEF Receive, Goto, FilterInv, TypeOK, Servers, walk, objects, filter
<1> QED BY <1>1, <1>2, <1>3, <1>4, <1>5, <1>6 DEF IInv

LEMMA ReceiveNothingIInv ==
  ASSUME IInv, ~fault, NEW i \in Servers, ReceiveNothing(i)
  PROVE  IInv'
<1>0. TypeOK /\ OpenInv /\ FreedInv /\ ServeInv /\ QuietInv /\ FilterInv
  BY DEF IInv
<1>1. TypeOK'
  BY <1>0, Sizes DEF ReceiveNothing, Step, Goto, TypeOK, Packets, Servers, walk, objects,
     filter
<1>2. OpenInv'
  BY <1>0, Sizes DEF ReceiveNothing, Step, Goto, OpenInv, TypeOK, Servers, walk, objects,
     filter
<1>3. FreedInv'
  BY <1>0, Sizes DEF ReceiveNothing, Step, Goto, FreedInv, OpenInv, TypeOK, Servers,
     walk, objects, filter
<1>4. ServeInv'
  BY <1>0, Sizes DEF ReceiveNothing, Step, Goto, ServeInv, OpenInv, TypeOK, Servers,
     walk, objects, filter
<1>5. QuietInv'
  BY <1>0, Sizes DEF ReceiveNothing, Step, Goto, QuietInv, ServeInv, FreedInv, TypeOK,
     Servers, walk, objects, filter
<1>6. FilterInv'
  BY <1>0, Sizes DEF ReceiveNothing, Step, Goto, FilterInv, TypeOK, Servers, walk,
     objects, filter
<1> QED BY <1>1, <1>2, <1>3, <1>4, <1>5, <1>6 DEF IInv

LEMMA HandIInv ==
  ASSUME IInv, ~fault, NEW i \in Servers, Hand(i)
  PROVE  IInv'
<1>0. TypeOK /\ OpenInv /\ FreedInv /\ ServeInv /\ QuietInv /\ FilterInv
  BY DEF IInv
<1>1. TypeOK'
  BY <1>0, Sizes DEF Hand, Step, Goto, Fault, TypeOK, Packets, Servers, walk, objects,
     filter
<1>2. OpenInv'
  BY <1>0, Sizes DEF Hand, Step, Goto, Fault, OpenInv, TypeOK, Servers, walk, objects,
     filter
<1>3. FreedInv'
  BY <1>0, Sizes DEF Hand, Step, Goto, Fault, FreedInv, OpenInv, TypeOK, Servers, walk,
     objects, filter
<1>4. ServeInv'
  BY <1>0, Sizes DEF Hand, Step, Goto, Fault, ServeInv, OpenInv, TypeOK, Servers, walk,
     objects, filter
<1>5. QuietInv'
  BY <1>0, Sizes DEF Hand, Step, Goto, Fault, QuietInv, ServeInv, FreedInv, TypeOK,
     Servers, walk, objects, filter
<1>6. FilterInv'
  BY <1>0, Sizes DEF Hand, Step, Goto, Fault, FilterInv, TypeOK, Servers, walk, objects,
     filter
<1> QED BY <1>1, <1>2, <1>3, <1>4, <1>5, <1>6 DEF IInv

LEMMA IgnoreIInv ==
  ASSUME IInv, ~fault, NEW i \in Servers, Ignore(i)
  PROVE  IInv'
<1>0. TypeOK /\ OpenInv /\ FreedInv /\ ServeInv /\ QuietInv /\ FilterInv
  BY DEF IInv
<1>1. TypeOK'
  BY <1>0, Sizes DEF Ignore, Step, Goto, TypeOK, Packets, Servers, walk, objects, filter
<1>2. OpenInv'
  BY <1>0, Sizes DEF Ignore, Step, Goto, OpenInv, TypeOK, Servers, walk, objects, filter
<1>3. FreedInv'
  BY <1>0, Sizes DEF Ignore, Step, Goto, FreedInv, OpenInv, TypeOK, Servers, walk,
     objects, filter
<1>4. ServeInv'
  BY <1>0, Sizes DEF Ignore, Step, Goto, ServeInv, OpenInv, TypeOK, Servers, walk,
     objects, filter
<1>5. QuietInv'
  BY <1>0, Sizes DEF Ignore, Step, Goto, QuietInv, ServeInv, FreedInv, TypeOK, Servers,
     walk, objects, filter
<1>6. FilterInv'
  BY <1>0, Sizes DEF Ignore, Step, Goto, FilterInv, TypeOK, Servers, walk, objects, filter
<1> QED BY <1>1, <1>2, <1>3, <1>4, <1>5, <1>6 DEF IInv

LEMMA DropIInv ==
  ASSUME IInv, ~fault, NEW i \in Servers, Drop(i)
  PROVE  IInv'
<1>0. TypeOK /\ OpenInv /\ FreedInv /\ ServeInv /\ QuietInv /\ FilterInv
  BY DEF IInv
<1>1. TypeOK'
  BY <1>0, Sizes DEF Drop, Goto, Stamp, TypeOK, Packets, Servers, walk, objects, filter
<1>2. OpenInv'
  BY <1>0, Sizes DEF Drop, Goto, Stamp, OpenInv, TypeOK, Servers, walk, objects, filter
<1>3. FreedInv'
  BY <1>0, Sizes DEF Drop, Goto, Stamp, FreedInv, OpenInv, TypeOK, Servers, walk,
     objects, filter
<1>4. ServeInv'
  BY <1>0, Sizes DEF Drop, Goto, Stamp, ServeInv, OpenInv, TypeOK, Servers, walk,
     objects, filter
<1>5. QuietInv'
  BY <1>0, Sizes DEF Drop, Goto, Stamp, QuietInv, ServeInv, FreedInv, TypeOK, Servers,
     walk, objects, filter
<1>6. FilterInv'
  BY <1>0, Sizes DEF Drop, Goto, Stamp, FilterInv, TypeOK, Servers, walk, objects, filter
<1> QED BY <1>1, <1>2, <1>3, <1>4, <1>5, <1>6 DEF IInv

LEMMA PassIInv ==
  ASSUME IInv, ~fault, NEW i \in Servers, Pass(i)
  PROVE  IInv'
<1>0. TypeOK /\ OpenInv /\ FreedInv /\ ServeInv /\ QuietInv /\ FilterInv
  BY DEF IInv
<1>1. TypeOK'
  BY <1>0, Sizes DEF Pass, Goto, Stamp, TypeOK, Packets, Servers, walk, objects, filter
<1>2. OpenInv'
  BY <1>0, Sizes DEF Pass, Goto, Stamp, OpenInv, TypeOK, Servers, walk, objects, filter
<1>3. FreedInv'
  BY <1>0, Sizes DEF Pass, Goto, Stamp, FreedInv, OpenInv, TypeOK, Servers, walk,
     objects, filter
<1>4. ServeInv'
  BY <1>0, Sizes DEF Pass, Goto, Stamp, ServeInv, OpenInv, TypeOK, Servers, walk,
     objects, filter
<1>5. QuietInv'
  BY <1>0, Sizes DEF Pass, Goto, Stamp, QuietInv, ServeInv, FreedInv, TypeOK, Servers,
     walk, objects, filter
<1>6. FilterInv'
  BY <1>0, Sizes DEF Pass, Goto, Stamp, FilterInv, TypeOK, Servers, walk, objects, filter
<1> QED BY <1>1, <1>2, <1>3, <1>4, <1>5, <1>6 DEF IInv

LEMMA RespondIInv ==
  ASSUME IInv, ~fault, NEW i \in Servers, Respond(i)
  PROVE  IInv'
<1>0. TypeOK /\ OpenInv /\ FreedInv /\ ServeInv /\ QuietInv /\ FilterInv
  BY DEF IInv
<1>1. TypeOK'
  BY <1>0, Sizes DEF Respond, Step, Goto, TypeOK, Packets, Servers, walk, objects, filter
<1>2. OpenInv'
  BY <1>0, Sizes DEF Respond, Step, Goto, OpenInv, TypeOK, Servers, walk, objects, filter
<1>3. FreedInv'
  BY <1>0, Sizes DEF Respond, Step, Goto, FreedInv, OpenInv, TypeOK, Servers, walk,
     objects, filter
<1>4. ServeInv'
  BY <1>0, Sizes DEF Respond, Step, Goto, ServeInv, OpenInv, TypeOK, Servers, walk,
     objects, filter
<1>5. QuietInv'
  BY <1>0, Sizes DEF Respond, Step, Goto, QuietInv, ServeInv, FreedInv, TypeOK, Servers,
     walk, objects, filter
<1>6. FilterInv'
  BY <1>0, Sizes DEF Respond, Step, Goto, FilterInv, TypeOK, Servers, walk, objects,
     filter
<1> QED BY <1>1, <1>2, <1>3, <1>4, <1>5, <1>6 DEF IInv

LEMMA TickIInv ==
  ASSUME IInv, ~fault, Tick
  PROVE  IInv'
<1>0. TypeOK /\ OpenInv /\ FreedInv /\ ServeInv /\ QuietInv /\ FilterInv
  BY DEF IInv
<1>1. TypeOK'
  BY <1>0, Sizes DEF Tick, TypeOK, Packets, Servers, walk, objects, filter
<1>2. OpenInv'
  BY <1>0, Sizes DEF Tick, OpenInv, TypeOK, Servers, walk, objects, filter
<1>3. FreedInv'
  BY <1>0, Sizes DEF Tick, FreedInv, OpenInv, TypeOK, Servers, walk, objects, filter
<1>4. ServeInv'
  BY <1>0, Sizes DEF Tick, ServeInv, OpenInv, TypeOK, Servers, walk, objects, filter
<1>5. QuietInv'
  BY <1>0, Sizes DEF Tick, QuietInv, ServeInv, FreedInv, TypeOK, Servers, walk, objects,
     filter
<1>6. FilterInv'
  BY <1>0, Sizes DEF Tick, FilterInv, TypeOK, Servers, walk, objects, filter
<1> QED BY <1>1, <1>2, <1>3, <1>4, <1>5, <1>6 DEF IInv

LEMMA StutterIInv == IInv /\ UNCHANGED vars => IInv'
  BY DEF IInv, TypeOK, OpenInv, FreedInv, ServeInv, QuietInv, FilterInv, vars, walk, objects, filter

LEMMA NextIInv == IInv /\ [Next]_vars => IInv'
<1> SUFFICES ASSUME IInv, Next PROVE IInv'
  BY StutterIInv
<1>0. ~fault
  BY DEF Next
<1>1. CASE Open
  BY <1>0, <1>1, OpenIInv
<1>2. CASE OpenFails
  BY <1>0, <1>2, OpenFailsIInv
<1>3. CASE Start
  BY <1>0, <1>3, StartIInv
<1>4. CASE StartFails
  BY <1>0, <1>4, StartFailsIInv
<1>5. CASE Skip
  BY <1>0, <1>5, SkipIInv
<1>6. CASE BeginStop
  BY <1>0, <1>6, BeginStopIInv
<1>7. CASE Stop
  BY <1>0, <1>7, StopIInv
<1>8. CASE StopNothing
  BY <1>0, <1>8, StopNothingIInv
<1>9. CASE FreeThread
  BY <1>0, <1>9, FreeThreadIInv
<1>10. CASE Close
  BY <1>0, <1>10, CloseIInv
<1>11. CASE Delete
  BY <1>0, <1>11, DeleteIInv
<1>12. CASE Tick
  BY <1>0, <1>12, TickIInv
<1>13. ASSUME NEW i \in Servers, Begin(i) PROVE IInv'
  BY <1>0, <1>13, BeginIInv
<1>14. ASSUME NEW i \in Servers, Top(i) PROVE IInv'
  BY <1>0, <1>14, TopIInv
<1>15. ASSUME NEW i \in Servers, Call(i) PROVE IInv'
  BY <1>0, <1>15, CallIInv
<1>16. ASSUME NEW i \in Servers, Receive(i) PROVE IInv'
  BY <1>0, <1>16, ReceiveIInv
<1>17. ASSUME NEW i \in Servers, ReceiveNothing(i) PROVE IInv'
  BY <1>0, <1>17, ReceiveNothingIInv
<1>18. ASSUME NEW i \in Servers, Hand(i) PROVE IInv'
  BY <1>0, <1>18, HandIInv
<1>19. ASSUME NEW i \in Servers, Ignore(i) PROVE IInv'
  BY <1>0, <1>19, IgnoreIInv
<1>20. ASSUME NEW i \in Servers, Drop(i) PROVE IInv'
  BY <1>0, <1>20, DropIInv
<1>21. ASSUME NEW i \in Servers, Pass(i) PROVE IInv'
  BY <1>0, <1>21, PassIInv
<1>22. ASSUME NEW i \in Servers, Respond(i) PROVE IInv'
  BY <1>0, <1>22, RespondIInv
<1> QED
  BY <1>1, <1>2, <1>3, <1>4, <1>5, <1>6, <1>7, <1>8, <1>9, <1>10, <1>11, <1>12, <1>13,
     <1>14, <1>15, <1>16, <1>17, <1>18, <1>19, <1>20, <1>21, <1>22
  DEF Next, AppNext, ThreadNext

\* The inductive invariant holds in every state.
THEOREM Invariance == Spec => []IInv
<1>1. Init => IInv
  BY InitIInv
<1>2. IInv /\ [Next]_vars => IInv'
  BY NextIInv
<1> QED BY <1>1, <1>2, PTL DEF Spec

\* The state keeps its types.
THEOREM Types == Spec => []TypeOK
<1>1. IInv => TypeOK
  BY DEF IInv
<1> QED BY <1>1, Invariance, PTL

\* Freed memory is used only by a stop with a packet under way, for any number of
\* interfaces, whichever of them fail to open or to start.
THEOREM QuietSafety == Spec => []FaultOnlyInBusyStop
<1>1. IInv => FaultOnlyInBusyStop
  BY DEF IInv, ServeInv, QuietInv, FaultOnlyInBusyStop
<1> QED BY <1>1, Invariance, PTL

\* Two equal searches let through on an interface are an interval apart.
THEOREM FilterSafety == Spec => SearchesApart
<1> DEFINE Apart ==
      \A i \in Servers, s \in Searches :
        passed'[i][s] # passed[i][s] /\ passed[i][s] # 0 =>
          passed'[i][s] - passed[i][s] >= Interval
<1>1. IInv /\ [Next]_vars => [Apart]_vars
  <2> SUFFICES ASSUME IInv, Next, NEW i \in Servers, NEW s \in Searches,
                      passed'[i][s] # passed[i][s], passed[i][s] # 0
               PROVE  passed'[i][s] - passed[i][s] >= Interval
    BY DEF Apart
  <2>1. passed' # passed
    OBVIOUS
  <2>2. PICK j \in Servers : Pass(j)
    BY <2>1 DEF Next, AppNext, ThreadNext, Tick, AppRest, Step, Fault, filter,
      Open, OpenFails, Start, StartFails, Skip, BeginStop, Stop, StopNothing, FreeThread,
      Close, Delete, Begin, Top, Call, Receive, ReceiveNothing, Hand, Ignore, Drop, Respond
  <2>3. passed[i] \in [Searches -> Nat] /\ last[i] \in [Searches -> Nat] /\ now \in Nat
        /\ passed \in [Servers -> [Searches -> Nat]]
    BY DEF IInv, TypeOK
  <2>4. i = j /\ s = pkt[j] /\ passed'[i][s] = now
    BY <2>2, <2>3 DEF Pass
  <2>5. last[i][s] = 0 \/ now - last[i][s] >= Interval
    BY <2>2, <2>3, <2>4, Sizes DEF Pass, Duplicate
  <2>6. passed[i][s] <= last[i][s]
    BY DEF IInv, FilterInv
  <2> QED BY <2>3, <2>4, <2>5, <2>6, Sizes
<1> QED BY <1>1, Invariance, PTL DEF Spec, SearchesApart

=============================================================================
