--------------------------- MODULE EventingProofs ---------------------------
(***************************************************************************)
(* Proofs about Eventing: its types, that a correct sequence of events is  *)
(* never taken for a gap, that it implements EventFeed, and that the       *)
(* values are told to the listener in the order in which they were set,    *)
(* for every number of threads, subscriptions and events.                  *)
(***************************************************************************)
EXTENDS Eventing, TLAPS

-----------------------------------------------------------------------------
(* Type correctness.                                                       *)

LEMMA ThreadsAre ==
  /\ App \in Callers /\ Renewer \in Callers /\ App \notin Handlers /\ Renewer \notin Handlers
  /\ \A h \in Handlers : h \in Callers
  /\ \A t \in Callers : t \in Threads /\ t \notin Workers /\ t \notin Notifiers
  /\ \A t \in Callers : t = App \/ t = Renewer \/ t \in Handlers
  /\ \A w \in Workers : w \in Threads /\ w \notin Callers /\ w \notin Notifiers /\ w \notin Handlers
  /\ \A n \in Notifiers : n \in Threads /\ n \notin Callers /\ n \notin Workers /\ n \notin Handlers
  /\ \A t \in Threads : t # None
BY ThreadAssumption DEF Threads, Callers

LEMMA PcsAre ==
  /\ \A l \in CallerPcs : l \in HandlerPcs
  /\ \A l \in HandlerPcs : l = "wait" => l \in CallerPcs
  /\ {"call", "wait", "done", "idle"} \subseteq CallerPcs
BY DEF CallerPcs, HandlerPcs

\* A step that moves thread t alone, neither from nor to a wait for an answer.
LEMMA GotoMoves ==
  ASSUME ThreadType, NEW t \in Threads, NEW l, Goto(t, l), UNCHANGED peer,
         t \in {App, Renewer} => l \in CallerPcs,
         t \in Handlers => l \in HandlerPcs,
         t \in Workers => l \in WorkerPcs,
         t \in Notifiers => l \in NotifierPcs,
         pc[t] # "wait", l # "wait"
  PROVE  /\ ThreadType'
         /\ pc'[t] = l
         /\ \A x \in Threads : x # t => pc'[x] = pc[x]
<1>1. l \in HandlerPcs \cup WorkerPcs \cup NotifierPcs
  BY ThreadsAre, PcsAre DEF Threads, Callers
<1>2. PcType(pc')
  BY <1>1, ThreadsAre DEF Goto, ThreadType, PcType
<1> QED BY <1>2 DEF Goto, ThreadType, PcType

\* A worker answers its client.
LEMMA WorkerAnswers ==
  ASSUME ThreadType, NEW w \in Workers, NEW to \in WorkerPcs, Answer(w, to, "done")
  PROVE  /\ ThreadType'
         /\ pc'[w] = to /\ peer'[w] = None
         /\ \A t \in Callers : IF peer[t] = w THEN pc'[t] = "done" /\ peer'[t] = None
                                              ELSE pc'[t] = pc[t] /\ peer'[t] = peer[t]
         /\ \A x \in Workers \cup Notifiers : x # w => pc'[x] = pc[x] /\ peer'[x] = peer[x]
<1> USE ThreadsAre, PcsAre DEF ThreadType, PcType
<1>0. w # None /\ \A n \in Notifiers : peer[n] # w
  OBVIOUS
<1>1. /\ pc' = [x \in Threads |-> IF x = w THEN to ELSE IF peer[x] = w THEN "done" ELSE pc[x]]
      /\ peer' = [x \in Threads |-> IF peer[x] = w THEN None ELSE peer[x]]
  BY DEF Answer
<1>2. \A x \in Workers : peer[x] = None
  BY DEF WorkerPcs
<1>3. /\ pc'[w] = to /\ peer'[w] = None
      /\ \A t \in Callers : IF peer[t] = w THEN pc'[t] = "done" /\ peer'[t] = None
                                              ELSE pc'[t] = pc[t] /\ peer'[t] = peer[t]
      /\ \A x \in Workers \cup Notifiers : x # w => pc'[x] = pc[x] /\ peer'[x] = peer[x]
  BY <1>0, <1>1, <1>2
<1>4. PcType(pc')
  <2>1. \A x \in Threads : pc'[x] \in HandlerPcs \cup WorkerPcs \cup NotifierPcs
    BY <1>1
  <2>2. /\ \A t \in {App, Renewer} : pc'[t] \in CallerPcs
        /\ \A h \in Handlers : pc'[h] \in HandlerPcs
    BY <1>3
  <2>3. /\ \A x \in Workers : pc'[x] \in WorkerPcs
        /\ \A n \in Notifiers : pc'[n] \in NotifierPcs
    BY <1>3
  <2> QED BY <1>1, <2>1, <2>2, <2>3
<1>5. peer' \in [Threads -> Handlers \cup Workers \cup {None}]
  BY <1>1
<1>6. /\ \A t \in Callers : peer'[t] \in Workers \cup {None}
      /\ \A n \in Notifiers : peer'[n] \in Handlers \cup {None}
  BY <1>3
<1>7. \A x \in Threads : peer'[x] # None <=> pc'[x] = "wait"
  BY <1>3, <1>2 DEF Threads, WorkerPcs
<1> QED BY <1>3, <1>4, <1>5, <1>6, <1>7

\* A handler answers the notifier that waits for it.
LEMMA HandlerAnswers ==
  ASSUME ThreadType, NEW h \in Handlers, NEW to \in HandlerPcs, to # "wait", pc[h] # "wait",
         Answer(h, to, "notified")
  PROVE  /\ ThreadType'
         /\ pc'[h] = to /\ peer'[h] = None
         /\ \A n \in Notifiers : IF peer[n] = h THEN pc'[n] = "notified" /\ peer'[n] = None
                                               ELSE pc'[n] = pc[n] /\ peer'[n] = peer[n]
         /\ \A x \in Callers \cup Workers : x # h => pc'[x] = pc[x] /\ peer'[x] = peer[x]
<1> USE ThreadsAre, PcsAre DEF ThreadType, PcType
<1>0. /\ h # None
      /\ \A t \in Callers : peer[t] # h
      /\ \A x \in Workers : peer[x] # h
      /\ peer[h] = None
  BY DEF WorkerPcs
<1>1. /\ pc' = [x \in Threads |-> IF x = h THEN to ELSE IF peer[x] = h THEN "notified" ELSE pc[x]]
      /\ peer' = [x \in Threads |-> IF peer[x] = h THEN None ELSE peer[x]]
  BY DEF Answer
<1>3. /\ pc'[h] = to /\ peer'[h] = None
      /\ \A n \in Notifiers : IF peer[n] = h THEN pc'[n] = "notified" /\ peer'[n] = None
                                             ELSE pc'[n] = pc[n] /\ peer'[n] = peer[n]
      /\ \A x \in Callers \cup Workers : x # h => pc'[x] = pc[x] /\ peer'[x] = peer[x]
  BY <1>0, <1>1
<1>4. PcType(pc')
  <2>1. \A x \in Threads : pc'[x] \in HandlerPcs \cup WorkerPcs \cup NotifierPcs
    BY <1>1 DEF NotifierPcs
  <2>2. /\ \A t \in {App, Renewer} : pc'[t] \in CallerPcs
        /\ \A x \in Handlers : pc'[x] \in HandlerPcs
    BY <1>3
  <2>3. /\ \A x \in Workers : pc'[x] \in WorkerPcs
        /\ \A n \in Notifiers : pc'[n] \in NotifierPcs
    BY <1>3 DEF NotifierPcs
  <2> QED BY <1>1, <2>1, <2>2, <2>3
<1>5. peer' \in [Threads -> Handlers \cup Workers \cup {None}]
  BY <1>1
<1>6. /\ \A t \in Callers : peer'[t] \in Workers \cup {None}
      /\ \A n \in Notifiers : peer'[n] \in Handlers \cup {None}
  BY <1>3
<1>7. \A x \in Threads : peer'[x] # None <=> pc'[x] = "wait"
  BY <1>3 DEF Threads
<1> QED BY <1>3, <1>4, <1>5, <1>6, <1>7

\* A client sends a request to the server s, which goes to l.
LEMMA PostMoves ==
  ASSUME ThreadType, NEW t \in Callers \cup Notifiers, NEW s \in Workers \cup Handlers, NEW l,
         t \in Callers => s \in Workers /\ l \in WorkerPcs,
         t \in Notifiers => s \in Handlers /\ l \in HandlerPcs,
         l # "wait", pc[s] # "wait",
         pc' = [pc EXCEPT ![t] = "wait", ![s] = l],
         peer' = [peer EXCEPT ![t] = s]
  PROVE  /\ ThreadType'
         /\ t # s /\ pc'[t] = "wait" /\ pc'[s] = l /\ peer'[t] = s
         /\ \A x \in Threads : x # t => peer'[x] = peer[x]
         /\ \A x \in Threads : x # t /\ x # s => pc'[x] = pc[x]
<1> USE ThreadsAre, PcsAre DEF ThreadType
<1>1. t \in Threads /\ s \in Threads /\ t # s /\ s # None
  OBVIOUS
<1>2. l \in HandlerPcs \cup WorkerPcs \cup NotifierPcs
  OBVIOUS
<1>3. "wait" \in CallerPcs /\ "wait" \in HandlerPcs /\ "wait" \in NotifierPcs
  BY DEF CallerPcs, HandlerPcs, NotifierPcs
<1>4. PcType(pc')
  <2>1. pc' \in [Threads -> HandlerPcs \cup WorkerPcs \cup NotifierPcs]
    BY <1>1, <1>2, <1>3 DEF PcType
  <2>2. /\ \A x \in {App, Renewer} : pc'[x] \in CallerPcs
        /\ \A h \in Handlers : pc'[h] \in HandlerPcs
        /\ \A w \in Workers : pc'[w] \in WorkerPcs
        /\ \A n \in Notifiers : pc'[n] \in NotifierPcs
    BY <1>1, <1>3 DEF PcType
  <2> QED BY <2>1, <2>2 DEF PcType
<1>5. /\ pc'[t] = "wait" /\ pc'[s] = l /\ peer'[t] = s
      /\ \A x \in Threads : x # t => peer'[x] = peer[x]
      /\ \A x \in Threads : x # t /\ x # s => pc'[x] = pc[x]
  BY <1>1 DEF PcType
<1>6. /\ peer' \in [Threads -> Handlers \cup Workers \cup {None}]
      /\ \A x \in Callers : peer'[x] \in Workers \cup {None}
      /\ \A n \in Notifiers : peer'[n] \in Handlers \cup {None}
      /\ \A x \in Threads : peer'[x] # None <=> pc'[x] = "wait"
  BY <1>1, <1>5
<1> QED BY <1>1, <1>4, <1>5, <1>6

\* A client gives up waiting.
LEMMA GiveUpMoves ==
  ASSUME ThreadType, NEW t \in Callers \cup Notifiers, NEW l, l # "wait", Goto(t, l),
         t \in Callers => l \in CallerPcs, t \in Notifiers => l \in NotifierPcs,
         peer' = [peer EXCEPT ![t] = None]
  PROVE  /\ ThreadType'
         /\ pc'[t] = l /\ peer'[t] = None
         /\ \A x \in Threads : x # t => peer'[x] = peer[x] /\ pc'[x] = pc[x]
<1> USE ThreadsAre, PcsAre DEF ThreadType, Goto
<1>1. t \in Threads /\ l \in HandlerPcs \cup WorkerPcs \cup NotifierPcs
  OBVIOUS
<1>2. /\ pc'[t] = l /\ peer'[t] = None
      /\ \A x \in Threads : x # t => peer'[x] = peer[x] /\ pc'[x] = pc[x]
  BY <1>1 DEF PcType
<1>3. PcType(pc')
  <2>1. pc' \in [Threads -> HandlerPcs \cup WorkerPcs \cup NotifierPcs]
    BY <1>1 DEF PcType
  <2> QED BY <1>1, <1>2, <2>1 DEF PcType
<1>4. /\ peer' \in [Threads -> Handlers \cup Workers \cup {None}]
      /\ \A x \in Callers : peer'[x] \in Workers \cup {None}
      /\ \A n \in Notifiers : peer'[n] \in Handlers \cup {None}
      /\ \A x \in Threads : peer'[x] # None <=> pc'[x] = "wait"
  BY <1>1, <1>2
<1> QED BY <1>2, <1>3, <1>4

LEMMA InitType == Init => TypeOK
<1> SUFFICES ASSUME Init PROVE TypeOK
    OBVIOUS
<1> USE ThreadsAre, ValueAssumption DEF Init
<1>1. DeviceType /\ PointType
  BY DEF DeviceType, PointType, Sids
<1>2. ThreadType
  <2>1. PcType(pc)
    BY DEF PcType, CallerPcs, HandlerPcs, WorkerPcs, NotifierPcs
  <2> QED BY <2>1 DEF ThreadType
<1>3. LocalType
  BY DEF LocalType, NoRequest, NoMessage, Kinds
<1> QED BY <1>1, <1>2, <1>3 DEF TypeOK

LEMMA CallerType ==
  ASSUME TypeOK, NEW t \in Callers, CallerStep(t) PROVE TypeOK'
<1> USE ThreadsAre DEF TypeOK, device, cp, call, work
<1>1. CASE Request(t)
  <2>1. PICK w \in Workers :
          /\ pc[w] = "idle"
          /\ pc' = [pc EXCEPT ![t] = "wait", ![w] = "request"]
          /\ peer' = [peer EXCEPT ![t] = w]
          /\ req' = [req EXCEPT ![w] = [kind |-> op[t], sid |-> sid]]
    BY <1>1 DEF Request
  <2>2. ThreadType'
    BY <2>1, PostMoves DEF WorkerPcs
  <2>3. key' \in Nat
    BY <1>1 DEF Request, ResetKey, PointType
  <2>4. [kind |-> op[t], sid |-> sid] \in [kind : Kinds, sid : 0..alloc]
    BY DEF LocalType, PointType
  <2>5. LocalType'
    BY <1>1, <2>1, <2>4 DEF Request, LocalType
  <2> QED BY <1>1, <2>2, <2>3, <2>5 DEF Request, DeviceType, PointType
<1>2. CASE Refused(t)
  <2>1. ThreadType'
    BY <1>2, GotoMoves, PcsAre DEF Refused
  <2>2. key' \in Nat
    BY <1>2 DEF Refused, ResetKey, PointType
  <2>3. LocalType'
    BY <1>2 DEF Refused, LocalType, DeviceType
  <2> QED BY <1>2, <2>1, <2>2, <2>3 DEF Refused, DeviceType, PointType
<1>3. CASE TimesOut(t)
  <2>1. ThreadType'
    BY <1>3, GiveUpMoves, PcsAre DEF TimesOut
  <2>2. LocalType'
    BY <1>3 DEF TimesOut, LocalType, DeviceType
  <2> QED BY <1>3, <2>1, <2>2 DEF TimesOut, DeviceType, PointType
<1>4. CASE CallDone(t)
  <2>1. PICK l \in {"call", "answer", "idle"} : Goto(t, l) /\ (l = "answer" => t \in Handlers)
    BY <1>4 DEF CallDone
  <2>2. ThreadType'
    BY <1>4, <2>1, GotoMoves, PcsAre DEF CallDone, HandlerPcs, CallerPcs
  <2>3. sid' \in 0..alloc /\ cpMutex' \in Callers \cup {None}
    BY <1>4 DEF CallDone, LocalType, PointType, DeviceType
  <2>4. "subscribe" \in Kinds
    BY DEF Kinds
  <2>5. LocalType'
    BY <1>4, <2>4 DEF CallDone, LocalType, DeviceType
  <2> QED BY <1>4, <2>2, <2>3, <2>5 DEF CallDone, DeviceType, PointType
<1> QED BY <1>1, <1>2, <1>3, <1>4 DEF CallerStep

LEMMA BeginType ==
  ASSUME TypeOK, NEW t \in Callers, NEW kind \in Kinds, Begin(t, kind) PROVE TypeOK'
<1> USE ThreadsAre DEF TypeOK, device, cp, call, work
<1>1. ThreadType'
  BY GotoMoves, PcsAre DEF Begin
<1>2. LocalType'
  BY DEF Begin, LocalType
<1> QED BY <1>1, <1>2 DEF Begin, DeviceType, PointType

LEMMA HandlerType ==
  ASSUME TypeOK, NEW h \in Handlers, HandlerStep(h) PROVE TypeOK'
<1> USE ThreadsAre DEF TypeOK, device, cp, call, work
<1> USE DEF HandlerPcs
<1>1. CASE NotFound(h)
  <2>1. ThreadType'
    BY <1>1, GotoMoves DEF NotFound
  <2> QED BY <1>1, <2>1 DEF NotFound, DeviceType, PointType, LocalType
<1>2. CASE Accept(h)
  <2>1. ThreadType'
    BY <1>2, GotoMoves DEF Accept
  <2>2. key' \in Nat /\ table' \in Nat
    BY <1>2 DEF Accept, LocalType
  <2>3. taken' \in [Sids -> Nat]
    <3>1. taken' = [taken EXCEPT ![sid] = taken[sid] + 1] /\ taken \in [Sids -> Nat]
      BY <1>2 DEF Accept, PointType
    <3>2. CASE sid \in Sids
      BY <3>1, <3>2
    <3>3. CASE sid \notin Sids
      BY <3>1, <3>3
    <3> QED BY <3>2, <3>3
  <2> QED BY <1>2, <2>1, <2>2, <2>3 DEF Accept, DeviceType, PointType, LocalType
<1>3. CASE Gap(h)
  <2>1. ThreadType'
    BY <1>3, GotoMoves, PcsAre DEF Gap
  <2>2. op' \in [Callers -> Kinds]
    BY <1>3 DEF Gap, LocalType, Kinds
  <2> QED BY <1>3, <2>1, <2>2 DEF Gap, DeviceType, PointType, LocalType
<1>4. CASE Tell(h)
  <2>1. ThreadType'
    BY <1>4, GotoMoves DEF Tell
  <2>2. heard' \in Nat
    BY <1>4 DEF Tell, LocalType
  <2> QED BY <1>4, <2>1, <2>2 DEF Tell, DeviceType, PointType, LocalType
<1>5. CASE AnswerNotify(h)
  <2>1. ThreadType'
    BY <1>5, HandlerAnswers, PcsAre DEF AnswerNotify
  <2>2. NoMessage \in [sid : 0..alloc, seq : Nat, val : Nat]
    BY DEF NoMessage, DeviceType
  <2>3. LocalType'
    BY <1>5, <2>2 DEF AnswerNotify, LocalType
  <2> QED BY <1>5, <2>1, <2>3 DEF AnswerNotify, DeviceType, PointType
<1> QED BY <1>1, <1>2, <1>3, <1>4, <1>5 DEF HandlerStep

LEMMA WorkerType ==
  ASSUME TypeOK, NEW w \in Workers, WorkerStep(w) PROVE TypeOK'
<1> USE ThreadsAre, ValueAssumption DEF TypeOK, device, cp, call, work
<1> USE DEF WorkerPcs
<1>0. NoRequest \in [kind : Kinds, sid : 0..alloc]
  BY DEF NoRequest, DeviceType, Kinds
<1>1. CASE AddSubscriber(w)
  <2>1. ThreadType'
    BY <1>1, GotoMoves DEF AddSubscriber
  <2>2. alloc' = alloc + 1 /\ alloc \in Nat /\ alloc + 1 \in 0..MaxSubs
    BY <1>1 DEF AddSubscriber, DeviceType
  <2>3. subs' \subseteq 1..alloc' /\ late' \subseteq subs'
    BY <1>1, <2>2 DEF AddSubscriber, DeviceType
  <2>4. sid' \in 0..alloc'
    BY <1>1, <2>2 DEF AddSubscriber, PointType
  <2>5. req' \in [Workers -> [kind : Kinds, sid : 0..alloc']]
    <3>1. req' = [req EXCEPT ![w].sid = alloc + 1]
      BY <1>1 DEF AddSubscriber
    <3>2. \A x \in Workers : req[x] \in [kind : Kinds, sid : 0..(alloc + 1)]
      BY <2>2 DEF LocalType
    <3>3. [req[w] EXCEPT !.sid = alloc + 1] \in [kind : Kinds, sid : 0..(alloc + 1)]
      BY <2>2, <3>2
    <3> QED BY <2>2, <3>1, <3>2, <3>3 DEF LocalType
  <2>6. /\ ans' \in [Callers -> 0..alloc'] /\ cur' \in [Notifiers -> 0..alloc']
        /\ todo' \in [Notifiers -> SUBSET (1..alloc')]
    BY <1>1, <2>2 DEF AddSubscriber, LocalType
  <2>7. msg' \in [Handlers -> [sid : 0..alloc', seq : Nat, val : Nat]]
    BY <1>1, <2>2 DEF AddSubscriber, LocalType
  <2>8. LocalType'
    BY <1>1, <2>5, <2>6, <2>7 DEF AddSubscriber, LocalType
  <2> QED BY <1>1, <2>1, <2>2, <2>3, <2>4, <2>8 DEF AddSubscriber, DeviceType, PointType
<1>2. CASE AnswerSubscribe(w)
  <2>1. ThreadType'
    BY <1>2, WorkerAnswers DEF AnswerSubscribe, AnswerCall
  <2>2. ans' \in [Callers -> 0..alloc]
    BY <1>2 DEF AnswerSubscribe, AnswerCall, LocalType
  <2> QED BY <1>2, <2>1, <2>2 DEF AnswerSubscribe, DeviceType, PointType, LocalType
<1>3. CASE StartNotifyAll(w)
  <2>1. PICK n \in Notifiers : pc[n] = "idle" /\ pc' = [pc EXCEPT ![w] = "idle", ![n] = "lock"]
    BY <1>3 DEF StartNotifyAll
  <2>2. UNCHANGED peer /\ pc[w] = "linger"
    BY <1>3 DEF StartNotifyAll
  <2>3. PcType(pc')
    BY <2>1 DEF ThreadType, PcType, NotifierPcs
  <2>4. ThreadType'
    BY <2>1, <2>2, <2>3 DEF ThreadType, PcType
  <2>5. LocalType'
    BY <1>3, <1>0 DEF StartNotifyAll, LocalType
  <2> QED BY <1>3, <2>4, <2>5 DEF StartNotifyAll, DeviceType, PointType
<1>4. CASE RenewLookup(w)
  <2>1. ThreadType'
    <3>1. CASE req[w].sid \in subs
      BY <1>4, <3>1, GotoMoves DEF RenewLookup
    <3>2. CASE req[w].sid \notin subs
      BY <1>4, <3>2, WorkerAnswers DEF RenewLookup, AnswerCall
    <3> QED BY <3>1, <3>2
  <2>2. ans' \in [Callers -> 0..alloc]
    BY <1>4 DEF RenewLookup, AnswerCall, LocalType, DeviceType
  <2>3. req' \in [Workers -> [kind : Kinds, sid : 0..alloc]]
    BY <1>4, <1>0 DEF RenewLookup, LocalType
  <2> QED BY <1>4, <2>1, <2>2, <2>3 DEF RenewLookup, DeviceType, PointType, LocalType
<1>5. CASE Renew(w)
  <2>1. PICK s \in {0, req[w].sid} : AnswerCall(w, s, "idle")
    BY <1>5 DEF Renew
  <2>2. ThreadType'
    BY <2>1, WorkerAnswers DEF AnswerCall
  <2>3. ans' \in [Callers -> 0..alloc]
    BY <2>1 DEF AnswerCall, LocalType, DeviceType
  <2>4. req' \in [Workers -> [kind : Kinds, sid : 0..alloc]]
    BY <1>5, <1>0 DEF Renew, LocalType
  <2>5. subs' \subseteq 1..alloc /\ late' \subseteq subs'
    BY <1>5 DEF Renew, DeviceType
  <2> QED BY <1>5, <2>2, <2>3, <2>4, <2>5 DEF Renew, DeviceType, PointType, LocalType
<1>6. CASE UnsubscribeLock(w)
  <2>1. ThreadType'
    BY <1>6, GotoMoves DEF UnsubscribeLock
  <2> QED BY <1>6, <2>1 DEF UnsubscribeLock, DeviceType, PointType, LocalType
<1> QED BY <1>1, <1>2, <1>3, <1>4, <1>5, <1>6 DEF WorkerStep

LEMMA NotifierType ==
  ASSUME TypeOK, NEW n \in Notifiers, NotifierStep(n) PROVE TypeOK'
<1> USE ThreadsAre, ValueAssumption DEF TypeOK, device, cp, call, work
<1> USE DEF NotifierPcs
<1>1. CASE NotifyLock(n)
  <2>1. ThreadType'
    BY <1>1, GotoMoves DEF NotifyLock
  <2>2. DeviceType'
    BY <1>1 DEF NotifyLock, DeviceType
  <2>3. todo' \in [Notifiers -> SUBSET (1..alloc)]
    BY <1>1 DEF NotifyLock, LocalType, DeviceType
  <2> QED BY <1>1, <2>1, <2>2, <2>3 DEF NotifyLock, PointType, LocalType
<1>2. CASE NotifyPost(n)
  <2>1. PICK s \in subs, h \in Handlers :
          /\ pc[h] = "idle"
          /\ todo' = [todo EXCEPT ![n] = @ \ {s}]
          /\ cur' = [cur EXCEPT ![n] = s]
          /\ msg' = [msg EXCEPT ![h] = [sid |-> s, seq |-> count[s], val |-> value]]
          /\ peer' = [peer EXCEPT ![n] = h]
          /\ pc' = [pc EXCEPT ![n] = "wait", ![h] = "received"]
    BY <1>2 DEF NotifyPost
  <2>2. ThreadType'
    BY <2>1, PostMoves DEF HandlerPcs
  <2>3. s \in 0..alloc /\ s \in Sids
    BY DEF DeviceType, Sids
  <2>4. [sid |-> s, seq |-> count[s], val |-> value] \in [sid : 0..alloc, seq : Nat, val : Nat]
    BY <2>3 DEF DeviceType
  <2>5. /\ todo' \in [Notifiers -> SUBSET (1..alloc)] /\ cur' \in [Notifiers -> 0..alloc]
    BY <2>1, <2>3 DEF LocalType
  <2>6. msg' \in [Handlers -> [sid : 0..alloc, seq : Nat, val : Nat]]
    BY <2>1, <2>4 DEF LocalType
  <2> QED BY <1>2, <2>2, <2>5, <2>6 DEF NotifyPost, DeviceType, PointType, LocalType
<1>3. CASE NotifyRefused(n)
  <2>1. PICK s \in subs : todo' = [todo EXCEPT ![n] = @ \ {s}] /\ Drop(s)
    BY <1>3 DEF NotifyRefused
  <2>2. ThreadType'
    BY <1>3 DEF NotifyRefused, ThreadType, PcType
  <2>3. todo' \in [Notifiers -> SUBSET (1..alloc)]
    BY <2>1 DEF LocalType
  <2>4. DeviceType'
    BY <1>3, <2>1 DEF NotifyRefused, Drop, DeviceType
  <2> QED BY <1>3, <2>2, <2>3, <2>4 DEF NotifyRefused, PointType, LocalType
<1>4. CASE NotifyTimesOut(n)
  <2>1. ThreadType'
    BY <1>4, GiveUpMoves DEF NotifyTimesOut
  <2>2. DeviceType'
    BY <1>4 DEF NotifyTimesOut, Drop, DeviceType
  <2>3. cur' \in [Notifiers -> 0..alloc]
    BY <1>4 DEF NotifyTimesOut, LocalType, DeviceType
  <2> QED BY <1>4, <2>1, <2>2, <2>3 DEF NotifyTimesOut, PointType, LocalType
<1>5. CASE NotifyDone(n)
  <2>1. ThreadType'
    BY <1>5, GotoMoves DEF NotifyDone
  <2>2. \A c \in Nat : Increment(c) \in Nat
    BY DEF Increment
  <2>3. count' \in [Sids -> Nat]
    BY <1>5, <2>2 DEF NotifyDone, DeviceType
  <2>4. cur' \in [Notifiers -> 0..alloc]
    BY <1>5 DEF NotifyDone, LocalType, DeviceType
  <2> QED BY <1>5, <2>1, <2>3, <2>4 DEF NotifyDone, DeviceType, PointType, LocalType
<1>6. CASE NotifyEnd(n)
  <2>1. ThreadType'
    BY <1>6, GotoMoves DEF NotifyEnd
  <2> QED BY <1>6, <2>1 DEF NotifyEnd, DeviceType, PointType, LocalType
<1> QED BY <1>1, <1>2, <1>3, <1>4, <1>5, <1>6 DEF NotifierStep

LEMMA NextType == TypeOK /\ [Next]_vars => TypeOK'
<1> SUFFICES ASSUME TypeOK, [Next]_vars PROVE TypeOK'
    OBVIOUS
<1> USE DEF device, cp, call, work
<1>1. CASE AppSubscribe \/ AppUnsubscribe \/ RenewalDue
  BY <1>1, BeginType, ThreadsAre DEF AppSubscribe, AppUnsubscribe, RenewalDue, Kinds
<1>2. ASSUME NEW n \in Notifiers, SetValue(n) PROVE TypeOK'
  <2>1. ThreadType'
    BY <1>2, GotoMoves, ThreadsAre DEF SetValue, NotifierPcs, TypeOK
  <2> QED BY <1>2, <2>1 DEF SetValue, TypeOK, DeviceType, PointType, LocalType
<1>3. ASSUME NEW s \in Sids, LeaseEnds(s) PROVE TypeOK'
  BY <1>3 DEF LeaseEnds, TypeOK, DeviceType, PointType, ThreadType, PcType, LocalType
<1>4. ASSUME NEW t \in Workers \cup Notifiers, UseFreed(t) PROVE TypeOK'
  BY <1>4 DEF UseFreed, TypeOK, DeviceType, PointType, ThreadType, PcType, LocalType
<1>5. CASE UNCHANGED vars
  BY <1>5 DEF vars, TypeOK, DeviceType, PointType, ThreadType, PcType, LocalType
<1> QED
  BY <1>1, <1>2, <1>3, <1>4, <1>5, CallerType, HandlerType, WorkerType, NotifierType
  DEF Next, AtRest, Crashed

\* No execution takes a variable out of its type, and exactly the threads that
\* wait for an answer have somebody to get it from.
THEOREM TypeCorrect == Spec => []TypeOK
BY InitType, NextType, PTL DEF Spec

-----------------------------------------------------------------------------
(* The inductive invariant.                                                *)

CallingPcs == {"call", "wait", "done"}
SendingPcs == {"next", "wait", "notified"}

\* A caller owns the control point's mutex, a notifier the service mutex.
MutexHeld ==
  /\ \A t \in Callers : pc[t] \in CallingPcs => cpMutex = t
  /\ \A n \in Notifiers : pc[n] \in SendingPcs => svcMutex = n

\* What a worker knows of its client, and what a caller may learn from it.
WaitsWell(t, w) ==
  /\ w \in Workers /\ pc[w] \in {"request", "added", "renew", "stuck"}
  /\ req[w].kind = op[t]
  /\ op[t] # "subscribe" => req[w].sid = sid

CallsWell ==
  /\ \A t \in Callers : ans[t] # 0 => pc[t] = "done"
  /\ \A t \in Callers : pc[t] \in CallingPcs /\ op[t] = "subscribe" => sid = 0
  /\ \A t \in Callers : pc[t] = "wait" => WaitsWell(t, peer[t])
  /\ \A t \in Callers : op[t] = "renew" => ans[t] \in {0, sid}
  /\ \A h \in Handlers : op[h] # "renew"
  /\ \A w \in Workers : pc[w] = "renew" => req[w].kind = "renew"
  /\ \A w \in Workers : pc[w] = "added" => req[w].kind = "subscribe" /\ req[w].sid # 0

\* A notification is in one handler at most, and in the handler the notifier
\* waits for as long as its subscriber is in the list.
PostsWell ==
  /\ \A h \in Handlers : pc[h] = "idle" <=> msg[h].sid = 0
  /\ \A n \in Notifiers : pc[n] = "wait" => peer[n] \in Handlers /\ msg[peer[n]].sid = cur[n]
  /\ \A n \in Notifiers : pc[n] \in {"wait", "notified"} => cur[n] # 0
  /\ \A h \in Handlers : msg[h].sid \in subs =>
       \E n \in Notifiers : pc[n] = "wait" /\ peer[n] = h
  /\ \A g, h \in Handlers : msg[g].sid = msg[h].sid /\ msg[g].sid # 0 => g = h

\* A caller has got s, or is about to get s, as the answer to a subscription.
Pending(s) ==
  \E t \in Callers :
    /\ op[t] = "subscribe"
    /\ \/ pc[t] = "done" /\ ans[t] = s
       \/ pc[t] = "wait" /\ pc[peer[t]] = "added" /\ req[peer[t]].sid = s

\* Nothing of s has been delivered.
Untouched(s) ==
  /\ count[s] = 0 /\ taken[s] = 0
  /\ \A h \in Handlers : msg[h].sid = s => pc[h] = "received" /\ msg[h].seq = 0
  /\ \A n \in Notifiers : pc[n] = "notified" => cur[n] # s

\* Device and control point agree on the events of s, except for the one that
\* has been taken and not been counted yet.
InStep(s) ==
  /\ \A h \in Handlers : msg[h].sid = s /\ pc[h] = "received" =>
       msg[h].seq = taken[s] /\ count[s] = taken[s]
  /\ \A h \in Handlers : msg[h].sid = s /\ pc[h] \in {"tell", "answer"} =>
       taken[s] = count[s] + 1
  /\ \A n \in Notifiers : pc[n] = "notified" /\ cur[n] = s => taken[s] = count[s] + 1
  /\ s \in subs /\ (\A n \in Notifiers : pc[n] \in {"wait", "notified"} => cur[n] # s) =>
       taken[s] = count[s]
  /\ taken[s] # 0 =>
       /\ taken[s] <= MaxSeq + 1
       /\ key = IF taken[s] = MaxSeq + 1 THEN 0 ELSE taken[s] - 1

FeedWell ==
  /\ \A s \in Sids : s > alloc => taken[s] = 0 /\ count[s] = 0
  /\ \A s \in Sids : Pending(s) => Untouched(s)
  /\ sid # 0 => InStep(sid)
  /\ NoFalseGap

IInv == TypeOK /\ MutexHeld /\ CallsWell /\ PostsWell /\ FeedWell

-----------------------------------------------------------------------------
(* Steps that leave a part of the invariant alone.                         *)

LEMMA Parts ==
  ASSUME IInv
  PROVE  /\ DeviceType /\ PointType /\ ThreadType /\ LocalType
         /\ MutexHeld /\ CallsWell /\ PostsWell /\ FeedWell
         /\ alloc \in Nat /\ \A s \in 0..alloc : s = 0 \/ s \in Sids
<1>1. alloc \in 0..MaxSubs
  BY DEF IInv, TypeOK, DeviceType
<1> QED BY <1>1, ValueAssumption DEF IInv, TypeOK, Sids

LEMMA Alone ==
  ASSUME MutexHeld, NEW t \in Callers, NEW u \in Callers, pc[t] \in CallingPcs, pc[u] \in CallingPcs
  PROVE  t = u
BY DEF MutexHeld

LEMMA MutexFrame ==
  ASSUME MutexHeld, UNCHANGED <<cpMutex, svcMutex>>,
         \A t \in Callers : pc'[t] \in CallingPcs => pc[t] \in CallingPcs,
         \A n \in Notifiers : pc'[n] \in SendingPcs => pc[n] \in SendingPcs
  PROVE  MutexHeld'
BY DEF MutexHeld

LEMMA CallsFrame ==
  ASSUME CallsWell, UNCHANGED <<ans, op, req, sid>>,
         \A t \in Callers : pc'[t] = pc[t] \/ (pc[t] \notin CallingPcs /\ pc'[t] \notin CallingPcs),
         \A w \in Workers : pc'[w] = pc[w],
         \A t \in Callers : peer'[t] = peer[t]
  PROVE  CallsWell'
BY DEF CallsWell, WaitsWell, CallingPcs

LEMMA PostsFrame ==
  ASSUME PostsWell, UNCHANGED msg,
         \A h \in Handlers : msg[h].sid \in subs' => msg[h].sid \in subs,
         \A h \in Handlers : pc'[h] = "idle" <=> pc[h] = "idle",
         \A n \in Notifiers : pc'[n] = pc[n] \/ {pc[n], pc'[n]} \cap {"wait", "notified"} = {},
         \A n \in Notifiers : peer'[n] = peer[n] /\ cur'[n] = cur[n]
  PROVE  PostsWell'
<1>1. \A n \in Notifiers : /\ pc'[n] = "wait" <=> pc[n] = "wait"
                           /\ pc'[n] = "notified" <=> pc[n] = "notified"
  OBVIOUS
<1> QED BY <1>1 DEF PostsWell

LEMMA FeedFrame ==
  ASSUME FeedWell, UNCHANGED <<count, taken, sid, msg>>, alloc \in Nat, alloc' \in Nat,
         sid # 0 => UNCHANGED key,
         alloc <= alloc', sid \in subs' => sid \in subs,
         \A s \in Sids : Pending(s)' => Pending(s),
         \A h \in Handlers : pc'[h] = pc[h] \/ (pc[h] \in CallingPcs /\ pc'[h] \in CallingPcs),
         \A n \in Notifiers : \/ pc'[n] = pc[n] /\ cur'[n] = cur[n]
                              \/ {pc[n], pc'[n]} \cap {"wait", "notified"} = {}
  PROVE  FeedWell'
<1>1. \A h \in Handlers, l \in {"received", "tell", "answer"} : pc'[h] = l <=> pc[h] = l
  BY DEF CallingPcs
<1>2. \A n \in Notifiers, s \in Sids \cup {0} :
        /\ pc'[n] = "notified" /\ cur'[n] = s <=> pc[n] = "notified" /\ cur[n] = s
        /\ (pc'[n] \in {"wait", "notified"} => cur'[n] # s) <=>
             (pc[n] \in {"wait", "notified"} => cur[n] # s)
  OBVIOUS
<1>3. ASSUME NEW s \in Sids, s > alloc' PROVE (taken[s] = 0 /\ count[s] = 0)'
  <2>1. s > alloc
    BY <1>3 DEF Sids
  <2> QED BY <2>1 DEF FeedWell
<1>4. ASSUME NEW s \in Sids, Pending(s)' PROVE Untouched(s)'
  BY <1>1, <1>2, <1>4 DEF FeedWell, Untouched
<1>5. sid # 0 => InStep(sid)'
  <2> SUFFICES ASSUME sid # 0 PROVE InStep(sid)'
    OBVIOUS
  <2>1. InStep(sid) /\ key' = key
    BY DEF FeedWell
  <2> QED BY <1>1, <1>2, <2>1 DEF InStep
<1>6. NoFalseGap'
  BY DEF FeedWell, NoFalseGap, CallingPcs
<1> QED BY <1>3, <1>4, <1>5, <1>6 DEF FeedWell

-----------------------------------------------------------------------------
(* Every step preserves the invariant.                                     *)

LEMMA BeginKeeps ==
  ASSUME IInv, NEW t \in {App, Renewer}, NEW kind \in Kinds, Begin(t, kind),
         kind = "subscribe" => sid = 0
  PROVE  MutexHeld' /\ CallsWell' /\ PostsWell' /\ FeedWell'
<1>a. /\ DeviceType /\ PointType /\ ThreadType /\ LocalType
      /\ MutexHeld /\ CallsWell /\ PostsWell /\ FeedWell
      /\ alloc \in Nat /\ \A s \in 0..alloc : s = 0 \/ s \in Sids
  BY Parts
<1> USE ThreadsAre, <1>a
<1>1. /\ pc[t] = "idle" /\ pc'[t] = "call" /\ t \in Callers /\ t \notin Handlers
      /\ \A x \in Threads : x # t => pc'[x] = pc[x]
      /\ cpMutex = None /\ cpMutex' = t
  BY GotoMoves, PcsAre DEF Begin
<1>2. \A u \in Callers : pc[u] \notin CallingPcs
  BY <1>1 DEF MutexHeld
<1>3. /\ op' = [op EXCEPT ![t] = kind] /\ op \in [Callers -> Kinds]
      /\ UNCHANGED <<svcMutex, sid, ans, req, peer, msg, subs, cur, count, taken, alloc, key>>
  BY DEF Begin, LocalType, device, cp, work
<1>4. MutexHeld'
  BY <1>1, <1>2, <1>3 DEF MutexHeld, CallingPcs, SendingPcs
<1>5. CallsWell'
  <2>1. \A u \in Callers : ans[u] = 0
    BY <1>2 DEF CallsWell, CallingPcs
  <2>2. \A u \in Callers : u # t => pc'[u] \notin CallingPcs
    BY <1>1, <1>2 DEF CallingPcs
  <2> QED BY <1>1, <1>3, <2>1, <2>2 DEF CallsWell, CallingPcs
<1>6. PostsWell'
  BY <1>1, <1>3, PostsFrame
<1>7. FeedWell'
  <2>1. \A s \in Sids : ~Pending(s)'
    BY <1>1, <1>2 DEF Pending, CallingPcs
  <2>2. \A x \in Handlers \cup Notifiers : pc'[x] = pc[x]
    BY <1>1
  <2> QED BY <1>3, <2>1, <2>2, FeedFrame DEF Pending
<1> QED BY <1>4, <1>5, <1>6, <1>7

LEMMA CallerKeeps ==
  ASSUME IInv, NEW t \in Callers, CallerStep(t)
  PROVE  MutexHeld' /\ CallsWell' /\ PostsWell' /\ FeedWell'
<1>a. /\ DeviceType /\ PointType /\ ThreadType /\ LocalType
      /\ MutexHeld /\ CallsWell /\ PostsWell /\ FeedWell
      /\ alloc \in Nat /\ \A s \in 0..alloc : s = 0 \/ s \in Sids
  BY Parts
<1> USE ThreadsAre, <1>a DEF device, cp, call, work
<1>0. \A u \in Callers : pc[t] \in CallingPcs /\ pc[u] \in CallingPcs => u = t
  BY Alone
<1>1. CASE Request(t)
  <2>1. PICK w \in Workers :
          /\ pc[w] = "idle"
          /\ pc' = [pc EXCEPT ![t] = "wait", ![w] = "request"]
          /\ peer' = [peer EXCEPT ![t] = w]
          /\ req' = [req EXCEPT ![w] = [kind |-> op[t], sid |-> sid]]
    BY <1>1 DEF Request
  <2>2. /\ pc[t] = "call" /\ pc'[t] = "wait" /\ pc'[w] = "request" /\ peer'[t] = w
        /\ \A x \in Threads : x # t => peer'[x] = peer[x]
        /\ \A x \in Threads : x # t /\ x # w => pc'[x] = pc[x]
    BY <1>1, <2>1 DEF Request, ThreadType, PcType
  <2>3. UNCHANGED <<svcMutex, cpMutex, sid, ans, op, msg, subs, cur, count, taken, alloc>>
    BY <1>1 DEF Request
  <2>4. req'[w] = [kind |-> op[t], sid |-> sid] /\ \A x \in Workers : x # w => req'[x] = req[x]
    BY <2>1 DEF LocalType
  <2>5. \A u \in Callers : u # t => pc[u] \notin CallingPcs /\ pc'[u] \notin CallingPcs
    BY <1>0, <2>2 DEF CallingPcs
  <2>6. MutexHeld'
    BY <2>2, <2>3, <2>5 DEF MutexHeld, CallingPcs, SendingPcs
  <2>7. CallsWell'
    <3>1. WaitsWell(t, w)'
      BY <2>2, <2>3, <2>4 DEF WaitsWell
    <3>2. \A u \in Callers : pc'[u] = "wait" => u = t
      BY <2>5 DEF CallingPcs
    <3>3. \A u \in Callers : ans'[u] # 0 => pc'[u] = "done"
      BY <2>2, <2>3 DEF CallsWell
    <3>4. \A u \in Callers : pc'[u] \in CallingPcs /\ op'[u] = "subscribe" => sid' = 0
      BY <2>2, <2>3, <2>5 DEF CallsWell, CallingPcs
    <3>5. \A x \in Workers : /\ pc'[x] = "renew" => req'[x].kind = "renew"
                             /\ pc'[x] = "added" => req'[x].kind = "subscribe" /\ req'[x].sid # 0
      BY <2>2, <2>4 DEF CallsWell
    <3> QED BY <2>2, <2>3, <3>1, <3>2, <3>3, <3>4, <3>5 DEF CallsWell
  <2>8. PostsWell'
    BY <2>2, <2>3, PostsFrame
  <2>9. FeedWell'
    <3>1. \A s \in Sids : ~Pending(s)'
      BY <2>2, <2>5 DEF Pending, CallingPcs
    <3>2. sid # 0 => UNCHANGED key
      BY <1>1, <2>2 DEF Request, ResetKey, CallsWell, CallingPcs
    <3>3. \A h \in Handlers : pc'[h] = pc[h] \/ (pc[h] \in CallingPcs /\ pc'[h] \in CallingPcs)
      <4>1. pc[t] \in CallingPcs /\ pc'[t] \in CallingPcs
        BY <2>2 DEF CallingPcs
      <4>2. \A h \in Handlers : h # t => pc'[h] = pc[h]
        BY <2>2
      <4> QED BY <4>1, <4>2
    <3> QED BY <2>2, <2>3, <3>1, <3>2, <3>3, FeedFrame
  <2> QED BY <2>6, <2>7, <2>8, <2>9
<1>2. CASE Refused(t) \/ TimesOut(t)
  <2>1. /\ pc[t] \in CallingPcs /\ pc'[t] = "done"
        /\ \A x \in Threads : x # t => pc'[x] = pc[x] /\ peer'[x] = peer[x]
    <3>1. CASE Refused(t)
      BY <3>1, GotoMoves, PcsAre DEF Refused, CallingPcs
    <3>2. CASE TimesOut(t)
      BY <3>2, GiveUpMoves, PcsAre DEF TimesOut, CallingPcs
    <3> QED BY <1>2, <3>1, <3>2
  <2>2. /\ UNCHANGED <<svcMutex, cpMutex, sid, req, op, msg, subs, cur, count, taken, alloc>>
        /\ ans' = [ans EXCEPT ![t] = 0] /\ ans \in [Callers -> 0..alloc]
    BY <1>2 DEF Refused, TimesOut, LocalType
  <2>3. \A u \in Callers : u # t => pc[u] \notin CallingPcs /\ pc'[u] \notin CallingPcs
    BY <1>0, <2>1 DEF CallingPcs
  <2>4. MutexHeld'
    BY <2>1, <2>2, <2>3 DEF MutexHeld, CallingPcs, SendingPcs
  <2>5. CallsWell'
    <3>1. \A u \in Callers : pc'[u] # "wait"
      BY <2>1, <2>3 DEF CallingPcs
    <3>2. \A u \in Callers : ans'[u] = 0
      BY <2>1, <2>2, <2>3 DEF CallsWell, CallingPcs
    <3>3. \A u \in Callers : pc'[u] \in CallingPcs /\ op'[u] = "subscribe" => sid' = 0
      BY <2>1, <2>2, <2>3 DEF CallsWell
    <3> QED BY <2>1, <2>2, <3>1, <3>2, <3>3 DEF CallsWell
  <2>6. PostsWell'
    <3>1. \A h \in Handlers : pc'[h] = "idle" <=> pc[h] = "idle"
      BY <2>1 DEF CallingPcs
    <3> QED BY <2>1, <2>2, <3>1, PostsFrame
  <2>7. FeedWell'
    <3>1. \A s \in Sids : ~Pending(s)'
      BY <2>1, <2>2, <2>3 DEF Pending, CallingPcs, Sids
    <3>2. sid # 0 => UNCHANGED key
      BY <1>2, <2>1 DEF Refused, TimesOut, ResetKey, CallsWell
    <3>3. \A h \in Handlers : pc'[h] = pc[h] \/ (pc[h] \in CallingPcs /\ pc'[h] \in CallingPcs)
      <4>1. pc[t] \in CallingPcs /\ pc'[t] \in CallingPcs
        BY <2>1 DEF CallingPcs
      <4>2. \A h \in Handlers : h # t => pc'[h] = pc[h]
        BY <2>1
      <4> QED BY <4>1, <4>2
    <3> QED BY <2>1, <2>2, <3>1, <3>2, <3>3, FeedFrame
  <2> QED BY <2>4, <2>5, <2>6, <2>7
<1>3. CASE CallDone(t)
  <2>1. PICK l \in {"call", "answer", "idle"} :
          /\ Goto(t, l)
          /\ l = "call" => t \in Handlers /\ op[t] = "unsubscribe"
          /\ l = "answer" => t \in Handlers /\ op[t] # "unsubscribe"
          /\ l = "idle" => t \notin Handlers
          /\ cpMutex' = IF l = "call" THEN cpMutex ELSE None
    BY <1>3 DEF CallDone
  <2>2. /\ pc[t] = "done" /\ pc'[t] = l
        /\ \A x \in Threads : x # t => pc'[x] = pc[x]
    BY <1>3, <2>1, GotoMoves, PcsAre DEF CallDone, HandlerPcs
  <2>3. /\ UNCHANGED <<svcMutex, req, msg, subs, cur, count, taken, alloc, key, peer>>
        /\ ans' = [ans EXCEPT ![t] = 0] /\ ans \in [Callers -> 0..alloc]
        /\ op' = [op EXCEPT ![t] = "subscribe"] /\ op \in [Callers -> Kinds]
        /\ sid' = IF op[t] = "unsubscribe" THEN 0 ELSE ans[t]
    BY <1>3 DEF CallDone, LocalType
  <2>4. \A u \in Callers : u # t => pc[u] \notin CallingPcs /\ pc'[u] \notin CallingPcs
    BY <1>0, <2>2 DEF CallingPcs
  <2>5. \A u \in Callers : ans'[u] = 0 /\ pc'[u] # "wait" /\ pc'[u] # "done"
    BY <2>2, <2>3, <2>4 DEF CallsWell, CallingPcs
  <2>6. MutexHeld'
    BY <2>1, <2>2, <2>3, <2>4 DEF MutexHeld, CallingPcs, SendingPcs
  <2>7. CallsWell'
    <3>1. \A u \in Callers : pc'[u] \in CallingPcs /\ op'[u] = "subscribe" => sid' = 0
      BY <2>1, <2>2, <2>3, <2>4 DEF CallingPcs
    <3> QED BY <2>2, <2>3, <2>5, <3>1 DEF CallsWell
  <2>8. PostsWell'
    <3>1. \A h \in Handlers : pc'[h] = "idle" <=> pc[h] = "idle"
      BY <2>1, <2>2
    <3> QED BY <2>2, <2>3, <3>1, PostsFrame
  <2>9. FeedWell'
    <3>1. \A s \in Sids : ~Pending(s)'
      BY <2>5 DEF Pending
    <3>2. NoFalseGap'
      BY <2>1, <2>2, <2>3 DEF FeedWell, NoFalseGap
    <3>3. ASSUME sid' # 0 PROVE InStep(sid)'
      <4>1. op[t] # "unsubscribe" /\ sid' = ans[t] /\ sid' \in Sids
        BY <2>3, <3>3 DEF LocalType
      <4>2. l # "call"
        BY <2>1, <4>1
      <4>3. CASE op[t] = "renew"
        <5>1. sid' = sid /\ t \notin Handlers
          BY <4>1, <4>3, <3>3 DEF CallsWell
        <5>2. \A h \in Handlers : pc'[h] = pc[h]
          BY <2>2, <5>1
        <5> QED BY <2>2, <2>3, <3>3, <5>1, <5>2 DEF FeedWell, InStep
      <4>4. CASE op[t] = "subscribe"
        <5>1. Untouched(sid')
          BY <2>2, <4>1, <4>4 DEF FeedWell, Pending
        <5>2. \A h \in Handlers : msg[h].sid = sid' => pc'[h] = "received" /\ pc[h] = "received"
          BY <2>2, <5>1 DEF Untouched
        <5> QED BY <2>2, <2>3, <5>1, <5>2 DEF Untouched, InStep
      <4> QED BY <4>1, <4>3, <4>4, <2>3 DEF Kinds
    <3> QED BY <2>3, <3>1, <3>2, <3>3 DEF FeedWell
  <2> QED BY <2>6, <2>7, <2>8, <2>9
<1> QED BY <1>1, <1>2, <1>3 DEF CallerStep

LEMMA NobodyCalls ==
  ASSUME IInv, cpMutex = None
  PROVE  /\ \A t \in Callers : pc[t] \notin CallingPcs
         /\ \A s \in Sids : ~Pending(s)
<1>1. \A t \in Callers : pc[t] \notin CallingPcs
  BY ThreadsAre, Parts DEF MutexHeld
<1> QED BY <1>1 DEF Pending, CallingPcs

LEMMA HandlerKeeps ==
  ASSUME IInv, NEW h \in Handlers, HandlerStep(h)
  PROVE  MutexHeld' /\ CallsWell' /\ PostsWell' /\ FeedWell'
<1>a. /\ DeviceType /\ PointType /\ ThreadType /\ LocalType
      /\ MutexHeld /\ CallsWell /\ PostsWell /\ FeedWell
      /\ alloc \in Nat /\ \A s \in 0..alloc : s = 0 \/ s \in Sids
  BY Parts
<1> USE ThreadsAre, <1>a DEF device, cp, call, work
<1>1. CASE NotFound(h) \/ Tell(h)
  <2>1. /\ pc'[h] = "answer" /\ pc[h] \in {"received", "tell"}
        /\ \A x \in Threads : x # h => pc'[x] = pc[x]
    BY <1>1, GotoMoves DEF NotFound, Tell, HandlerPcs
  <2>2. /\ UNCHANGED <<svcMutex, cpMutex, sid, key, taken, subs, count, alloc, peer, ans, op, req, msg, cur>>
        /\ pc[h] = "received" => msg[h].sid # sid
    BY <1>1 DEF NotFound, Tell
  <2>3. \A s \in Sids : Pending(s)' => pc[h] = "tell" /\ Pending(s)
    <3>1. CASE NotFound(h)
      <4>1. \A t \in Callers : pc'[t] \notin CallingPcs
        BY <2>1, <3>1, NobodyCalls DEF NotFound, CallingPcs
      <4> QED BY <4>1 DEF Pending, CallingPcs
    <3>2. CASE Tell(h)
      <4>1. \A t \in Callers : pc'[t] \in {"wait", "done"} => pc'[t] = pc[t]
        BY <2>1
      <4>2. \A t \in Callers : pc[t] = "wait" => peer[t] \in Workers
        BY DEF CallsWell, WaitsWell
      <4>3. \A w \in Workers : pc'[w] = pc[w]
        BY <2>1
      <4> QED BY <2>2, <3>2, <4>1, <4>2, <4>3 DEF Pending, Tell
    <3> QED BY <1>1, <3>1, <3>2
  <2>4. MutexHeld'
    BY <2>1, <2>2, MutexFrame DEF CallingPcs
  <2>5. CallsWell'
    BY <2>1, <2>2, CallsFrame DEF CallingPcs
  <2>6. PostsWell'
    BY <2>1, <2>2, PostsFrame
  <2>7. FeedWell'
    <3>1. ASSUME NEW s \in Sids, Pending(s)' PROVE Untouched(s)'
      BY <2>1, <2>2, <2>3, <3>1 DEF FeedWell, Untouched
    <3>2. ASSUME sid # 0 PROVE InStep(sid)'
      BY <2>1, <2>2, <3>2 DEF FeedWell, InStep
    <3>3. NoFalseGap'
      BY <2>1, <2>2 DEF FeedWell, NoFalseGap
    <3> QED BY <2>2, <3>1, <3>2, <3>3 DEF FeedWell
  <2> QED BY <2>4, <2>5, <2>6, <2>7
<1>2. CASE Accept(h)
  <2>1. /\ pc[h] = "received" /\ pc'[h] = "tell" /\ cpMutex = None /\ h \in Callers
        /\ \A x \in Threads : x # h => pc'[x] = pc[x]
    BY <1>2, GotoMoves DEF Accept, HandlerPcs
  <2>2. UNCHANGED <<svcMutex, cpMutex, sid, subs, count, alloc, peer, ans, op, req, msg, cur>>
    BY <1>2 DEF Accept
  <2>3. /\ msg[h].sid = sid /\ sid \in Sids
        /\ taken' = [taken EXCEPT ![sid] = taken[sid] + 1]
        /\ key' = IF msg[h].seq = MaxSeq THEN 0 ELSE msg[h].seq
        /\ InSequence(msg[h].seq)
    BY <1>2 DEF Accept, PostsWell, PointType
  <2>4. \A t \in Callers : pc[t] \notin CallingPcs /\ pc'[t] \notin CallingPcs
    BY <2>1, NobodyCalls DEF CallingPcs
  <2>5. MutexHeld'
    BY <2>1, <2>2, MutexFrame DEF CallingPcs
  <2>6. CallsWell'
    BY <2>1, <2>2, <2>4, CallsFrame
  <2>7. PostsWell'
    BY <2>1, <2>2, PostsFrame
  <2>8. FeedWell'
    <3>1. \A s \in Sids : ~Pending(s)'
      BY <2>4 DEF Pending, CallingPcs
    <3>2. InStep(sid)'
      <4>0. /\ msg[h].seq = taken[sid] /\ count[sid] = taken[sid]
            /\ taken[sid] \in Nat /\ MaxSeq \in Nat \ {0}
            /\ taken[sid] # 0 =>
                 /\ taken[sid] <= MaxSeq + 1
                 /\ key = IF taken[sid] = MaxSeq + 1 THEN 0 ELSE taken[sid] - 1
        <5>1. InStep(sid) /\ taken[sid] \in Nat
          BY <2>3 DEF FeedWell, PointType, Sids
        <5> QED BY <2>1, <2>3, <5>1, ValueAssumption DEF InStep
      <4>1. taken'[sid] = taken[sid] + 1
        BY <2>3 DEF PointType
      <4>2. taken[sid] <= MaxSeq /\ key' = IF taken[sid] = MaxSeq THEN 0 ELSE taken[sid]
        BY <2>3, <4>0 DEF InSequence
      <4>3. \A g \in Handlers : msg[g].sid = sid => g = h
        BY <2>3 DEF PostsWell, Sids
      <4>4. \A n \in Notifiers : pc[n] = "notified" => cur[n] # sid
        <5>1. InStep(sid) /\ taken[sid] # count[sid] + 1
          BY <2>3, <4>0 DEF FeedWell, Sids
        <5> QED BY <5>1 DEF InStep
      <4>5. sid \in subs => \E n \in Notifiers : pc[n] = "wait" /\ cur[n] = sid
        BY <2>3 DEF PostsWell
      <4> QED BY <2>1, <2>2, <4>0, <4>1, <4>2, <4>3, <4>4, <4>5 DEF InStep
    <3>3. NoFalseGap'
      BY <2>1, <2>2 DEF FeedWell, NoFalseGap
    <3>4. \A s \in Sids : s > alloc => taken'[s] = 0 /\ count[s] = 0
      BY <2>3 DEF FeedWell, PointType
    <3> QED BY <2>2, <3>1, <3>2, <3>3, <3>4 DEF FeedWell
  <2> QED BY <2>5, <2>6, <2>7, <2>8
<1>3. CASE Gap(h)
  <2>1. /\ pc[h] = "received" /\ pc'[h] = "call" /\ cpMutex = None /\ cpMutex' = h
        /\ \A x \in Threads : x # h => pc'[x] = pc[x]
    BY <1>3, GotoMoves, PcsAre DEF Gap
  <2>2. UNCHANGED <<svcMutex, sid, key, taken, subs, count, alloc, peer, ans, req, msg, cur>>
    BY <1>3 DEF Gap
  <2>3. /\ op'[h] = "unsubscribe"
        /\ \A t \in Callers : t # h => op'[t] = op[t]
    BY <1>3 DEF Gap, LocalType
  <2>4. \A t \in Callers : pc[t] \notin CallingPcs /\ (t # h => pc'[t] \notin CallingPcs)
    BY <2>1, NobodyCalls
  <2>5. MutexHeld'
    BY <2>1, <2>2, <2>4 DEF MutexHeld, SendingPcs
  <2>6. CallsWell'
    <3>1. \A t \in Callers : ans'[t] = 0 /\ pc'[t] # "wait"
      BY <2>1, <2>2, <2>4 DEF CallsWell, CallingPcs
    <3>2. \A t \in Callers : pc'[t] \in CallingPcs /\ op'[t] = "subscribe" => sid' = 0
      BY <2>3, <2>4
    <3>3. \A g \in Handlers : op'[g] # "renew"
      BY <2>3 DEF CallsWell
    <3>4. \A w \in Workers : pc'[w] = pc[w] /\ req'[w] = req[w]
      BY <2>1, <2>2
    <3> QED BY <3>1, <3>2, <3>3, <3>4 DEF CallsWell
  <2>7. PostsWell'
    BY <2>1, <2>2, PostsFrame
  <2>8. FeedWell'
    <3>1. \A s \in Sids : ~Pending(s)'
      <4>1. \A t \in Callers : op'[t] = "subscribe" => pc'[t] \notin {"wait", "done"}
        BY <2>3, <2>4 DEF CallingPcs
      <4> QED BY <4>1 DEF Pending
    <3>2. ASSUME sid # 0 PROVE InStep(sid)'
      BY <2>1, <2>2, <3>2 DEF FeedWell, InStep
    <3>3. msg[h].seq > MaxSeq
      <4>1. sid # 0 /\ msg[h].sid = sid /\ sid \in Sids /\ ~InSequence(msg[h].seq)
        BY <1>3, <2>1 DEF Gap, PostsWell, PointType
      <4>2. /\ msg[h].seq = taken[sid] /\ taken[sid] \in Nat /\ MaxSeq \in Nat
            /\ taken[sid] # 0 => key = IF taken[sid] = MaxSeq + 1 THEN 0 ELSE taken[sid] - 1
        BY <2>1, <4>1, ValueAssumption DEF FeedWell, InStep, PointType
      <4> QED BY <4>1, <4>2 DEF InSequence
    <3>4. NoFalseGap'
      BY <2>1, <2>2, <3>3 DEF FeedWell, NoFalseGap
    <3> QED BY <2>2, <3>1, <3>2, <3>4 DEF FeedWell
  <2> QED BY <2>5, <2>6, <2>7, <2>8
<1>4. CASE AnswerNotify(h)
  <2>1. /\ pc[h] = "answer" /\ pc'[h] = "idle"
        /\ \A n \in Notifiers : IF peer[n] = h THEN pc'[n] = "notified" /\ peer'[n] = None
                                               ELSE pc'[n] = pc[n] /\ peer'[n] = peer[n]
        /\ \A x \in Callers \cup Workers : x # h => pc'[x] = pc[x] /\ peer'[x] = peer[x]
        /\ peer'[h] = peer[h]
    BY <1>4, HandlerAnswers, PcsAre DEF AnswerNotify, ThreadType
  <2>2. UNCHANGED <<svcMutex, cpMutex, sid, key, taken, subs, count, alloc, ans, op, req, cur>>
    BY <1>4 DEF AnswerNotify
  <2>3. /\ msg'[h] = NoMessage /\ msg'[h].sid = 0
        /\ \A g \in Handlers : g # h => msg'[g] = msg[g]
    BY <1>4 DEF AnswerNotify, LocalType, NoMessage
  <2>4. \A n \in Notifiers : peer[n] = h => pc[n] = "wait" /\ cur[n] = msg[h].sid
    BY DEF PostsWell, ThreadType
  <2>5. MutexHeld'
    BY <2>1, <2>2, <2>4 DEF MutexHeld, CallingPcs, SendingPcs
  <2>6. CallsWell'
    BY <2>1, <2>2, CallsFrame DEF CallingPcs
  <2>7. PostsWell'
    <3>1. \A g \in Handlers : pc'[g] = "idle" <=> msg'[g].sid = 0
      BY <2>1, <2>3 DEF PostsWell
    <3>2. \A n \in Notifiers :
            pc'[n] = "wait" => peer'[n] \in Handlers /\ msg'[peer'[n]].sid = cur'[n]
      BY <2>1, <2>2, <2>3, <2>4 DEF PostsWell
    <3>3. \A n \in Notifiers : pc'[n] \in {"wait", "notified"} => cur'[n] # 0
      BY <2>1, <2>2, <2>4 DEF PostsWell
    <3>4. ASSUME NEW g \in Handlers, msg'[g].sid \in subs'
          PROVE  \E n \in Notifiers : pc'[n] = "wait" /\ peer'[n] = g
      <4>1. g # h
        BY <2>2, <2>3, <3>4 DEF DeviceType
      <4>2. PICK n \in Notifiers : pc[n] = "wait" /\ peer[n] = g
        BY <2>2, <2>3, <3>4, <4>1 DEF PostsWell
      <4> QED BY <2>1, <4>1, <4>2
    <3>5. \A f, g \in Handlers : msg'[f].sid = msg'[g].sid /\ msg'[f].sid # 0 => f = g
      BY <2>3 DEF PostsWell
    <3> QED BY <3>1, <3>2, <3>3, <3>4, <3>5 DEF PostsWell
  <2>8. FeedWell'
    <3>1. ASSUME NEW s \in Sids, Pending(s)' PROVE Untouched(s)'
      <4>1. \A t \in Callers : pc'[t] \in {"wait", "done"} => pc'[t] = pc[t] /\ peer'[t] = peer[t]
        BY <2>1
      <4>2. \A t \in Callers : pc[t] = "wait" => peer[t] \in Workers
        BY DEF CallsWell, WaitsWell
      <4>3. \A w \in Workers : pc'[w] = pc[w]
        BY <2>1
      <4>4. Pending(s)
        BY <2>2, <3>1, <4>1, <4>2, <4>3 DEF Pending
      <4>5. Untouched(s) /\ msg[h].sid # s
        BY <2>1, <4>4 DEF FeedWell, Untouched
      <4> QED BY <2>1, <2>2, <2>3, <2>4, <4>5 DEF Untouched, Sids
    <3>2. ASSUME sid # 0 PROVE InStep(sid)'
      <4>0. InStep(sid)
        BY <3>2 DEF FeedWell
      <4>1. \A g \in Handlers : msg'[g].sid = sid => g # h /\ msg[g].sid = sid /\ pc'[g] = pc[g]
        BY <2>1, <2>3, <3>2
      <4>2. \A n \in Notifiers : pc'[n] = "notified" /\ cur[n] = sid => taken[sid] = count[sid] + 1
        BY <2>1, <2>4, <4>0 DEF InStep
      <4>3. \A n \in Notifiers : pc[n] \in {"wait", "notified"} => pc'[n] \in {"wait", "notified"}
        BY <2>1
      <4> QED BY <2>2, <2>3, <4>0, <4>1, <4>2, <4>3 DEF InStep
    <3>3. NoFalseGap'
      BY <2>1, <2>3 DEF FeedWell, NoFalseGap
    <3> QED BY <2>2, <3>1, <3>2, <3>3 DEF FeedWell
  <2> QED BY <2>5, <2>6, <2>7, <2>8
<1> QED BY <1>1, <1>2, <1>3, <1>4 DEF HandlerStep

\* A worker answers a subscription or a renewal.
LEMMA AnswerKeeps ==
  ASSUME IInv, NEW w \in Workers, NEW s, NEW to \in {"linger", "idle"}, AnswerCall(w, s, to),
         UNCHANGED <<svcMutex, cpMutex, count, alloc, sid, key, taken, op, msg, cur>>,
         \A x \in Workers : x # w => req'[x] = req[x],
         subs' \subseteq subs,
         \/ pc[w] = "added" /\ s = req[w].sid
         \/ pc[w] \in {"request", "renew"} /\ req[w].kind = "renew" /\ s \in {0, req[w].sid}
  PROVE  MutexHeld' /\ CallsWell' /\ PostsWell' /\ FeedWell'
<1>a. /\ DeviceType /\ PointType /\ ThreadType /\ LocalType
      /\ MutexHeld /\ CallsWell /\ PostsWell /\ FeedWell
      /\ alloc \in Nat /\ \A x \in 0..alloc : x = 0 \/ x \in Sids
  BY Parts
<1> USE ThreadsAre, <1>a
<1>1. /\ pc'[w] = to
      /\ \A t \in Callers : IF peer[t] = w THEN pc'[t] = "done" /\ peer'[t] = None
                                           ELSE pc'[t] = pc[t] /\ peer'[t] = peer[t]
      /\ \A x \in Workers \cup Notifiers : x # w => pc'[x] = pc[x] /\ peer'[x] = peer[x]
  BY WorkerAnswers DEF AnswerCall, WorkerPcs
<1>2. \A t \in Callers : ans'[t] = IF peer[t] = w THEN s ELSE ans[t]
  BY DEF AnswerCall
<1>3. \A t \in Callers : peer[t] = w =>
        /\ pc[t] = "wait" /\ op[t] = req[w].kind
        /\ op[t] # "subscribe" => req[w].sid = sid
  BY DEF CallsWell, WaitsWell, ThreadType
<1>4. MutexHeld'
  BY <1>1, <1>3 DEF MutexHeld, CallingPcs, SendingPcs
<1>5. CallsWell'
  <2>1. ASSUME NEW t \in Callers, ans'[t] # 0 PROVE pc'[t] = "done"
    BY <1>1, <1>2, <2>1 DEF CallsWell
  <2>2. ASSUME NEW t \in Callers, pc'[t] \in CallingPcs, op'[t] = "subscribe" PROVE sid' = 0
    BY <1>1, <1>3, <2>2 DEF CallsWell, CallingPcs
  <2>3. ASSUME NEW t \in Callers, pc'[t] = "wait" PROVE WaitsWell(t, peer[t])' /\ peer'[t] = peer[t]
    <3>1. peer[t] # w /\ pc[t] = "wait" /\ peer'[t] = peer[t]
      BY <1>1, <2>3
    <3>2. WaitsWell(t, peer[t]) /\ peer[t] \in Workers
      BY <3>1 DEF CallsWell, WaitsWell
    <3> QED BY <1>1, <3>1, <3>2 DEF WaitsWell
  <2>4. ASSUME NEW t \in Callers, op'[t] = "renew" PROVE ans'[t] \in {0, sid'}
    <3>1. CASE peer[t] = w
      <4>1. req[w].kind = "renew" /\ req[w].sid = sid
        BY <1>3, <2>4, <3>1
      <4>2. s \in {0, req[w].sid}
        BY <4>1
      <4> QED BY <1>2, <3>1, <4>1, <4>2
    <3>2. CASE peer[t] # w
      BY <1>2, <2>4, <3>2 DEF CallsWell
    <3> QED BY <3>1, <3>2
  <2>5. /\ \A h \in Handlers : op'[h] # "renew"
        /\ \A x \in Workers : pc'[x] = "renew" => req'[x].kind = "renew"
        /\ \A x \in Workers : pc'[x] = "added" => req'[x].kind = "subscribe" /\ req'[x].sid # 0
    BY <1>1 DEF CallsWell
  <2> QED BY <2>1, <2>2, <2>3, <2>4, <2>5 DEF CallsWell
<1>6. PostsWell'
  <2>1. \A h \in Handlers : pc'[h] = "idle" <=> pc[h] = "idle"
    BY <1>1, <1>3
  <2>2. \A n \in Notifiers : pc'[n] = pc[n] /\ peer'[n] = peer[n] /\ cur'[n] = cur[n]
    BY <1>1
  <2> QED BY <2>1, <2>2, PostsFrame
<1>7. FeedWell'
  <2>1. ASSUME NEW x \in Sids, Pending(x)' PROVE Pending(x)
    <3>1. PICK t \in Callers :
            /\ op'[t] = "subscribe"
            /\ \/ pc'[t] = "done" /\ ans'[t] = x
               \/ pc'[t] = "wait" /\ pc'[peer'[t]] = "added" /\ req'[peer'[t]].sid = x
      BY <2>1 DEF Pending
    <3>2. CASE peer[t] = w
      <4>1. op[t] = "subscribe" /\ pc[t] = "wait" /\ pc'[t] = "done" /\ ans'[t] = s
        BY <1>1, <1>2, <1>3, <3>1, <3>2
      <4>2. pc[w] = "added" /\ req[w].sid = x
        BY <1>3, <3>1, <3>2, <4>1
      <4> QED BY <3>2, <4>1, <4>2 DEF Pending
    <3>3. CASE peer[t] # w
      <4>1. op[t] = "subscribe" /\ pc'[t] = pc[t] /\ peer'[t] = peer[t] /\ ans'[t] = ans[t]
        BY <1>1, <1>2, <3>1, <3>3
      <4>2. pc[t] = "wait" => pc'[peer[t]] = pc[peer[t]] /\ req'[peer[t]] = req[peer[t]]
        BY <1>1, <3>3 DEF CallsWell, WaitsWell
      <4> QED BY <3>1, <4>1, <4>2 DEF Pending
    <3> QED BY <3>2, <3>3
  <2>2. \A h \in Handlers : pc'[h] = pc[h] \/ (pc[h] \in CallingPcs /\ pc'[h] \in CallingPcs)
    BY <1>1, <1>3 DEF CallingPcs
  <2>3. \A n \in Notifiers : pc'[n] = pc[n] /\ cur'[n] = cur[n]
    BY <1>1
  <2> QED BY <2>1, <2>2, <2>3, FeedFrame
<1> QED BY <1>4, <1>5, <1>6, <1>7

\* A worker moves on with the request it serves, and changes nothing else.
LEMMA WorkerMoves ==
  ASSUME IInv, NEW w \in Workers, pc[w] = "request", pc'[w] \in {"renew", "stuck"},
         pc'[w] = "renew" => req[w].kind = "renew",
         \A x \in Threads : x # w => pc'[x] = pc[x],
         UNCHANGED <<cpMutex, subs, count, alloc, sid, key, taken, op, ans, req, peer, msg, cur>>
  PROVE  CallsWell' /\ PostsWell' /\ FeedWell'
<1>a. /\ DeviceType /\ PointType /\ ThreadType /\ LocalType
      /\ MutexHeld /\ CallsWell /\ PostsWell /\ FeedWell
      /\ alloc \in Nat /\ \A x \in 0..alloc : x = 0 \/ x \in Sids
  BY Parts
<1> USE ThreadsAre, <1>a
<1>1. CallsWell'
  <2>1. ASSUME NEW t \in Callers, pc'[t] = "wait" PROVE WaitsWell(t, peer[t])'
    <3>1. WaitsWell(t, peer[t])
      BY <2>1 DEF CallsWell
    <3> QED BY <3>1 DEF WaitsWell
  <2>2. \A x \in Workers : /\ pc'[x] = "renew" => req'[x].kind = "renew"
                           /\ pc'[x] = "added" => req'[x].kind = "subscribe" /\ req'[x].sid # 0
    BY DEF CallsWell
  <2> QED BY <2>1, <2>2 DEF CallsWell
<1>2. PostsWell'
  BY PostsFrame
<1>3. FeedWell'
  <2>1. ASSUME NEW s \in Sids, Pending(s)' PROVE Pending(s)
    <3>1. \A t \in Callers : pc[t] = "wait" => peer[t] \in Workers
      BY DEF CallsWell, WaitsWell
    <3> QED BY <2>1, <3>1 DEF Pending
  <2> QED BY <2>1, FeedFrame
<1> QED BY <1>1, <1>2, <1>3

LEMMA WorkerKeeps ==
  ASSUME IInv, NEW w \in Workers, WorkerStep(w)
  PROVE  MutexHeld' /\ CallsWell' /\ PostsWell' /\ FeedWell'
<1>a. /\ DeviceType /\ PointType /\ ThreadType /\ LocalType
      /\ MutexHeld /\ CallsWell /\ PostsWell /\ FeedWell
      /\ alloc \in Nat /\ \A x \in 0..alloc : x = 0 \/ x \in Sids
  BY Parts
<1> USE ThreadsAre, <1>a DEF device, cp, call, work
<1>1. CASE AddSubscriber(w)
  <2>1. /\ pc[w] = "request" /\ pc'[w] = "added" /\ req[w].kind = "subscribe"
        /\ \A x \in Threads : x # w => pc'[x] = pc[x]
        /\ alloc' = alloc + 1 /\ alloc + 1 \in Sids /\ subs' = subs \cup {alloc + 1}
    BY <1>1, GotoMoves, ValueAssumption DEF AddSubscriber, WorkerPcs, DeviceType, Sids
  <2>2. UNCHANGED <<svcMutex, cpMutex, count, sid, key, taken, op, ans, peer, msg, cur>>
    BY <1>1 DEF AddSubscriber
  <2>3. /\ req'[w].sid = alloc + 1 /\ req'[w].kind = req[w].kind
        /\ \A x \in Workers : x # w => req'[x] = req[x]
    BY <1>1 DEF AddSubscriber, LocalType
  <2>4. MutexHeld'
    BY <2>1, <2>2, MutexFrame
  <2>5. CallsWell'
    <3>1. ASSUME NEW t \in Callers, pc'[t] = "wait" PROVE WaitsWell(t, peer[t])'
      <4>1. WaitsWell(t, peer[t])
        BY <2>1, <3>1 DEF CallsWell
      <4> QED BY <2>1, <2>2, <2>3, <4>1 DEF WaitsWell
    <3>2. \A x \in Workers : /\ pc'[x] = "renew" => req'[x].kind = "renew"
                             /\ pc'[x] = "added" => req'[x].kind = "subscribe" /\ req'[x].sid # 0
      BY <2>1, <2>3 DEF CallsWell
    <3> QED BY <2>1, <2>2, <3>1, <3>2 DEF CallsWell
  <2>6. PostsWell'
    <3>1. \A h \in Handlers : msg[h].sid \in subs' => msg[h].sid \in subs
      BY <2>1 DEF LocalType
    <3> QED BY <2>1, <2>2, <3>1, PostsFrame
  <2>7. FeedWell'
    <3>1. \A s \in Sids : s > alloc' => s > alloc /\ taken[s] = 0 /\ count[s] = 0
      BY <2>1 DEF FeedWell, Sids
    <3>2. Untouched(alloc + 1)
      <4>1. alloc + 1 > alloc
        OBVIOUS
      <4>2. \A h \in Handlers : msg[h].sid # alloc + 1
        BY DEF LocalType
      <4>3. \A n \in Notifiers : cur[n] # alloc + 1
        BY DEF LocalType
      <4> QED BY <2>1, <4>1, <4>2, <4>3 DEF FeedWell, Untouched
    <3>3. ASSUME NEW s \in Sids, Pending(s)' PROVE Untouched(s)
      <4>1. PICK t \in Callers :
              /\ op'[t] = "subscribe"
              /\ \/ pc'[t] = "done" /\ ans'[t] = s
                 \/ pc'[t] = "wait" /\ pc'[peer'[t]] = "added" /\ req'[peer'[t]].sid = s
        BY <3>3 DEF Pending
      <4>2. CASE pc'[t] = "wait" /\ peer[t] = w
        BY <2>2, <2>3, <3>2, <4>1, <4>2
      <4>3. CASE pc'[t] # "wait" \/ peer[t] # w
        <5>1. pc[t] = "wait" => peer[t] \in Workers
          BY DEF CallsWell, WaitsWell
        <5>2. Pending(s)
          BY <2>1, <2>2, <2>3, <4>1, <4>3, <5>1 DEF Pending
        <5> QED BY <5>2 DEF FeedWell
      <4> QED BY <4>2, <4>3
    <3>4. ASSUME NEW s \in Sids, Pending(s)' PROVE Untouched(s)'
      BY <2>1, <2>2, <3>3, <3>4 DEF Untouched
    <3>5. ASSUME sid # 0 PROVE InStep(sid)'
      <4>1. sid \in subs' => sid \in subs
        BY <2>1 DEF PointType
      <4> QED BY <2>1, <2>2, <3>5, <4>1 DEF FeedWell, InStep
    <3>6. NoFalseGap'
      BY <2>1, <2>2 DEF FeedWell, NoFalseGap
    <3> QED BY <2>2, <3>1, <3>4, <3>5, <3>6 DEF FeedWell
  <2> QED BY <2>4, <2>5, <2>6, <2>7
<1>2. CASE AnswerSubscribe(w)
  BY <1>2, AnswerKeeps DEF AnswerSubscribe
<1>3. CASE StartNotifyAll(w)
  <2>1. PICK n \in Notifiers : pc[n] = "idle" /\ pc' = [pc EXCEPT ![w] = "idle", ![n] = "lock"]
    BY <1>3 DEF StartNotifyAll
  <2>2. /\ pc[w] = "linger" /\ pc'[w] = "idle" /\ pc'[n] = "lock"
        /\ \A x \in Threads : x # w /\ x # n => pc'[x] = pc[x]
    BY <1>3, <2>1 DEF StartNotifyAll, ThreadType, PcType
  <2>3. /\ UNCHANGED <<svcMutex, cpMutex, subs, count, alloc, sid, key, taken, op, ans, peer, msg, cur>>
        /\ \A x \in Workers : x # w => req'[x] = req[x]
    BY <1>3 DEF StartNotifyAll, LocalType
  <2>4. MutexHeld'
    BY <2>1, <2>2, <2>3, MutexFrame DEF SendingPcs
  <2>5. CallsWell'
    <3>1. ASSUME NEW t \in Callers, pc'[t] = "wait" PROVE WaitsWell(t, peer[t])'
      <4>1. WaitsWell(t, peer[t])
        BY <2>2, <3>1 DEF CallsWell
      <4> QED BY <2>2, <2>3, <4>1 DEF WaitsWell
    <3>2. \A x \in Workers : /\ pc'[x] = "renew" => req'[x].kind = "renew"
                             /\ pc'[x] = "added" => req'[x].kind = "subscribe" /\ req'[x].sid # 0
      BY <2>2, <2>3 DEF CallsWell
    <3> QED BY <2>2, <2>3, <3>1, <3>2 DEF CallsWell
  <2>6. PostsWell'
    BY <2>1, <2>2, <2>3, PostsFrame
  <2>7. FeedWell'
    <3>1. ASSUME NEW s \in Sids, Pending(s)' PROVE Pending(s)
      <4>1. \A t \in Callers : pc[t] = "wait" => peer[t] \in Workers
        BY DEF CallsWell, WaitsWell
      <4> QED BY <2>2, <2>3, <3>1, <4>1 DEF Pending
    <3>2. \A x \in Notifiers : pc'[x] = pc[x] \/ (pc[x] = "idle" /\ pc'[x] = "lock")
      BY <2>1, <2>2
    <3>3. \A h \in Handlers : pc'[h] = pc[h]
      BY <2>2
    <3> QED BY <2>3, <3>1, <3>2, <3>3, FeedFrame
  <2> QED BY <2>4, <2>5, <2>6, <2>7
<1>4. CASE RenewLookup(w) /\ req[w].sid \in subs
  <2>1. /\ pc[w] = "request" /\ pc'[w] = "renew" /\ req[w].kind = "renew"
        /\ \A x \in Threads : x # w => pc'[x] = pc[x]
    BY <1>4, GotoMoves DEF RenewLookup, WorkerPcs
  <2>2. UNCHANGED <<svcMutex, cpMutex, subs, count, alloc, sid, key, taken, op, ans, req, peer, msg, cur>>
    BY <1>4 DEF RenewLookup
  <2>3. MutexHeld'
    BY <2>1, <2>2, MutexFrame
  <2> QED BY <2>1, <2>2, <2>3, WorkerMoves
<1>5. CASE RenewLookup(w) /\ req[w].sid \notin subs
  <2>1. AnswerCall(w, 0, "idle") /\ \A x \in Workers : x # w => req'[x] = req[x]
    BY <1>5 DEF RenewLookup, LocalType
  <2> QED BY <1>5, <2>1, AnswerKeeps DEF RenewLookup
<1>6. CASE Renew(w)
  <2>1. PICK s \in {0, req[w].sid} : AnswerCall(w, s, "idle")
    BY <1>6 DEF Renew
  <2>2. /\ pc[w] = "renew" /\ req[w].kind = "renew" /\ subs' \subseteq subs
        /\ \A x \in Workers : x # w => req'[x] = req[x]
    BY <1>6 DEF Renew, LocalType, CallsWell
  <2>3. UNCHANGED <<svcMutex, cpMutex, count, alloc, sid, key, taken, op, msg, cur>>
    BY <1>6 DEF Renew
  <2> QED BY <2>1, <2>2, <2>3, AnswerKeeps
<1>7. CASE UnsubscribeLock(w)
  <2>1. /\ pc[w] = "request" /\ pc'[w] = "stuck" /\ svcMutex = None
        /\ \A x \in Threads : x # w => pc'[x] = pc[x]
    BY <1>7, GotoMoves DEF UnsubscribeLock, WorkerPcs
  <2>2. UNCHANGED <<cpMutex, subs, count, alloc, sid, key, taken, op, ans, req, peer, msg, cur>>
    BY <1>7 DEF UnsubscribeLock
  <2>3. MutexHeld'
    BY <2>1, <2>2 DEF MutexHeld
  <2> QED BY <2>1, <2>2, <2>3, WorkerMoves
<1> QED BY <1>1, <1>2, <1>3, <1>4, <1>5, <1>6, <1>7 DEF WorkerStep

LEMMA NotifierKeeps ==
  ASSUME IInv, NEW n \in Notifiers, NotifierStep(n)
  PROVE  MutexHeld' /\ CallsWell' /\ PostsWell' /\ FeedWell'
<1>a. /\ DeviceType /\ PointType /\ ThreadType /\ LocalType
      /\ MutexHeld /\ CallsWell /\ PostsWell /\ FeedWell
      /\ alloc \in Nat /\ \A x \in 0..alloc : x = 0 \/ x \in Sids
  BY Parts
<1> USE ThreadsAre, <1>a DEF device, cp, call, work
<1>0. UNCHANGED <<cpMutex, sid, key, taken, op, ans, req, alloc>>
  BY DEF NotifierStep, NotifyLock, NotifyPost, NotifyRefused, NotifyTimesOut, NotifyDone, NotifyEnd
<1>b. \A m \in Notifiers : pc[n] \in SendingPcs /\ pc[m] \in SendingPcs => m = n
  BY DEF MutexHeld
<1>1. CASE NotifyLock(n)
  <2>1. /\ pc[n] = "lock" /\ pc'[n] = "next" /\ svcMutex = None /\ svcMutex' = n
        /\ \A x \in Threads : x # n => pc'[x] = pc[x]
    BY <1>1, GotoMoves DEF NotifyLock, NotifierPcs
  <2>2. UNCHANGED <<count, peer, msg, cur>> /\ subs' \subseteq subs
    BY <1>1 DEF NotifyLock
  <2>3. MutexHeld'
    BY <1>0, <2>1 DEF MutexHeld
  <2>4. CallsWell'
    BY <1>0, <2>1, <2>2, CallsFrame
  <2>5. PostsWell'
    BY <2>1, <2>2, PostsFrame
  <2>6. \A s \in Sids : Pending(s)' => Pending(s)
    BY <1>0, <2>1, <2>2 DEF Pending, CallsWell, WaitsWell
  <2>7. FeedWell'
    BY <1>0, <2>1, <2>2, <2>6, FeedFrame
  <2> QED BY <2>3, <2>4, <2>5, <2>7
<1>2. CASE NotifyPost(n)
  <2>1. PICK s \in subs, h \in Handlers :
          /\ pc[h] = "idle"
          /\ cur' = [cur EXCEPT ![n] = s]
          /\ msg' = [msg EXCEPT ![h] = [sid |-> s, seq |-> count[s], val |-> value]]
          /\ peer' = [peer EXCEPT ![n] = h]
          /\ pc' = [pc EXCEPT ![n] = "wait", ![h] = "received"]
    BY <1>2 DEF NotifyPost
  <2>2. /\ pc[n] = "next" /\ pc'[n] = "wait" /\ pc'[h] = "received" /\ peer'[n] = h
        /\ \A x \in Threads : x # n => peer'[x] = peer[x]
        /\ \A x \in Threads : x # n /\ x # h => pc'[x] = pc[x]
        /\ UNCHANGED <<svcMutex, count, subs>>
    BY <1>2, <2>1 DEF NotifyPost, ThreadType, PcType
  <2>3. /\ cur'[n] = s /\ msg'[h] = [sid |-> s, seq |-> count[s], val |-> value]
        /\ \A m \in Notifiers : m # n => cur'[m] = cur[m]
        /\ \A g \in Handlers : g # h => msg'[g] = msg[g]
    BY <2>1 DEF LocalType
  <2>4. s \in Sids /\ s # 0 /\ msg[h].sid = 0
    BY <2>1 DEF DeviceType, PostsWell
  <2>5. \A m \in Notifiers : pc[m] \notin {"wait", "notified"}
    BY <1>b, <2>2 DEF SendingPcs
  <2>6. \A g \in Handlers : msg[g].sid \notin subs
    BY <2>5 DEF PostsWell
  <2>7. MutexHeld'
    BY <1>0, <2>1, <2>2 DEF MutexHeld, CallingPcs, SendingPcs
  <2>8. CallsWell'
    <3>1. \A t \in Callers : pc'[t] = pc[t] \/ (pc[t] \notin CallingPcs /\ pc'[t] \notin CallingPcs)
      BY <2>1, <2>2 DEF CallingPcs
    <3> QED BY <1>0, <2>2, <3>1, CallsFrame
  <2>9. PostsWell'
    <3>1. \A g \in Handlers : pc'[g] = "idle" <=> msg'[g].sid = 0
      BY <2>2, <2>3, <2>4 DEF PostsWell
    <3>2. \A m \in Notifiers : pc'[m] \in {"wait", "notified"} => m = n
      BY <2>2, <2>5
    <3>3. \A g \in Handlers : msg'[g].sid \in subs' => g = h
      BY <2>2, <2>3, <2>6
    <3>4. \A f, g \in Handlers : msg'[f].sid = msg'[g].sid /\ msg'[f].sid # 0 => f = g
      BY <2>3, <2>6 DEF PostsWell
    <3> QED BY <2>2, <2>3, <2>4, <3>1, <3>2, <3>3, <3>4 DEF PostsWell
  <2>10. FeedWell'
    <3>1. ASSUME NEW x \in Sids, Pending(x)' PROVE Untouched(x)'
      <4>1. \A t \in Callers : pc'[t] \in {"wait", "done"} => pc'[t] = pc[t] /\ peer'[t] = peer[t]
        BY <2>2
      <4>2. Pending(x)
        BY <1>0, <2>2, <3>1, <4>1 DEF Pending, CallsWell, WaitsWell
      <4>3. Untouched(x)
        BY <4>2 DEF FeedWell
      <4>4. \A g \in Handlers : msg'[g].sid = x => pc'[g] = "received" /\ msg'[g].seq = 0
        BY <2>2, <2>3, <4>3 DEF Untouched
      <4>5. \A m \in Notifiers : pc'[m] # "notified"
        BY <2>2, <2>5
      <4> QED BY <1>0, <2>2, <4>3, <4>4, <4>5 DEF Untouched
    <3>2. ASSUME sid # 0 PROVE InStep(sid)'
      <4>1. InStep(sid)
        BY <3>2 DEF FeedWell
      <4>2. sid \in subs => taken[sid] = count[sid]
        BY <2>5, <4>1 DEF InStep
      <4>3. \A g \in Handlers : g # h => pc'[g] = pc[g]
        BY <2>2
      <4>4. \A m \in Notifiers : pc'[m] # "notified"
        BY <2>2, <2>5
      <4> QED BY <1>0, <2>2, <2>3, <4>1, <4>2, <4>3, <4>4 DEF InStep
    <3>3. NoFalseGap'
      BY <2>2, <2>3 DEF FeedWell, NoFalseGap
    <3> QED BY <1>0, <2>2, <3>1, <3>2, <3>3 DEF FeedWell
  <2> QED BY <2>7, <2>8, <2>9, <2>10
<1>3. CASE NotifyRefused(n)
  <2>1. UNCHANGED <<svcMutex, count, pc, peer, msg, cur>> /\ subs' \subseteq subs
    BY <1>3 DEF NotifyRefused, Drop
  <2>2. MutexHeld'
    BY <1>0, <2>1, MutexFrame
  <2>3. CallsWell'
    BY <1>0, <2>1, CallsFrame
  <2>4. PostsWell'
    BY <2>1, PostsFrame
  <2>5. \A s \in Sids : Pending(s)' => Pending(s)
    BY <1>0, <2>1 DEF Pending
  <2>6. FeedWell'
    BY <1>0, <2>1, <2>5, FeedFrame
  <2> QED BY <2>2, <2>3, <2>4, <2>6
<1>4. CASE NotifyTimesOut(n)
  <2>1. /\ pc[n] = "wait" /\ pc'[n] = "next" /\ peer'[n] = None
        /\ \A x \in Threads : x # n => pc'[x] = pc[x] /\ peer'[x] = peer[x]
    BY <1>4, GiveUpMoves DEF NotifyTimesOut, NotifierPcs
  <2>2. /\ UNCHANGED <<svcMutex, count, msg>> /\ subs' = subs \ {cur[n]} /\ cur'[n] = 0
        /\ \A m \in Notifiers : m # n => cur'[m] = cur[m]
    BY <1>4 DEF NotifyTimesOut, Drop, LocalType
  <2>3. MutexHeld'
    BY <1>0, <2>1, <2>2, MutexFrame DEF SendingPcs
  <2>4. CallsWell'
    BY <1>0, <2>1, CallsFrame
  <2>5. PostsWell'
    <3>1. ASSUME NEW g \in Handlers, msg'[g].sid \in subs'
          PROVE  \E m \in Notifiers : pc'[m] = "wait" /\ peer'[m] = g
      <4>1. msg[g].sid \in subs /\ msg[g].sid # cur[n]
        BY <2>2, <3>1
      <4>2. PICK m \in Notifiers : pc[m] = "wait" /\ peer[m] = g
        BY <4>1 DEF PostsWell
      <4>3. m # n
        BY <4>1, <4>2 DEF PostsWell
      <4> QED BY <2>1, <4>2, <4>3
    <3>2. \A m \in Notifiers :
            pc'[m] = "wait" => peer'[m] \in Handlers /\ msg'[peer'[m]].sid = cur'[m]
      BY <2>1, <2>2 DEF PostsWell
    <3>3. \A m \in Notifiers : pc'[m] \in {"wait", "notified"} => cur'[m] # 0
      BY <2>1, <2>2 DEF PostsWell
    <3> QED BY <2>1, <2>2, <3>1, <3>2, <3>3 DEF PostsWell
  <2>6. FeedWell'
    <3>1. ASSUME NEW x \in Sids, Pending(x)' PROVE Untouched(x)'
      <4>1. Untouched(x)
        BY <1>0, <2>1, <3>1 DEF Pending, CallsWell, WaitsWell, FeedWell
      <4> QED BY <1>0, <2>1, <2>2, <4>1 DEF Untouched
    <3>2. ASSUME sid # 0 PROVE InStep(sid)'
      <4>1. InStep(sid) /\ \A g \in Handlers : pc'[g] = pc[g]
        BY <2>1, <3>2 DEF FeedWell
      <4>2. \A m \in Notifiers : pc'[m] = "notified" /\ cur'[m] = sid => pc[m] = "notified" /\ cur[m] = sid
        BY <2>1, <2>2
      <4>3. ASSUME sid \in subs', \A m \in Notifiers : pc'[m] \in {"wait", "notified"} => cur'[m] # sid
            PROVE  \A m \in Notifiers : pc[m] \in {"wait", "notified"} => cur[m] # sid
        BY <2>1, <2>2, <4>3
      <4> QED BY <1>0, <2>2, <4>1, <4>2, <4>3 DEF InStep
    <3>3. NoFalseGap'
      BY <2>1, <2>2 DEF FeedWell, NoFalseGap
    <3> QED BY <1>0, <2>2, <3>1, <3>2, <3>3 DEF FeedWell
  <2> QED BY <2>3, <2>4, <2>5, <2>6
<1>5. CASE NotifyDone(n)
  <2>1. /\ pc[n] = "notified" /\ pc'[n] = "next"
        /\ \A x \in Threads : x # n => pc'[x] = pc[x]
    BY <1>5, GotoMoves DEF NotifyDone, NotifierPcs
  <2>2. /\ UNCHANGED <<svcMutex, subs, peer, msg>> /\ cur'[n] = 0 /\ cur[n] \in subs
        /\ \A m \in Notifiers : m # n => cur'[m] = cur[m]
        /\ cur[n] \in Sids /\ cur[n] <= alloc
        /\ count' = [count EXCEPT ![cur[n]] = Increment(count[cur[n]])]
    BY <1>5 DEF NotifyDone, LocalType, DeviceType
  <2>3. MutexHeld'
    BY <1>0, <2>1, <2>2, MutexFrame DEF SendingPcs
  <2>4. CallsWell'
    BY <1>0, <2>1, <2>2, CallsFrame
  <2>5. \A m \in Notifiers : pc[m] # "wait" /\ pc'[m] \notin {"wait", "notified"}
    BY <1>b, <2>1 DEF SendingPcs
  <2>6. \A g \in Handlers : msg[g].sid \notin subs
    BY <2>5 DEF PostsWell
  <2>7. PostsWell'
    BY <2>1, <2>2, <2>5, <2>6 DEF PostsWell
  <2>8. FeedWell'
    <3>1. ASSUME NEW x \in Sids, Pending(x)' PROVE Untouched(x)'
      <4>1. Untouched(x)
        BY <1>0, <2>1, <2>2, <3>1 DEF Pending, CallsWell, WaitsWell, FeedWell
      <4>2. count'[x] = count[x]
        BY <2>1, <2>2, <4>1 DEF Untouched, DeviceType
      <4> QED BY <1>0, <2>1, <2>2, <2>5, <4>1, <4>2 DEF Untouched
    <3>2. ASSUME sid # 0 PROVE InStep(sid)'
      <4>1. InStep(sid) /\ sid \in Sids /\ \A g \in Handlers : pc'[g] = pc[g]
        BY <2>1, <3>2 DEF FeedWell, PointType
      <4>2. CASE cur[n] = sid
        <5>1. taken[sid] = count[sid] + 1 /\ taken[sid] # 0 /\ count[sid] \in Nat
          BY <2>1, <4>1, <4>2 DEF InStep, DeviceType
        <5>2. taken[sid] <= MaxSeq + 1 /\ MaxSeq \in Nat /\ MaxCount \in Nat /\ MaxSeq < MaxCount
          BY <4>1, <5>1, ValueAssumption DEF InStep
        <5>3. count'[sid] = taken[sid]
          BY <2>2, <4>2, <5>1, <5>2 DEF Increment, DeviceType
        <5>4. \A g \in Handlers : msg'[g].sid # sid
          BY <2>2, <2>6, <4>2
        <5> QED BY <1>0, <2>5, <4>1, <5>3, <5>4 DEF InStep
      <4>3. CASE cur[n] # sid
        <5>1. count'[sid] = count[sid]
          BY <2>2, <4>1, <4>3 DEF DeviceType
        <5>2. ASSUME \A m \in Notifiers : pc'[m] \in {"wait", "notified"} => cur'[m] # sid
              PROVE  \A m \in Notifiers : pc[m] \in {"wait", "notified"} => cur[m] # sid
          BY <2>1, <2>2, <4>3, <5>2
        <5> QED BY <1>0, <2>2, <2>5, <4>1, <5>1, <5>2 DEF InStep
      <4> QED BY <4>2, <4>3
    <3>3. NoFalseGap'
      BY <2>1, <2>2 DEF FeedWell, NoFalseGap
    <3>4. \A s \in Sids : s > alloc => count'[s] = 0
      BY <2>2 DEF FeedWell, DeviceType, Sids
    <3> QED BY <1>0, <3>1, <3>2, <3>3, <3>4 DEF FeedWell
  <2> QED BY <2>3, <2>4, <2>7, <2>8
<1>6. CASE NotifyEnd(n)
  <2>1. /\ pc[n] = "next" /\ pc'[n] = "idle"
        /\ \A x \in Threads : x # n => pc'[x] = pc[x]
    BY <1>6, GotoMoves DEF NotifyEnd, NotifierPcs
  <2>2. UNCHANGED <<count, subs, peer, msg, cur>>
    BY <1>6 DEF NotifyEnd
  <2>3. MutexHeld'
    BY <1>0, <1>b, <2>1 DEF MutexHeld, SendingPcs
  <2>4. CallsWell'
    BY <1>0, <2>1, <2>2, CallsFrame
  <2>5. PostsWell'
    BY <2>1, <2>2, PostsFrame
  <2>6. \A s \in Sids : Pending(s)' => Pending(s)
    BY <1>0, <2>1, <2>2 DEF Pending, CallsWell, WaitsWell
  <2>7. FeedWell'
    BY <1>0, <2>1, <2>2, <2>6, FeedFrame
  <2> QED BY <2>3, <2>4, <2>5, <2>7
<1> QED BY <1>1, <1>2, <1>3, <1>4, <1>5, <1>6 DEF NotifierStep

-----------------------------------------------------------------------------
(* The invariant holds throughout.                                         *)

LEMMA InitIInv == Init => IInv
<1> SUFFICES ASSUME Init PROVE IInv
  OBVIOUS
<1> USE ThreadsAre DEF Init
<1>1. TypeOK
  BY InitType
<1>2. \A t \in Threads : pc[t] = "idle"
  OBVIOUS
<1>3. MutexHeld /\ CallsWell
  BY <1>2 DEF MutexHeld, CallsWell, CallingPcs, SendingPcs
<1>4. PostsWell
  BY <1>2 DEF PostsWell, NoMessage
<1>5. FeedWell
  BY <1>2 DEF FeedWell, Pending, NoFalseGap
<1> QED BY <1>1, <1>3, <1>4, <1>5 DEF IInv

LEMMA NextIInv == IInv /\ [Next]_vars => IInv'
<1> SUFFICES ASSUME IInv, [Next]_vars PROVE IInv'
  OBVIOUS
<1>a. /\ DeviceType /\ PointType /\ ThreadType /\ LocalType
      /\ MutexHeld /\ CallsWell /\ PostsWell /\ FeedWell
      /\ alloc \in Nat /\ \A x \in 0..alloc : x = 0 \/ x \in Sids
  BY Parts
<1>b. TypeOK'
  BY NextType DEF IInv
<1> DEFINE Kept == MutexHeld' /\ CallsWell' /\ PostsWell' /\ FeedWell'
<1>1. CASE AppSubscribe \/ AppUnsubscribe \/ RenewalDue
  BY <1>1, BeginKeeps, <1>b DEF AppSubscribe, AppUnsubscribe, RenewalDue, Kinds, IInv
<1>2. ASSUME NEW n \in Notifiers, SetValue(n) PROVE Kept
  <2>1. /\ pc[n] = "idle" /\ pc'[n] = "lock"
        /\ \A x \in Threads : x # n => pc'[x] = pc[x]
    BY <1>2, <1>a, GotoMoves, ThreadsAre DEF SetValue, NotifierPcs
  <2>2. UNCHANGED <<svcMutex, cpMutex, subs, count, alloc, sid, key, taken, op, ans, req, peer, msg, cur>>
    BY <1>2 DEF SetValue, device, cp, call, work
  <2>3. \A s \in Sids : Pending(s)' => Pending(s)
    BY <1>a, <2>1, <2>2, ThreadsAre DEF Pending, CallsWell, WaitsWell
  <2>4. MutexHeld' /\ CallsWell'
    BY <1>a, <2>1, <2>2, ThreadsAre, MutexFrame, CallsFrame DEF SendingPcs
  <2>5. PostsWell' /\ FeedWell'
    BY <1>a, <2>1, <2>2, <2>3, ThreadsAre, PostsFrame, FeedFrame
  <2> QED BY <2>4, <2>5
<1>3. ASSUME UNCHANGED <<svcMutex, cpMutex, subs, count, alloc, cp, pc, peer, call, work>> PROVE Kept
  <2>1. UNCHANGED <<sid, key, taken, op, ans, req, msg, cur>>
    BY <1>3 DEF cp, call, work
  <2>2. \A s \in Sids : Pending(s)' => Pending(s)
    BY <1>3, <2>1 DEF Pending
  <2>3. MutexHeld' /\ CallsWell'
    BY <1>a, <1>3, <2>1, MutexFrame, CallsFrame
  <2>4. PostsWell' /\ FeedWell'
    BY <1>a, <1>3, <2>1, <2>2, PostsFrame, FeedFrame
  <2> QED BY <2>3, <2>4
<1>4. CASE UNCHANGED vars \/ (\E s \in Sids : LeaseEnds(s)) \/ \E t \in Workers \cup Notifiers : UseFreed(t)
  BY <1>3, <1>4, <1>b DEF vars, device, LeaseEnds, UseFreed, IInv
<1>5. CASE \/ \E t \in Callers : CallerStep(t)
           \/ \E h \in Handlers : HandlerStep(h)
           \/ \E w \in Workers : WorkerStep(w)
           \/ \E n \in Notifiers : SetValue(n) \/ NotifierStep(n)
  BY <1>2, <1>5, <1>b, CallerKeeps, HandlerKeeps, WorkerKeeps, NotifierKeeps DEF IInv
<1> QED BY <1>1, <1>4, <1>5 DEF Next, AtRest, Crashed

LEMMA Invariance == Spec => []IInv
BY InitIInv, NextIInv, PTL DEF Spec

\* While the device's counter of a subscription has not passed
\* CG_UPNP_EVENT_MAX_SEQ, no event of it is taken for a gap: neither lost and
\* late answers nor renewals and new subscriptions make the control point
\* unsubscribe.
THEOREM GapsAreReal == Spec => []NoFalseGap
<1>1. IInv => NoFalseGap
  BY DEF IInv, FeedWell
<1> QED BY <1>1, Invariance, PTL

-----------------------------------------------------------------------------
(* Eventing implements EventFeed.                                          *)

\* The steps that change no variable of EventFeed.
LEMMA FeedStutters ==
  ASSUME [Next]_vars,
         \A t \in Callers : ~CallDone(t), \A h \in Handlers : ~Accept(h),
         \A n \in Notifiers : ~NotifyDone(n)
  PROVE  UNCHANGED <<sid, count, taken>>
<1> USE DEF device, cp
<1>1. CASE AppSubscribe \/ AppUnsubscribe \/ RenewalDue
  BY <1>1 DEF AppSubscribe, AppUnsubscribe, RenewalDue, Begin
<1>2. ASSUME NEW t \in Callers, CallerStep(t) PROVE UNCHANGED <<sid, count, taken>>
  BY <1>2 DEF CallerStep, Request, Refused, TimesOut
<1>3. ASSUME NEW h \in Handlers, HandlerStep(h) PROVE UNCHANGED <<sid, count, taken>>
  BY <1>3 DEF HandlerStep, NotFound, Gap, Tell, AnswerNotify
<1>4. ASSUME NEW w \in Workers, WorkerStep(w) PROVE UNCHANGED <<sid, count, taken>>
  BY <1>4 DEF WorkerStep, AddSubscriber, AnswerSubscribe, StartNotifyAll, RenewLookup, Renew,
              UnsubscribeLock
<1>5. ASSUME NEW n \in Notifiers, NotifierStep(n) PROVE UNCHANGED <<sid, count, taken>>
  BY <1>5 DEF NotifierStep, NotifyLock, NotifyPost, NotifyRefused, NotifyTimesOut, NotifyEnd
<1>6. CASE \/ UNCHANGED vars
           \/ \E s \in Sids : LeaseEnds(s)
           \/ \E t \in Workers \cup Notifiers : UseFreed(t)
           \/ \E n \in Notifiers : SetValue(n)
  BY <1>6 DEF vars, LeaseEnds, UseFreed, SetValue
<1> QED BY <1>1, <1>2, <1>3, <1>4, <1>5, <1>6 DEF Next, AtRest, Crashed

LEMMA FeedStep == IInv /\ [Next]_vars => [Feed!Next]_(Feed!vars)
<1> SUFFICES ASSUME IInv, [Next]_vars PROVE [Feed!Next]_(Feed!vars)
  OBVIOUS
<1>a. /\ DeviceType /\ PointType /\ ThreadType /\ LocalType
      /\ MutexHeld /\ CallsWell /\ PostsWell /\ FeedWell
      /\ alloc \in Nat /\ \A x \in 0..alloc : x = 0 \/ x \in Sids
  BY Parts
<1> USE ThreadsAre, <1>a DEF device, cp, call, work
<1>1. ASSUME NEW t \in Callers, CallDone(t) PROVE [Feed!Next]_(Feed!vars)
  <2>1. /\ pc[t] = "done" /\ UNCHANGED <<count, taken>>
        /\ sid' = IF op[t] = "unsubscribe" THEN 0 ELSE ans[t]
    BY <1>1 DEF CallDone
  <2>2. CASE sid' = sid
    BY <2>1, <2>2 DEF Feed!vars
  <2>3. CASE sid' # sid /\ sid' = 0
    <3>1. Feed!Leave
      BY <2>1, <2>3 DEF Feed!Leave
    <3> QED BY <3>1 DEF Feed!Next
  <2>4. CASE sid' # sid /\ sid' # 0
    <3>1. op[t] # "renew" /\ op[t] # "unsubscribe" /\ sid' = ans[t]
      BY <2>1, <2>4 DEF CallsWell
    <3>2. op[t] = "subscribe" /\ sid' \in Sids
      BY <2>4, <3>1 DEF LocalType, Kinds
    <3>3. sid = 0 /\ Pending(sid')
      BY <2>1, <3>1, <3>2 DEF CallsWell, CallingPcs, Pending
    <3>4. count[sid'] = 0 /\ taken[sid'] = 0
      BY <3>2, <3>3 DEF FeedWell, Untouched
    <3>5. Feed!Subscribe(sid')
      BY <2>1, <3>3, <3>4 DEF Feed!Subscribe
    <3> QED BY <3>2, <3>5 DEF Feed!Next
  <2> QED BY <2>2, <2>3, <2>4
<1>2. ASSUME NEW h \in Handlers, Accept(h) PROVE [Feed!Next]_(Feed!vars)
  <2>1. /\ pc[h] = "received" /\ msg[h].sid = sid /\ UNCHANGED <<sid, count>>
        /\ taken' = [taken EXCEPT ![sid] = taken[sid] + 1]
    BY <1>2 DEF Accept
  <2>2. sid # 0
    BY <2>1 DEF PostsWell
  <2>3. count[sid] = taken[sid]
    BY <2>1, <2>2 DEF FeedWell, InStep
  <2>4. Feed!Take
    BY <2>1, <2>2, <2>3 DEF Feed!Take
  <2> QED BY <2>4 DEF Feed!Next
<1>3. ASSUME NEW n \in Notifiers, NotifyDone(n) PROVE [Feed!Next]_(Feed!vars)
  <2>1. /\ pc[n] = "notified" /\ cur[n] \in Sids /\ UNCHANGED <<sid, taken>>
        /\ count' = [count EXCEPT ![cur[n]] = Increment(count[cur[n]])]
    BY <1>3 DEF NotifyDone, DeviceType, Sids, LocalType
  <2>2. CASE cur[n] = sid
    <3>1. sid # 0 /\ taken[sid] = count[sid] + 1 /\ taken[sid] # 0
      BY <2>1, <2>2 DEF FeedWell, InStep, DeviceType, Sids
    <3>2. taken[sid] <= MaxSeq + 1 /\ MaxSeq \in Nat /\ MaxCount \in Nat /\ MaxSeq < MaxCount
      BY <3>1, ValueAssumption DEF FeedWell, InStep
    <3>3. Increment(count[sid]) = count[sid] + 1
      BY <2>1, <2>2, <3>1, <3>2 DEF Increment, DeviceType
    <3>4. Feed!Acknowledge
      BY <2>1, <2>2, <3>1, <3>3 DEF Feed!Acknowledge
    <3> QED BY <3>4 DEF Feed!Next
  <2>3. CASE cur[n] # sid
    <3>1. count' = [count EXCEPT ![cur[n]] = count'[cur[n]]]
      BY <2>1 DEF DeviceType
    <3>2. Feed!Miscount(cur[n])
      BY <2>1, <2>3, <3>1 DEF Feed!Miscount
    <3> QED BY <2>1, <3>2 DEF Feed!Next
  <2> QED BY <2>2, <2>3
<1> QED BY <1>1, <1>2, <1>3, FeedStutters DEF Feed!vars

\* Eventing implements EventFeed: the control point takes every event of the
\* subscription it holds once and in order, and the device counts exactly the
\* events that were taken, for any number of threads and of subscriptions.
THEOREM FeedImplemented == Spec => FeedKept
<1>1. Init => Feed!Init
  BY DEF Init, Feed!Init
<1> QED BY <1>1, FeedStep, Invariance, PTL DEF Spec, FeedKept, Feed!Spec

-----------------------------------------------------------------------------
(* The order of the values the event listener is told.                     *)

\* The event of a subscriber that is still in the list is the newest under way: the
\* notifier that waits for its answer holds the service mutex, and an event nobody waits
\* for any more belongs to a subscriber that has been dropped.
OrderInv ==
  /\ heard <= value
  /\ \A h \in Handlers : msg[h].val <= value
  /\ \A h \in Handlers : msg[h].sid \in subs =>
       heard <= msg[h].val /\ \A g \in Handlers : msg[g].val <= msg[h].val

LEMMA MessageTypes ==
  ASSUME IInv
  PROVE  /\ heard \in Nat /\ value \in Nat /\ subs \subseteq 1..alloc /\ alloc \in Nat
         /\ \A h \in Handlers : msg[h].val \in Nat /\ msg[h].sid \in 0..alloc
<1>1. DeviceType /\ PointType /\ LocalType /\ alloc \in Nat
  BY Parts
<1> QED BY <1>1 DEF DeviceType, PointType, LocalType

\* A step that tells and posts nothing keeps OrderInv.
LEMMA OrderFrame ==
  ASSUME IInv, OrderInv, UNCHANGED <<heard, msg>>, value' \in {value, value + 1},
         \A s \in 0..alloc : s \in subs' => s \in subs
  PROVE  OrderInv'
BY MessageTypes DEF OrderInv

LEMMA OrderStutters ==
  ASSUME IInv, [Next]_vars,
         \A h \in Handlers : ~Tell(h) /\ ~AnswerNotify(h),
         \A n \in Notifiers : ~NotifyPost(n)
  PROVE  /\ UNCHANGED <<heard, msg>> /\ value' \in {value, value + 1}
         /\ \A s \in 0..alloc : s \in subs' => s \in subs
<1> DEFINE Goal == /\ UNCHANGED <<heard, msg>> /\ value' \in {value, value + 1}
                   /\ \A s \in 0..alloc : s \in subs' => s \in subs
<1> USE DEF device, cp, call, work
<1>1. CASE AppSubscribe \/ AppUnsubscribe \/ RenewalDue
  BY <1>1 DEF AppSubscribe, AppUnsubscribe, RenewalDue, Begin
<1>2. ASSUME NEW t \in Callers, CallerStep(t) PROVE Goal
  BY <1>2 DEF CallerStep, Request, Refused, TimesOut, CallDone
<1>3. ASSUME NEW h \in Handlers, HandlerStep(h) PROVE Goal
  BY <1>3 DEF HandlerStep, NotFound, Gap, Accept
<1>4. ASSUME NEW w \in Workers, WorkerStep(w) PROVE Goal
  <2>1. CASE AddSubscriber(w)
    BY <2>1, MessageTypes DEF AddSubscriber
  <2> QED
    BY <1>4, <2>1 DEF WorkerStep, AnswerSubscribe, StartNotifyAll, RenewLookup, Renew,
                      UnsubscribeLock
<1>5. ASSUME NEW n \in Notifiers, NotifierStep(n) PROVE Goal
  BY <1>5 DEF NotifierStep, NotifyLock, NotifyRefused, NotifyTimesOut, NotifyDone, NotifyEnd,
              Drop
<1>6. CASE \/ UNCHANGED vars
           \/ \E s \in Sids : LeaseEnds(s)
           \/ \E t \in Workers \cup Notifiers : UseFreed(t)
           \/ \E n \in Notifiers : SetValue(n)
  BY <1>6 DEF vars, LeaseEnds, UseFreed, SetValue
<1> QED BY <1>1, <1>2, <1>3, <1>4, <1>5, <1>6 DEF Next, AtRest, Crashed

LEMMA TellOrder == ASSUME IInv, OrderInv, NEW h \in Handlers, Tell(h) PROVE OrderInv'
<1>1. heard' = msg[h].val /\ UNCHANGED <<msg, value, subs>>
  BY DEF Tell, device, work
<1> QED BY <1>1, MessageTypes DEF OrderInv

LEMMA AnswerOrder == ASSUME IInv, OrderInv, NEW h \in Handlers, AnswerNotify(h) PROVE OrderInv'
<1>1. msg' = [msg EXCEPT ![h] = NoMessage] /\ UNCHANGED <<heard, value, subs>>
  BY DEF AnswerNotify, device, cp
<1>2. DOMAIN msg = Handlers
  BY Parts DEF LocalType
<1>3. NoMessage.val = 0 /\ NoMessage.sid = 0
  BY DEF NoMessage
<1>4. \A g \in Handlers : msg'[g] = msg[g] \/ (msg'[g].val = 0 /\ msg'[g].sid = 0)
  BY <1>1, <1>2, <1>3
<1>5. 0 \notin subs
  BY MessageTypes
<1> QED BY <1>1, <1>4, <1>5, MessageTypes DEF OrderInv

\* The thread that posts holds the service mutex, so that no other event of a listed
\* subscriber is under way, and it posts the current value.
LEMMA PostOrder == ASSUME IInv, OrderInv, NEW n \in Notifiers, NotifyPost(n) PROVE OrderInv'
<1>1. PICK s \in subs, h \in Handlers :
        msg' = [msg EXCEPT ![h] = [sid |-> s, seq |-> count[s], val |-> value]]
  BY DEF NotifyPost
<1>2. pc[n] = "next" /\ UNCHANGED <<heard, value, subs>>
  BY DEF NotifyPost, device, cp
<1>3. \A g \in Handlers : msg[g].sid \notin subs
  <2>1. \A m \in Notifiers : pc[m] # "wait"
    BY <1>2, Parts, ThreadAssumption DEF MutexHeld, SendingPcs
  <2> QED BY <2>1, Parts DEF PostsWell
<1>4. DOMAIN msg = Handlers
  BY Parts DEF LocalType
<1>5. msg'[h].val = value /\ \A g \in Handlers \ {h} : msg'[g] = msg[g]
  BY <1>1, <1>4
<1> QED BY <1>2, <1>3, <1>5, MessageTypes DEF OrderInv

LEMMA NextOrder == IInv /\ OrderInv /\ [Next]_vars => OrderInv'
<1> SUFFICES ASSUME IInv, OrderInv, [Next]_vars PROVE OrderInv'
  OBVIOUS
<1>1. CASE \/ \E h \in Handlers : Tell(h) \/ AnswerNotify(h)
           \/ \E n \in Notifiers : NotifyPost(n)
  BY <1>1, TellOrder, AnswerOrder, PostOrder
<1>2. CASE ~(\/ \E h \in Handlers : Tell(h) \/ AnswerNotify(h)
             \/ \E n \in Notifiers : NotifyPost(n))
  BY <1>2, OrderStutters, OrderFrame
<1> QED BY <1>1, <1>2

\* The only step that may go back: an event of a dropped subscriber.
LEMMA HeardStep ==
  ASSUME IInv, OrderInv, [Next]_vars, heard' < heard
  PROVE  \E h \in Handlers : Tell(h) /\ msg[h].sid \notin subs
<1>0. heard' # heard
  BY MessageTypes
<1>1. PICK h \in Handlers : Tell(h)
  <2>1. ASSUME NEW h \in Handlers, AnswerNotify(h) PROVE UNCHANGED heard
    BY <2>1 DEF AnswerNotify, cp
  <2>2. ASSUME NEW n \in Notifiers, NotifyPost(n) PROVE UNCHANGED heard
    BY <2>2 DEF NotifyPost, cp
  <2> QED BY <1>0, <2>1, <2>2, OrderStutters
<1>2. msg[h].sid \in subs => heard <= heard'
  BY <1>1 DEF Tell, OrderInv
<1>3. heard' \in Nat /\ heard \in Nat
  BY <1>1, MessageTypes DEF Tell
<1> QED BY <1>1, <1>2, <1>3

\* The listener is told the values in the order in which the device has set them, except
\* by an event that outlives its subscription: for any number of handler and notifier
\* threads, although each event is handled in a thread of its own and told without a lock.
THEOREM ToldInOrder == Spec => HeardInOrder
<1>1. Init => OrderInv
  BY DEF Init, OrderInv, NoMessage
<1>2. IInv /\ OrderInv /\ [Next]_vars
      => [heard' < heard => \E h \in Handlers : Tell(h) /\ msg[h].sid \notin subs]_vars
  BY HeardStep
<1> QED BY <1>1, <1>2, NextOrder, Invariance, PTL DEF Spec, HeardInOrder
=============================================================================
