------------------------------ MODULE Eventing ------------------------------
(***************************************************************************)
(* Event subscriptions between one service of a device and one control     *)
(* point: SUBSCRIBE (new and renewal), UNSUBSCRIBE and NOTIFY requests,    *)
(* the threads on both sides that post and serve them, and the mutexes     *)
(* they hold meanwhile: the service mutex on the device, ctrlPoint->mutex  *)
(* on the control point.                                                   *)
(*                                                                         *)
(* A CgUpnpSubscriber is named by its SID, a number in 1..MaxSubs that is  *)
(* never used twice; the subscriber list is a set, in list order from the  *)
(* smallest to the largest (list operations are single steps).  A client   *)
(* of an HTTP connection has the serving thread as its peer until it gets  *)
(* the answer or gives up; a server whose client has given up goes on and  *)
(* its answer is dropped.                                                  *)
(***************************************************************************)
EXTENDS Integers

CONSTANTS
  App,            \* the control point's thread that calls subscribe and unsubscribe
  Renewer,        \* its expiration thread
  Handlers,       \* its HTTP client threads, which handle NOTIFY
  Workers,        \* HTTP client threads of the device
  Notifiers,      \* threads of the device that send notifications
  None,           \* no thread
  Unsubscribing,  \* whether the application ever unsubscribes
  MaxSeq,         \* CG_UPNP_EVENT_MAX_SEQ
  MaxCount,       \* CG_UPNP_NOTIFY_COUNT_MAX
  MaxSubs,        \* bound: subscribers ever created
  MaxValue        \* bound: changes of the evented state variable

Callers == {App, Renewer} \cup Handlers
Threads == Callers \cup Workers \cup Notifiers
Sids == 1..MaxSubs
Kinds == {"subscribe", "renew", "unsubscribe"}

ASSUME ThreadAssumption ==
  /\ None \notin Threads
  /\ App # Renewer /\ {App, Renewer} \cap Handlers = {}
  /\ Callers \cap Workers = {} /\ Callers \cap Notifiers = {} /\ Workers \cap Notifiers = {}

ASSUME ValueAssumption ==
  /\ Unsubscribing \in BOOLEAN
  /\ MaxSeq \in Nat \ {0} /\ MaxCount \in Nat /\ MaxSeq < MaxCount
  /\ MaxSubs \in Nat /\ MaxValue \in Nat

VARIABLES
  svcMutex,  \* service->mutex on the device: its owner or None
  subs,      \* service->subscriberList
  late,      \* subscribers whose timeout has passed
  count,     \* notifyCount of each subscriber
  alloc,     \* subscribers created so far
  value,     \* the evented state variable: how often it has been set
  cpMutex,   \* ctrlPoint->mutex
  sid,       \* service->subscriptionSid on the control point; 0: not subscribed
  key,       \* service->eventKey on the control point
  table,     \* the control point's copy of the state variable
  heard,     \* the last value the event listener was told
  taken,     \* history: events of each subscription the control point has accepted
  pc,        \* where each thread is
  peer,      \* the thread that serves a client's request
  op,        \* what a caller calls
  ans,       \* the SID in the answer a caller got; 0: none or an error status
  req,       \* the request a worker serves
  msg,       \* the notification a handler handles
  todo,      \* subArray of a notifier: subscribers still to be notified
  cur,       \* the subscriber a notifier is notifying
  fault      \* a freed subscriber was used

device == <<subs, late, count, alloc>>
cp == <<sid, key, table, heard, taken>>
call == <<op, ans>>
work == <<req, msg, todo, cur>>
vars == <<svcMutex, device, value, cpMutex, cp, pc, peer, call, work, fault>>

NoRequest == [kind |-> "subscribe", sid |-> 0]
NoMessage == [sid |-> 0, seq |-> 0, val |-> 0]

Init ==
  /\ svcMutex = None /\ cpMutex = None
  /\ subs = {} /\ late = {} /\ alloc = 0 /\ value = 0
  /\ count = [s \in Sids |-> 0] /\ taken = [s \in Sids |-> 0]
  /\ sid = 0 /\ key = 0 /\ table = 0 /\ heard = 0
  /\ pc = [t \in Threads |-> "idle"]
  /\ peer = [t \in Threads |-> None]
  /\ op = [t \in Callers |-> "subscribe"]
  /\ ans = [t \in Callers |-> 0]
  /\ req = [w \in Workers |-> NoRequest]
  /\ msg = [h \in Handlers |-> NoMessage]
  /\ todo = [n \in Notifiers |-> {}]
  /\ cur = [n \in Notifiers |-> 0]
  /\ fault = FALSE

Goto(t, l) == pc' = [pc EXCEPT ![t] = l]

\* The server t sends its answer: its client, if it still waits, goes to l.
Answer(t, to, l) ==
  /\ pc' = [x \in Threads |-> IF x = t THEN to ELSE IF peer[x] = t THEN l ELSE pc[x]]
  /\ peer' = [x \in Threads |-> IF peer[x] = t THEN None ELSE peer[x]]

-----------------------------------------------------------------------------
(* The control point: subscribe, resubscribe and unsubscribe, each called  *)
(* with the control point locked.                                          *)

Begin(t, kind) ==
  /\ pc[t] = "idle" /\ cpMutex = None
  /\ cpMutex' = t
  /\ op' = [op EXCEPT ![t] = kind]
  /\ Goto(t, "call")
  /\ UNCHANGED <<svcMutex, device, value, cp, peer, ans, work, fault>>

\* subscribe of a subscribed service is a renewal.
AppSubscribe == Begin(App, IF sid = 0 THEN "subscribe" ELSE "renew")

AppUnsubscribe == Unsubscribing /\ sid # 0 /\ Begin(App, "unsubscribe")

\* The expiration thread finds that the subscription is to be renewed.
RenewalDue == sid # 0 /\ Begin(Renewer, "renew")

ResetKey(t) == key' = IF op[t] = "subscribe" THEN 0 ELSE key

Request(t) ==
  /\ pc[t] = "call"
  /\ ResetKey(t)
  /\ \E w \in Workers :
       /\ pc[w] = "idle"
       /\ pc' = [pc EXCEPT ![t] = "wait", ![w] = "request"]
       /\ peer' = [peer EXCEPT ![t] = w]
       /\ req' = [req EXCEPT ![w] = [kind |-> op[t], sid |-> sid]]
  /\ UNCHANGED <<svcMutex, device, value, cpMutex, sid, table, heard, taken, call,
                 msg, todo, cur, fault>>

\* The connection cannot be opened.
Refused(t) ==
  /\ pc[t] = "call"
  /\ ResetKey(t)
  /\ ans' = [ans EXCEPT ![t] = 0]
  /\ Goto(t, "done")
  /\ UNCHANGED <<svcMutex, device, value, cpMutex, sid, table, heard, taken, peer, op,
                 work, fault>>

\* No answer within the timeout of a read.
TimesOut(t) ==
  /\ pc[t] = "wait"
  /\ peer' = [peer EXCEPT ![t] = None]
  /\ ans' = [ans EXCEPT ![t] = 0]
  /\ Goto(t, "done")
  /\ UNCHANGED <<svcMutex, device, value, cpMutex, cp, op, work, fault>>

\* After the unsubscription, the handler of an event out of sequence subscribes again.
CallDone(t) ==
  /\ pc[t] = "done"
  /\ sid' = IF op[t] = "unsubscribe" THEN 0 ELSE ans[t]
  /\ \/ /\ t \in Handlers /\ op[t] = "unsubscribe"
        /\ op' = [op EXCEPT ![t] = "subscribe"]
        /\ Goto(t, "call")
        /\ UNCHANGED cpMutex
     \/ /\ ~(t \in Handlers /\ op[t] = "unsubscribe")
        /\ cpMutex' = None
        /\ op' = [op EXCEPT ![t] = "subscribe"]
        /\ Goto(t, IF t \in Handlers THEN "answer" ELSE "idle")
  /\ ans' = [ans EXCEPT ![t] = 0]
  /\ UNCHANGED <<svcMutex, device, value, key, table, heard, taken, peer, work, fault>>

-----------------------------------------------------------------------------
(* The control point: a NOTIFY request.                                    *)

\* Mutant: a notification does not wait for a subscription that is under way.
NotFoundNoWait(h) ==
  /\ pc[h] = "received"
  /\ msg[h].sid # sid
  /\ Goto(h, "answer")
  /\ UNCHANGED <<svcMutex, device, value, cpMutex, cp, peer, call, work, fault>>

\* No service has the SID (0 is the SID of none): the answer is OK all the same.
NotFound(h) ==
  /\ pc[h] = "received" /\ cpMutex = None
  /\ msg[h].sid # sid
  /\ Goto(h, "answer")
  /\ UNCHANGED <<svcMutex, device, value, cpMutex, cp, peer, call, work, fault>>

\* Mutant: the first event of a subscription is no exception.
InSequenceStrict(seq) == seq = key + 1

InSequence(seq) == seq = 0 \/ seq = key + 1

\* Mutant: the device gets its answer before the listeners are called.
AcceptAnswer(h) ==
  /\ pc[h] = "received" /\ cpMutex = None
  /\ msg[h].sid = sid /\ InSequence(msg[h].seq)
  /\ key' = IF msg[h].seq = MaxSeq THEN 0 ELSE msg[h].seq
  /\ table' = msg[h].val
  /\ taken' = [taken EXCEPT ![sid] = @ + 1]
  /\ Answer(h, "tell", "notified")
  /\ UNCHANGED <<svcMutex, device, value, cpMutex, sid, heard, call, work, fault>>

Accept(h) ==
  /\ pc[h] = "received" /\ cpMutex = None
  /\ msg[h].sid = sid /\ InSequence(msg[h].seq)
  /\ key' = IF msg[h].seq = MaxSeq THEN 0 ELSE msg[h].seq
  /\ table' = msg[h].val
  /\ taken' = [taken EXCEPT ![sid] = @ + 1]
  /\ Goto(h, "tell")
  /\ UNCHANGED <<svcMutex, device, value, cpMutex, sid, heard, peer, call, work, fault>>

\* An event is missing: unsubscribe and subscribe, with the mutex held.
Gap(h) ==
  /\ pc[h] = "received" /\ cpMutex = None
  /\ msg[h].sid = sid /\ ~InSequence(msg[h].seq)
  /\ cpMutex' = h
  /\ op' = [op EXCEPT ![h] = "unsubscribe"]
  /\ Goto(h, "call")
  /\ UNCHANGED <<svcMutex, device, value, cp, peer, ans, work, fault>>

\* The listeners are called with the mutex released.
Tell(h) ==
  /\ pc[h] = "tell"
  /\ heard' = msg[h].val
  /\ Goto(h, "answer")
  /\ UNCHANGED <<svcMutex, device, value, cpMutex, sid, key, table, taken, peer, call,
                 work, fault>>

AnswerNotify(h) ==
  /\ pc[h] = "answer"
  /\ Answer(h, "idle", "notified")
  /\ msg' = [msg EXCEPT ![h] = NoMessage]
  /\ UNCHANGED <<svcMutex, device, value, cpMutex, cp, call, req, todo, cur, fault>>

-----------------------------------------------------------------------------
(* The device: subscription requests.                                      *)

AnswerCall(w, s, to) ==
  /\ Answer(w, to, "done")
  /\ ans' = [t \in Callers |-> IF peer[t] = w THEN s ELSE ans[t]]

\* The subscriber is added without taking the service mutex.
AddSubscriber(w) ==
  /\ pc[w] = "request" /\ req[w].kind = "subscribe" /\ alloc < MaxSubs
  /\ alloc' = alloc + 1
  /\ subs' = subs \cup {alloc + 1}
  /\ req' = [req EXCEPT ![w].sid = alloc + 1]
  /\ Goto(w, "added")
  /\ UNCHANGED <<svcMutex, late, count, value, cpMutex, cp, peer, call, msg, todo, cur, fault>>

AnswerSubscribe(w) ==
  /\ pc[w] = "added"
  /\ AnswerCall(w, req[w].sid, "linger")
  /\ UNCHANGED <<svcMutex, device, value, cpMutex, cp, op, work, fault>>

\* Mutant: a new subscriber is not notified.
StartNoNotify(w) ==
  /\ pc[w] = "linger"
  /\ Goto(w, "idle")
  /\ req' = [req EXCEPT ![w] = NoRequest]
  /\ UNCHANGED <<svcMutex, device, value, cpMutex, cp, peer, call, msg, todo, cur, fault>>

\* A second later, a new thread notifies all subscribers.
StartNotifyAll(w) ==
  /\ pc[w] = "linger"
  /\ \E n \in Notifiers :
       /\ pc[n] = "idle"
       /\ pc' = [pc EXCEPT ![w] = "idle", ![n] = "lock"]
  /\ req' = [req EXCEPT ![w] = NoRequest]
  /\ UNCHANGED <<svcMutex, device, value, cpMutex, cp, peer, call, msg, todo, cur, fault>>

\* Mutant: the renewal of an unknown subscription is answered like any other.
RenewUnknown(w) ==
  /\ pc[w] = "request" /\ req[w].kind = "renew" /\ svcMutex = None
  /\ AnswerCall(w, req[w].sid, "idle")
  /\ req' = [req EXCEPT ![w] = NoRequest]
  /\ UNCHANGED <<svcMutex, device, value, cpMutex, cp, op, msg, todo, cur, fault>>

\* The lookup takes the service mutex and releases it before it returns.
RenewLookup(w) ==
  /\ pc[w] = "request" /\ req[w].kind = "renew" /\ svcMutex = None
  /\ \/ /\ req[w].sid \in subs
        /\ Goto(w, "renew")
        /\ UNCHANGED <<peer, ans, req>>
     \/ /\ req[w].sid \notin subs
        /\ AnswerCall(w, 0, "idle")
        /\ req' = [req EXCEPT ![w] = NoRequest]
  /\ UNCHANGED <<svcMutex, device, value, cpMutex, cp, op, msg, todo, cur, fault>>

Renew(w) ==
  /\ pc[w] = "renew" /\ req[w].sid \in subs
  /\ \/ /\ req[w].sid \in late
        /\ subs' = subs \ {req[w].sid} /\ late' = late \ {req[w].sid}
        /\ AnswerCall(w, 0, "idle")
     \/ /\ req[w].sid \notin late
        /\ AnswerCall(w, req[w].sid, "idle")
        /\ UNCHANGED <<subs, late>>
  /\ req' = [req EXCEPT ![w] = NoRequest]
  /\ UNCHANGED <<svcMutex, count, alloc, value, cpMutex, cp, op, msg, todo, cur, fault>>

\* The lookup that follows takes the mutex the handler already holds: the
\* handler stays there for ever, and the removal and the answer never come.
UnsubscribeLock(w) ==
  /\ pc[w] = "request" /\ req[w].kind = "unsubscribe" /\ svcMutex = None
  /\ svcMutex' = w
  /\ Goto(w, "stuck")
  /\ UNCHANGED <<device, value, cpMutex, cp, peer, call, work, fault>>

-----------------------------------------------------------------------------
(* The device: notifications.                                              *)

SetValue(n) ==
  /\ pc[n] = "idle" /\ value < MaxValue
  /\ value' = value + 1
  /\ Goto(n, "lock")
  /\ UNCHANGED <<svcMutex, device, cpMutex, cp, peer, call, work, fault>>

LeaseEnds(s) ==
  /\ s \in subs \ late
  /\ late' = late \cup {s}
  /\ UNCHANGED <<svcMutex, subs, count, alloc, value, cpMutex, cp, pc, peer, call, work, fault>>

\* Remove the expired subscribers and make an array of the others.
NotifyLock(n) ==
  /\ pc[n] = "lock" /\ svcMutex = None
  /\ svcMutex' = n
  /\ subs' = subs \ late /\ late' = {}
  /\ todo' = [todo EXCEPT ![n] = subs \ late]
  /\ Goto(n, "next")
  /\ UNCHANGED <<count, alloc, value, cpMutex, cp, peer, call, req, msg, cur, fault>>

IsFirst(s, S) == s \in S /\ \A x \in S : s <= x

\* Mutant: the subscriber is taken out of the list and not freed.
DropUnlink(s) == subs' = subs \ {s} /\ UNCHANGED late

Drop(s) == subs' = subs \ {s} /\ late' = late \ {s}

NotifyPost(n) ==
  /\ pc[n] = "next"
  /\ \E s \in subs, h \in Handlers :
       /\ IsFirst(s, todo[n]) /\ pc[h] = "idle"
       /\ todo' = [todo EXCEPT ![n] = @ \ {s}]
       /\ cur' = [cur EXCEPT ![n] = s]
       /\ msg' = [msg EXCEPT ![h] = [sid |-> s, seq |-> count[s], val |-> value]]
       /\ peer' = [peer EXCEPT ![n] = h]
       /\ pc' = [pc EXCEPT ![n] = "wait", ![h] = "received"]
  /\ UNCHANGED <<svcMutex, device, value, cpMutex, cp, call, req, fault>>

NotifyRefused(n) ==
  /\ pc[n] = "next"
  /\ \E s \in subs :
       /\ IsFirst(s, todo[n])
       /\ todo' = [todo EXCEPT ![n] = @ \ {s}]
       /\ Drop(s)
  /\ UNCHANGED <<svcMutex, count, alloc, value, cpMutex, cp, pc, peer, call, req, msg, cur, fault>>

\* No answer in time: the subscriber is removed.
NotifyTimesOut(n) ==
  /\ pc[n] = "wait" /\ cur[n] \in subs
  /\ peer' = [peer EXCEPT ![n] = None]
  /\ Drop(cur[n])
  /\ cur' = [cur EXCEPT ![n] = 0]
  /\ Goto(n, "next")
  /\ UNCHANGED <<svcMutex, count, alloc, value, cpMutex, cp, call, req, msg, todo, fault>>

Increment(c) == (IF c >= MaxCount THEN 0 ELSE c) + 1

NotifyDone(n) ==
  /\ pc[n] = "notified" /\ cur[n] \in subs
  /\ count' = [count EXCEPT ![cur[n]] = Increment(@)]
  /\ cur' = [cur EXCEPT ![n] = 0]
  /\ Goto(n, "next")
  /\ UNCHANGED <<svcMutex, subs, late, alloc, value, cpMutex, cp, peer, call, req, msg, todo,
                 fault>>

NotifyEnd(n) ==
  /\ pc[n] = "next" /\ todo[n] = {}
  /\ svcMutex' = None
  /\ Goto(n, "idle")
  /\ UNCHANGED <<device, value, cpMutex, cp, peer, call, work, fault>>

-----------------------------------------------------------------------------
(* A thread uses a subscriber that another one has freed.                  *)

UsesFreed(t) ==
  \/ t \in Workers /\ pc[t] = "renew" /\ req[t].sid \notin subs
  \/ /\ t \in Notifiers
     /\ \/ pc[t] = "next" /\ \E s \in todo[t] : IsFirst(s, todo[t]) /\ s \notin subs
        \/ pc[t] \in {"wait", "notified"} /\ cur[t] \notin subs

UseFreed(t) ==
  /\ UsesFreed(t)
  /\ fault' = TRUE
  /\ UNCHANGED <<svcMutex, device, value, cpMutex, cp, pc, peer, call, work>>

Crashed == fault /\ UNCHANGED vars

\* Nothing is left to do, or what is left waits for the stuck handler or for
\* threads and subscribers beyond the bounds.
AtRest ==
  /\ \A t \in Callers : pc[t] = "idle"
  /\ \A w \in Workers : pc[w] # "idle" =>
       \/ pc[w] = "stuck" \/ (svcMutex \in Workers /\ pc[w] \in {"request", "linger"})
       \/ req[w].kind = "subscribe" /\ alloc = MaxSubs
  /\ \A n \in Notifiers : pc[n] \in {"idle", "lock"}
  /\ UNCHANGED vars

CallerStep(t) == Request(t) \/ Refused(t) \/ TimesOut(t) \/ CallDone(t)

HandlerStep(h) ==
  NotFound(h) \/ Accept(h) \/ Gap(h) \/ Tell(h) \/ AnswerNotify(h)

WorkerStep(w) ==
  \/ AddSubscriber(w) \/ AnswerSubscribe(w) \/ StartNotifyAll(w)
  \/ RenewLookup(w) \/ Renew(w) \/ UnsubscribeLock(w)

NotifierStep(n) ==
  \/ NotifyLock(n) \/ NotifyPost(n) \/ NotifyRefused(n) \/ NotifyTimesOut(n)
  \/ NotifyDone(n) \/ NotifyEnd(n)

Next ==
  \/ /\ ~fault
     /\ \/ AppSubscribe \/ AppUnsubscribe \/ RenewalDue
        \/ \E t \in Callers : CallerStep(t)
        \/ \E h \in Handlers : HandlerStep(h)
        \/ \E w \in Workers : WorkerStep(w) \/ UseFreed(w)
        \/ \E n \in Notifiers : SetValue(n) \/ NotifierStep(n) \/ UseFreed(n)
        \/ \E s \in Sids : LeaseEnds(s)
        \/ AtRest
  \/ Crashed

Spec == Init /\ [][Next]_vars

\* Every thread that can go on does so, and gets a mutex that keeps becoming
\* free; the control point does not stop renewing its subscription.
Fairness ==
  /\ \A t \in {App, Renewer} : SF_vars(~fault /\ CallerStep(t))
  /\ \A h \in Handlers : SF_vars(~fault /\ (CallerStep(h) \/ HandlerStep(h)))
  /\ \A w \in Workers : SF_vars(~fault /\ WorkerStep(w))
  /\ \A n \in Notifiers : SF_vars(~fault /\ NotifierStep(n))
  /\ SF_vars(~fault /\ RenewalDue)

FairSpec == Spec /\ Fairness

-----------------------------------------------------------------------------
(* Properties that hold.                                                   *)

CallerPcs == {"idle", "call", "wait", "done"}
HandlerPcs == CallerPcs \cup {"received", "tell", "answer"}
WorkerPcs == {"idle", "request", "added", "linger", "renew", "stuck"}
NotifierPcs == {"idle", "lock", "next", "wait", "notified"}

DeviceType ==
  /\ svcMutex \in Workers \cup Notifiers \cup {None}
  /\ alloc \in 0..MaxSubs /\ subs \subseteq 1..alloc /\ late \subseteq subs
  /\ count \in [Sids -> Nat] /\ value \in Nat

PointType ==
  /\ cpMutex \in Callers \cup {None}
  /\ sid \in 0..alloc /\ key \in Nat
  /\ table \in Nat /\ heard \in Nat
  /\ taken \in [Sids -> Nat]

PcType(p) ==
  /\ p \in [Threads -> HandlerPcs \cup WorkerPcs \cup NotifierPcs]
  /\ \A t \in {App, Renewer} : p[t] \in CallerPcs
  /\ \A h \in Handlers : p[h] \in HandlerPcs
  /\ \A w \in Workers : p[w] \in WorkerPcs
  /\ \A n \in Notifiers : p[n] \in NotifierPcs

ThreadType ==
  /\ PcType(pc)
  /\ peer \in [Threads -> Handlers \cup Workers \cup {None}]
  /\ \A t \in Callers : peer[t] \in Workers \cup {None}
  /\ \A n \in Notifiers : peer[n] \in Handlers \cup {None}
  /\ \A t \in Threads : peer[t] # None <=> pc[t] = "wait"

LocalType ==
  /\ op \in [Callers -> Kinds] /\ ans \in [Callers -> 0..alloc]
  /\ req \in [Workers -> [kind : Kinds, sid : 0..alloc]]
  /\ msg \in [Handlers -> [sid : 0..alloc, seq : Nat, val : Nat]]
  /\ todo \in [Notifiers -> SUBSET (1..alloc)] /\ cur \in [Notifiers -> 0..alloc]

\* Every variable keeps its type; expired subscribers are in the list, and a
\* thread waits for an answer exactly while it has a peer.
TypeOK == DeviceType /\ PointType /\ ThreadType /\ LocalType /\ fault \in BOOLEAN

\* The control point sees a gap only in the events of a subscription whose
\* counter has passed CG_UPNP_EVENT_MAX_SEQ: lost and late answers, renewals and
\* new subscriptions never look like a missing event.
NoFalseGap ==
  \A h \in Handlers : pc[h] \in {"call", "wait", "done"} => msg[h].seq > MaxSeq

Feed == INSTANCE EventFeed WITH holder <- sid, acked <- count

\* No event of the subscription the control point holds is lost, taken twice or
\* taken out of order, and the device counts no event that was not taken.
FeedKept == Feed!Spec

\* The listener is told an older value after a newer one only by an event of a
\* subscription the device has dropped.
HeardInOrder ==
  [][heard' < heard => \E h \in Handlers : Tell(h) /\ msg[h].sid \notin subs]_vars

\* A control point whose subscription stays in the device's list gets to know
\* the value of the state variable.
TableCurrent ==
  sid # 0 /\ sid \in subs ~> (table = value \/ sid \notin subs \/ fault)

\* A control point whose subscription was removed by the device finds out.
DropNoticed ==
  sid # 0 /\ sid \notin subs ~> (sid = 0 \/ sid \in subs \/ fault)

-----------------------------------------------------------------------------
(* A statement of the tests that the code does not keep.                   *)

\* tests/ClinkTestCaseSubscription.cpp:91: an unsubscription is answered.
UnsubscribeAnswered ==
  \A w \in Workers :
    (pc[w] = "request" /\ req[w].kind = "unsubscribe") ~> (pc[w] = "idle" \/ fault)
=============================================================================
