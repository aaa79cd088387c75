------------------------------ MODULE Control ------------------------------
(***************************************************************************)
(* Control of a service: callers post an action or query a state variable, *)
(* each through an action and a state variable object of its own, and the  *)
(* device serves every request on the client thread of its connection.     *)
(*                                                                         *)
(* All client threads of the device work on one action object and one      *)
(* state variable object, with no lock: the arguments of a request are     *)
(* copied into the action, the listener of the application reads them      *)
(* there and leaves the result, or an error code, there, and the answer is *)
(* made from what is then found.  (Two threads that assign one string at   *)
(* the same time may also corrupt the heap; here the later one wins, and   *)
(* nothing is claimed of requests that overlap.)                           *)
(*                                                                         *)
(* Values are named after the call they come from: an argument sent by     *)
(* call c has the value c, and 0 is the empty string.                      *)
(***************************************************************************)
EXTENDS Integers

CONSTANTS
  Callers,   \* threads of applications, each with its own objects
  Args,      \* input arguments of the action; it has an output for each
  MaxCalls   \* bound: calls made

ASSUME ControlAssumption == MaxCalls \in Nat

Calls == 1..MaxCalls
Values == 0..MaxCalls
Invalid == MaxCalls + 1  \* the error code of an invalid action or variable

VARIABLES
  onlyMPost,  \* a server in front of the device answers POST with 405
  made,       \* number of calls made
  call,       \* caller: its last call, 0 if none
  outs,       \* caller: output arguments of its action object
  val,        \* caller: value of its state variable object
  status,     \* caller: status code of its action object, 0: no error
  kind,       \* call: "action", "query", or a request the device refuses
  names,      \* call: the arguments the request names
  mpost,      \* call: it is being sent with M-POST
  pc,         \* call: where it is
  todo,       \* call: arguments still to be copied
  seen,       \* call: the arguments the listener has read
  answer,     \* call: the answer on its way to the caller
  result,     \* call: what the caller was told
  arg,        \* device: input arguments of the action object
  out,        \* device: its output arguments
  code,       \* device: its status code
  var,        \* device: value of the state variable
  published,  \* device: the value its subscribers were sent last
  executed,   \* history: how often the listener was called for a call
  mixed,      \* history: calls served while another one was
  cut         \* history: calls whose answer was lost or came cut short

caller == <<made, call, outs, val, status, kind, names>>
thread == <<todo, seen, executed>>
action == <<arg, out, code>>
variable == <<var, published>>
vars == <<onlyMPost, caller, mpost, pc, answer, result, thread, action, variable,
          mixed, cut>>

All(v) == [a \in Args |-> v]
NoAnswer == [what |-> "none", outs |-> All(0), val |-> 0, code |-> 0]
\* Mutant of Error: off by one.
ErrorNext(n) == [NoAnswer EXCEPT !.what = "error", !.code = n + 1]

Error(n) == [NoAnswer EXCEPT !.what = "error", !.code = n]
BadRequest == [NoAnswer EXCEPT !.what = "bad"]
NotAllowed == [NoAnswer EXCEPT !.what = "notallowed"]

Init ==
  /\ onlyMPost \in BOOLEAN
  /\ made = 0 /\ call = [p \in Callers |-> 0]
  /\ outs = [p \in Callers |-> All(0)] /\ val = [p \in Callers |-> 0]
  /\ status = [p \in Callers |-> 0]
  /\ kind = [c \in Calls |-> "none"] /\ names = [c \in Calls |-> {}]
  /\ mpost = [c \in Calls |-> FALSE] /\ pc = [c \in Calls |-> "none"]
  /\ todo = [c \in Calls |-> {}] /\ seen = [c \in Calls |-> All(0)]
  /\ answer = [c \in Calls |-> NoAnswer] /\ result = [c \in Calls |-> "none"]
  /\ arg = All(0) /\ out = All(0) /\ code = 0
  /\ var = 0 /\ published = 0
  /\ executed = [c \in Calls |-> 0] /\ mixed = {} /\ cut = {}

Goto(c, l) == pc' = [pc EXCEPT ![c] = l]

-----------------------------------------------------------------------------
(* The caller.                                                             *)

Waiting(p, c) == call[p] = c /\ result[c] = "none"
Idle(p) == ~ \E c \in Calls : Waiting(p, c)

CallerRest == UNCHANGED <<onlyMPost, thread, action, variable, mixed>>

\* A caller built on this library names all arguments, another one may leave some out.
Post(p) ==
  /\ Idle(p) /\ made < MaxCalls
  /\ made' = made + 1
  /\ call' = [call EXCEPT ![p] = made']
  /\ \E k \in {"action", "query", "unknown", "bad"}, n \in SUBSET Args :
       /\ k # "action" => n = {}
       /\ kind' = [kind EXCEPT ![made'] = k]
       /\ names' = [names EXCEPT ![made'] = n]
  /\ Goto(made', "sent")
  /\ UNCHANGED <<outs, val, status, mpost, answer, result, cut>> /\ CallerRest

\* Mutant of MayRepeat: a request that failed is sent again.
MayRepeatAll(c) == answer[c].what \notin {"none", "ok"} /\ ~mpost[c]

\* Only an answer 405 to the first attempt makes the caller send the request again.
MayRepeat(c) == answer[c].what = "notallowed" /\ ~mpost[c]

Repeat(p, c) ==
  /\ Waiting(p, c) /\ MayRepeat(c)
  /\ mpost' = [mpost EXCEPT ![c] = TRUE]
  /\ answer' = [answer EXCEPT ![c] = NoAnswer]
  /\ Goto(c, "sent")
  /\ UNCHANGED <<caller, result, cut>> /\ CallerRest

\* The result of an answer 200 goes to the object the call was made with.
TakeResult(p, c) ==
  IF kind[c] = "query" THEN val' = [val EXCEPT ![p] = answer[c].val] /\ UNCHANGED <<outs, status>>
  ELSE /\ status' = [status EXCEPT ![p] = 0]
       /\ outs' = [outs EXCEPT ![p] = answer[c].outs]
       /\ UNCHANGED val

Told(c, r) == result' = [result EXCEPT ![c] = r]

Succeed(p, c) ==
  /\ Waiting(p, c) /\ answer[c].what = "ok"
  /\ TakeResult(p, c) /\ Told(c, "ok")
  /\ UNCHANGED <<made, call, kind, names, mpost, pc, answer, cut>> /\ CallerRest

\* The answer came without its end: an action fails although its status says that it did
\* not, a query yields the empty value.
SucceedCut(p, c) ==
  /\ Waiting(p, c) /\ answer[c].what = "ok"
  /\ cut' = cut \cup {c}
  /\ IF kind[c] = "query"
     THEN Told(c, "ok") /\ val' = [val EXCEPT ![p] = 0] /\ UNCHANGED status
     ELSE Told(c, "failed") /\ status' = [status EXCEPT ![p] = 0] /\ UNCHANGED val
  /\ UNCHANGED <<made, call, outs, kind, names, mpost, pc, answer>> /\ CallerRest

Failed(p, c, n) ==
  /\ Told(c, "failed")
  /\ IF kind[c] = "query" THEN val' = [val EXCEPT ![p] = 0] /\ UNCHANGED status
     ELSE status' = [status EXCEPT ![p] = n] /\ UNCHANGED val
  /\ UNCHANGED <<made, call, outs, kind, names, mpost, pc, answer>> /\ CallerRest

\* Only an error code in the answer changes the status.
Fail(p, c) ==
  /\ Waiting(p, c) /\ answer[c].what \notin {"none", "ok"} /\ ~MayRepeat(c)
  /\ Failed(p, c, IF answer[c].what = "error" THEN answer[c].code ELSE status[p])
  /\ UNCHANGED cut

\* The connection failed or the answer is lost; the device may go on for all that.
GiveUp(p, c) ==
  /\ Waiting(p, c)
  /\ Failed(p, c, status[p])
  /\ cut' = cut \cup {c}

-----------------------------------------------------------------------------
(* The client thread that serves call c.                                   *)

Serving == {c \in Calls : pc[c] \notin {"none", "sent", "answered"}}

DeviceRest == UNCHANGED <<onlyMPost, caller, mpost, result, cut>>

Step(c, l) ==
  /\ Goto(c, l)
  /\ UNCHANGED <<answer, mixed>> /\ DeviceRest

\* The request is served from now on, and overlaps with those that are.
Enter(c, l) ==
  /\ Goto(c, l)
  /\ mixed' = mixed \cup IF Serving = {} THEN {} ELSE Serving \cup {c}
  /\ UNCHANGED <<answer, executed, seen, action, variable>> /\ DeviceRest

Reply(c, a) ==
  /\ Goto(c, "answered")
  /\ answer' = [answer EXCEPT ![c] = a]
  /\ UNCHANGED <<mixed, thread, action, variable>> /\ DeviceRest

\* No SOAP action, an unknown control URL, action or variable, or one without listener;
\* or POST is not allowed.
Refuse(c) ==
  /\ pc[c] = "sent"
  /\ IF onlyMPost /\ ~mpost[c] THEN Reply(c, NotAllowed)
     ELSE \/ kind[c] = "bad" /\ Reply(c, BadRequest)
          \/ kind[c] = "unknown" /\ Reply(c, Error(Invalid))

Accepted(c) == pc[c] = "sent" /\ (onlyMPost => mpost[c])

BeginAction(c) ==
  /\ Accepted(c) /\ kind[c] = "action"
  /\ todo' = [todo EXCEPT ![c] = names[c]]
  /\ Enter(c, "copy")

\* Mutant of Assign: an argument that has a value keeps it.
AssignEmpty(a, c) == arg' = [arg EXCEPT ![a] = IF @ = 0 THEN c ELSE @]

Assign(a, c) == arg' = [arg EXCEPT ![a] = c]

\* One argument of the request after the other; the others keep their values.
CopyArgument(c) ==
  /\ pc[c] = "copy"
  /\ \E a \in todo[c] :
       /\ Assign(a, c)
       /\ todo' = [todo EXCEPT ![c] = @ \ {a}]
  /\ UNCHANGED <<seen, executed, out, code, variable>>
  /\ Step(c, "copy")

\* The error is the one of an invalid action until the listener sets another.
Clear(c) ==
  /\ pc[c] = "copy" /\ todo[c] = {}
  /\ code' = Invalid /\ out' = All(0)
  /\ UNCHANGED <<thread, arg, variable>>
  /\ Step(c, "listen")

Listen(c) ==
  /\ pc[c] = "listen"
  /\ seen' = [seen EXCEPT ![c] = arg]
  /\ executed' = [executed EXCEPT ![c] = @ + 1]
  /\ UNCHANGED <<todo, action, variable>>
  /\ Step(c, "listening")

\* It returns TRUE after it has set the output arguments.
ListenerSucceeds(c) ==
  /\ pc[c] = "listening"
  /\ out' = seen[c]
  /\ UNCHANGED <<thread, arg, code, variable>>
  /\ Step(c, "true")

\* It returns FALSE, with an error code of its own or without one.
ListenerFails(c) ==
  /\ pc[c] = "listening"
  /\ code' \in {code, c}
  /\ UNCHANGED <<thread, arg, out, variable>>
  /\ Step(c, "false")

\* The answer is made from the action object as it is by now.
AnswerAction(c) ==
  /\ kind[c] = "action"
  /\ \/ pc[c] = "true" /\ Reply(c, [NoAnswer EXCEPT !.what = "ok", !.outs = out])
     \/ pc[c] = "false" /\ Reply(c, Error(code))

BeginQuery(c) ==
  /\ Accepted(c) /\ kind[c] = "query"
  /\ UNCHANGED todo
  /\ Enter(c, "clear")

SetValue(c, v, l) ==
  /\ var' = v
  /\ UNCHANGED <<seen, todo, action, published>>
  /\ Step(c, l)

ClearValue(c) ==
  /\ pc[c] = "clear"
  /\ SetValue(c, 0, "notify clear") /\ UNCHANGED executed

\* Mutant of Notify: the variable is set without notification.
NotifyNobody == UNCHANGED published

\* The subscribers are sent the value the variable has by now.
Notify == published' = var

\* A new value, also the empty one, is sent to the subscribers, and the listener called.
NotifyClear(c) ==
  /\ pc[c] = "notify clear"
  /\ Notify
  /\ executed' = [executed EXCEPT ![c] = @ + 1]
  /\ UNCHANGED <<seen, todo, action, var>>
  /\ Step(c, "query")

QuerySucceeds(c) ==
  /\ pc[c] = "query"
  /\ SetValue(c, c, "notify") /\ UNCHANGED executed

NotifyValue(c) ==
  /\ pc[c] = "notify"
  /\ Notify
  /\ UNCHANGED <<thread, action, var>>
  /\ Step(c, "true")

\* The variable stays empty.
QueryFails(c) ==
  /\ pc[c] = "query"
  /\ UNCHANGED <<thread, action, variable>>
  /\ Step(c, "false")

AnswerQuery(c) ==
  /\ kind[c] = "query"
  /\ \/ pc[c] = "true" /\ Reply(c, [NoAnswer EXCEPT !.what = "ok", !.val = var])
     \/ pc[c] = "false" /\ Reply(c, Error(Invalid))

-----------------------------------------------------------------------------

CallerNext(p) ==
  \/ Post(p)
  \/ \E c \in Calls : Repeat(p, c) \/ Succeed(p, c) \/ SucceedCut(p, c) \/ Fail(p, c)
       \/ GiveUp(p, c)

DeviceNext(c) ==
  \/ Refuse(c) \/ BeginAction(c) \/ CopyArgument(c) \/ Clear(c) \/ Listen(c)
  \/ ListenerSucceeds(c) \/ ListenerFails(c) \/ AnswerAction(c)
  \/ BeginQuery(c) \/ ClearValue(c) \/ NotifyClear(c) \/ QuerySucceeds(c)
  \/ NotifyValue(c) \/ QueryFails(c) \/ AnswerQuery(c)

Next == (\E p \in Callers : CallerNext(p)) \/ (\E c \in Calls : DeviceNext(c))

Spec == Init /\ [][Next]_vars

-----------------------------------------------------------------------------
(* Properties.                                                             *)

TypeOK ==
  /\ onlyMPost \in BOOLEAN /\ made \in 0..MaxCalls
  /\ call \in [Callers -> Values] /\ outs \in [Callers -> [Args -> Values]]
  /\ val \in [Callers -> Values] /\ status \in [Callers -> 0..Invalid]
  /\ kind \in [Calls -> {"none", "action", "query", "unknown", "bad"}]
  /\ names \in [Calls -> SUBSET Args] /\ mpost \in [Calls -> BOOLEAN]
  /\ pc \in [Calls -> {"none", "sent", "copy", "listen", "listening", "true", "false",
                       "clear", "notify clear", "query", "notify", "answered"}]
  /\ todo \in [Calls -> SUBSET Args] /\ seen \in [Calls -> [Args -> Values]]
  /\ answer \in [Calls -> [what : {"none", "ok", "error", "bad", "notallowed"},
                           outs : [Args -> Values], val : Values, code : 0..Invalid]]
  /\ result \in [Calls -> {"none", "ok", "failed"}]
  /\ arg \in [Args -> Values] /\ out \in [Args -> Values] /\ code \in 0..Invalid
  /\ var \in Values /\ published \in Values
  /\ executed \in [Calls -> Nat] /\ mixed \in SUBSET Calls /\ cut \in SUBSET Calls

\* A caller that is told of a success finds in its own object the result the listener of
\* the device computed from the arguments of that very call, unless the device served
\* another request meanwhile, the request left arguments out or the answer came cut short.
OwnResult ==
  \A p \in Callers :
    LET c == call[p] IN
    (c # 0 /\ result[c] = "ok" /\ c \notin mixed \cup cut) =>
      IF kind[c] = "query" THEN val[p] = c
      ELSE names[c] = Args => outs[p] = All(c)

\* Unless the device serves a query, its subscribers know the value of the variable, also
\* after queries that overlapped: each notification carries the value of its moment.
PublishedIsValue ==
  (\A c \in Serving : kind[c] # "query") => published = var

\* For every call, what RemoteCall promises: the listener runs at most once, also when
\* the request is sent a second time, and before a caller is told of a success.
Remote(c) ==
  INSTANCE RemoteCall WITH Max <- 1, executed <- executed[c], result <- result[c]

ImplementsCalls ==
  /\ \A c \in Calls : Remote(c)!Init
  /\ [][\A c \in Calls : Remote(c)!Next \/ UNCHANGED <<executed[c], result[c]>>]_vars

=============================================================================
