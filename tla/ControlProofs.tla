---------------------------- MODULE ControlProofs ----------------------------
(***************************************************************************)
(* Proofs about Control, for any callers, arguments and number of calls.   *)
(*                                                                         *)
(* The argument: where a call is in the device says how often its listener *)
(* has run (Once); two calls that are in the device at one time are both   *)
(* mixed (MixInv), so that one that is not mixed finds the objects of the  *)
(* device as it left them (Own); and no two callers wait for one call      *)
(* (CallInv), so that a result stays in the object it was put in.          *)
(***************************************************************************)
EXTENDS Control, TLAPS

\* A call belongs to one caller.
CallInv ==
  /\ \A p \in Callers : call[p] <= made
  /\ \A p, q \in Callers : call[p] = call[q] /\ call[p] # 0 => p = q
  /\ \A c \in Calls : c > made => pc[c] = "none" /\ result[c] = "none"

\* How often the listener has run for a call, and what it is called for.
Once(c) ==
  /\ executed[c] <= 1
  /\ pc[c] \in {"none", "sent", "copy", "listen", "clear", "notify clear"} =>
       executed[c] = 0
  /\ pc[c] \in {"listening", "true", "false", "query", "notify"} => executed[c] = 1
  /\ answer[c].what # "none" => pc[c] = "answered"
  /\ answer[c].what = "ok" => executed[c] = 1 /\ kind[c] \in {"action", "query"}
  /\ answer[c].what = "notallowed" => executed[c] = 0
  /\ pc[c] \in {"copy", "listen", "listening"} => kind[c] = "action"
  /\ pc[c] \in {"clear", "notify clear", "query", "notify"} => kind[c] = "query"

OnceInv == \A c \in Calls : Once(c)

MixInv == \A c, d \in Serving : c # d => c \in mixed

\* What a call that is not mixed finds in the objects it shares with the others.
OwnAction(c) ==
  /\ pc[c] = "copy" => \A a \in Args \ todo[c] : arg[a] = c
  /\ pc[c] = "listen" => arg = All(c)
  /\ pc[c] = "listening" => seen[c] = All(c)
  /\ pc[c] = "true" => out = All(c)
  /\ answer[c].what = "ok" => answer[c].outs = All(c)

OwnQuery(c) ==
  /\ pc[c] \in {"notify", "true"} => var = c
  /\ answer[c].what = "ok" => answer[c].val = c

Own(c) ==
  /\ kind[c] = "action" /\ names[c] = Args => OwnAction(c)
  /\ kind[c] = "query" => OwnQuery(c)

DataInv == \A c \in Calls \ mixed : Own(c)

PubInv == published = var \/ \E c \in Calls : pc[c] \in {"notify clear", "notify"}

IInv == TypeOK /\ CallInv /\ OnceInv /\ MixInv /\ DataInv /\ OwnResult /\ PubInv

-----------------------------------------------------------------------------
(* Values and answers.                                                     *)

Answers == [what : {"none", "ok", "error", "bad", "notallowed"},
            outs : [Args -> Values], val : Values, code : 0..Invalid]

LEMMA Basics ==
  /\ MaxCalls \in Nat /\ 0 \in Values /\ 0 \in 0..Invalid /\ Invalid \in 0..Invalid
  /\ \A c \in Calls : c \in Nat /\ c \in Values /\ c \in 0..Invalid /\ c # 0
  /\ \A v \in Values : All(v) \in [Args -> Values]
  /\ \A v \in Values : v \in Nat
BY ControlAssumption DEF Calls, Values, Invalid, All

Ok(o) == [NoAnswer EXCEPT !.what = "ok", !.outs = o]
OkValue(v) == [NoAnswer EXCEPT !.what = "ok", !.val = v]

LEMMA AnswerTypes ==
  /\ NoAnswer \in Answers /\ NoAnswer.what = "none"
  /\ BadRequest \in Answers /\ BadRequest.what = "bad"
  /\ NotAllowed \in Answers /\ NotAllowed.what = "notallowed"
  /\ \A n \in 0..Invalid : Error(n) \in Answers /\ Error(n).what = "error"
  /\ \A o \in [Args -> Values] :
       Ok(o) \in Answers /\ Ok(o).what = "ok" /\ Ok(o).outs = o
  /\ \A v \in Values :
       OkValue(v) \in Answers /\ OkValue(v).what = "ok" /\ OkValue(v).val = v
<1>1. All(0) \in [Args -> Values] /\ 0 \in Values /\ 0 \in 0..Invalid
  BY Basics
<1> QED BY <1>1 DEF NoAnswer, BadRequest, NotAllowed, Error, Ok, OkValue, Answers

LEMMA Replies ==
  ASSUME TypeOK, NEW c \in Calls, NEW a \in Answers, Reply(c, a)
  PROVE  /\ answer' = [answer EXCEPT ![c] = a] /\ answer'[c] = a /\ pc'[c] = "answered"
         /\ answer' \in [Calls -> Answers]
<1>1. answer \in [Calls -> Answers] /\ answer' = [answer EXCEPT ![c] = a]
  BY DEF TypeOK, Answers, Reply
<1>2. pc' = [pc EXCEPT ![c] = "answered"] /\ c \in DOMAIN pc
  BY DEF TypeOK, Reply, Goto
<1> QED BY <1>1, <1>2

LEMMA Counted ==
  ASSUME TypeOK, NEW c \in Calls, executed' = [executed EXCEPT ![c] = @ + 1]
  PROVE  executed' \in [Calls -> Nat] /\ executed'[c] = executed[c] + 1
<1>1. executed \in [Calls -> Nat]
  BY DEF TypeOK
<1> QED BY <1>1

-----------------------------------------------------------------------------
(* The initial states.                                                     *)

LEMMA InitIInv == Init => IInv
<1> SUFFICES ASSUME Init PROVE IInv
  OBVIOUS
<1>1. TypeOK
  <2>1. /\ made \in 0..MaxCalls /\ call \in [Callers -> Values]
        /\ outs \in [Callers -> [Args -> Values]] /\ val \in [Callers -> Values]
        /\ status \in [Callers -> 0..Invalid]
    BY Basics DEF Init
  <2>2. /\ pc \in [Calls -> {"none"}] /\ kind \in [Calls -> {"none"}]
        /\ names \in [Calls -> SUBSET Args] /\ mpost \in [Calls -> BOOLEAN]
        /\ todo \in [Calls -> SUBSET Args] /\ seen \in [Calls -> [Args -> Values]]
        /\ result \in [Calls -> {"none"}] /\ executed \in [Calls -> Nat]
    BY Basics DEF Init
  <2>3. answer \in [Calls -> Answers]
    BY AnswerTypes DEF Init
  <2>4. /\ arg \in [Args -> Values] /\ out \in [Args -> Values] /\ code \in 0..Invalid
        /\ var \in Values /\ published \in Values
    BY Basics DEF Init
  <2> QED BY <2>1, <2>2, <2>3, <2>4 DEF Init, TypeOK, Answers
<1>2. CallInv /\ MixInv /\ OwnResult /\ PubInv
  BY Basics DEF Init, CallInv, MixInv, OwnResult, PubInv, Serving
<1>3. OnceInv /\ DataInv
  BY AnswerTypes DEF Init, OnceInv, Once, DataInv, Own, OwnAction, OwnQuery
<1> QED BY <1>1, <1>2, <1>3 DEF IInv

-----------------------------------------------------------------------------
(* Steps of the device.                                                    *)

\* A step of the thread that serves c leaves the callers and the other calls alone.
Frame(c) ==
  /\ UNCHANGED <<onlyMPost, made, call, outs, val, status, kind, names, mpost, result, cut>>
  /\ pc[c] \notin {"none", "answered"} /\ pc'[c] \notin {"none", "sent"}
  /\ \A d \in Calls \ {c} :
       /\ pc'[d] = pc[d] /\ answer'[d] = answer[d] /\ executed'[d] = executed[d]
       /\ todo'[d] = todo[d] /\ seen'[d] = seen[d]

\* Who comes in mixes with those who are there.
Mixes(c) ==
  /\ mixed \subseteq mixed' /\ mixed' \subseteq Calls
  /\ pc[c] = "sent" /\ pc'[c] # "answered" =>
       \A d \in Serving : d \in mixed' /\ c \in mixed'
  /\ pc[c] = "sent" /\ pc'[c] = "answered" => UNCHANGED <<action, variable>>

LEMMA DeviceIInv ==
  ASSUME IInv, NEW c \in Calls, TypeOK', Frame(c), Mixes(c), Once(c)',
         c \notin mixed' => Own(c)', PubInv'
  PROVE  IInv'
<1>1. CallInv'
  <2>a. made \in Nat /\ c \in Nat
    <3>1. made \in 0..MaxCalls
      BY DEF IInv, TypeOK
    <3> QED BY <3>1, Basics
  <2>b. ~(c > made)
    BY DEF IInv, CallInv, Frame
  <2>1. c <= made
    BY <2>a, <2>b
  <2> QED BY <2>1, Basics DEF IInv, CallInv, Frame, TypeOK
<1>2. OnceInv'
  <2> SUFFICES ASSUME NEW d \in Calls, d # c PROVE Once(d)'
    BY DEF OnceInv
  <2> QED BY DEF IInv, OnceInv, Once, Frame
<1>3. MixInv'
  <2> SUFFICES ASSUME NEW d \in Calls, NEW e \in Calls, d \in Serving', e \in Serving', d # e
               PROVE  d \in mixed'
    BY DEF MixInv, Serving
  <2>1. \A x \in {d, e} : x = c \/ x \in Serving
    BY DEF Frame, Serving
  <2>2. CASE pc[c] = "sent"
    BY <2>1, <2>2 DEF Mixes, Serving, IInv, MixInv
  <2>3. CASE pc[c] # "sent"
    <3>1. c \in Serving
      BY <2>3 DEF Frame, Serving
    <3>2. d \in Serving /\ e \in Serving
      BY <2>1, <3>1
    <3> QED BY <3>2 DEF Mixes, IInv, MixInv
  <2> QED BY <2>2, <2>3
<1>4. DataInv'
  <2> SUFFICES ASSUME NEW d \in Calls, d \notin mixed', d # c PROVE Own(d)'
    BY DEF DataInv
  <2>1. Own(d)
    BY DEF IInv, DataInv, Mixes
  <2>2. CASE d \in Serving
    <3>1. pc[c] = "sent" /\ pc'[c] = "answered"
      BY <2>2 DEF Mixes, Frame, Serving, IInv, MixInv
    <3> QED BY <2>1, <3>1 DEF Mixes, Frame, Own, OwnAction, OwnQuery, action, variable
  <2>3. CASE d \notin Serving
    BY <2>1, <2>3 DEF Frame, Serving, Own, OwnAction, OwnQuery
  <2> QED BY <2>2, <2>3
<1>5. OwnResult'
  BY DEF IInv, OwnResult, Frame, Mixes
<1> QED BY <1>1, <1>2, <1>3, <1>4, <1>5 DEF IInv

LEMMA RefuseIInv ==
  ASSUME IInv, NEW c \in Calls, Refuse(c)
  PROVE  IInv'
<1>0. TypeOK /\ Once(c) /\ (c \in mixed \/ Own(c))
  BY DEF IInv, OnceInv, DataInv
<1>a. PICK a \in Answers :
        Reply(c, a) /\ a.what \notin {"none", "ok"} /\ (pc[c] = "sent" /\ UNCHANGED executed)
  BY Basics, AnswerTypes DEF Refuse, Reply, thread
<1>1. TypeOK'
  <2>1. answer' \in [Calls -> Answers]
    BY <1>0, <1>a, Replies
  <2>2. pc' \in [Calls -> {"none", "sent", "copy", "listen", "listening", "true", "false",
                       "clear", "notify clear", "query", "notify", "answered"}]
    BY <1>0, Basics DEF Refuse, Reply, Goto, DeviceRest, caller, thread, action,
      variable, TypeOK
  <2> QED BY <1>0, <2>1, <2>2 DEF Refuse, Reply, Goto, DeviceRest, caller, thread,
    action, variable, TypeOK, Answers
<1>2. Frame(c) /\ Mixes(c)
  BY <1>0 DEF Refuse, Reply, Goto, DeviceRest, caller, thread, action, variable, Frame,
    Mixes, TypeOK, Serving
<1>3. Once(c)'
  <2>1. answer'[c] = a /\ pc'[c] = "answered" /\ executed'[c] = 0
    BY <1>0, <1>a, Replies DEF Once
  <2> QED BY <1>a, <2>1 DEF Once
<1>4. c \notin mixed' => Own(c)'
  <2>1. answer'[c] = a /\ pc'[c] = "answered"
    BY <1>0, <1>a, Replies
  <2> QED BY <1>a, <2>1 DEF Own, OwnAction, OwnQuery
<1>5. PubInv'
  BY <1>0 DEF Refuse, Reply, Goto, DeviceRest, caller, thread, action, variable, IInv,
    PubInv, TypeOK
<1> QED BY <1>1, <1>2, <1>3, <1>4, <1>5, DeviceIInv

LEMMA BeginActionIInv ==
  ASSUME IInv, NEW c \in Calls, BeginAction(c)
  PROVE  IInv'
<1>0. TypeOK /\ Once(c) /\ (c \in mixed \/ Own(c))
  BY DEF IInv, OnceInv, DataInv
<1>1. TypeOK'
  <2>1. todo' \in [Calls -> SUBSET Args]
    BY <1>0, Basics DEF BeginAction, Accepted, Enter, Goto, DeviceRest, caller, thread,
      action, variable, TypeOK
  <2>2. pc' \in [Calls -> {"none", "sent", "copy", "listen", "listening", "true", "false",
                       "clear", "notify clear", "query", "notify", "answered"}]
    BY <1>0, Basics DEF BeginAction, Accepted, Enter, Goto, DeviceRest, caller, thread,
      action, variable, TypeOK
  <2>3. mixed' \in SUBSET Calls
    BY <1>0, Basics DEF BeginAction, Accepted, Enter, Goto, DeviceRest, caller, thread,
      action, variable, TypeOK, Serving
  <2> QED BY <1>0, <2>1, <2>2, <2>3 DEF BeginAction, Accepted, Enter, Goto, DeviceRest,
    caller, thread, action, variable, TypeOK
<1>2. Frame(c) /\ Mixes(c)
  BY <1>0 DEF BeginAction, Accepted, Enter, Goto, DeviceRest, caller, thread, action,
    variable, Frame, Mixes, TypeOK, Serving
<1>3. Once(c)'
  BY <1>0, AnswerTypes, Basics DEF BeginAction, Accepted, Enter, Goto, DeviceRest,
    caller, thread, action, variable, Once, TypeOK
<1>4. c \notin mixed' => Own(c)'
  <2>1. todo'[c] = names[c] /\ pc'[c] = "copy" /\ UNCHANGED <<kind, names, answer>>
    BY <1>0 DEF BeginAction, Enter, Goto, DeviceRest, caller, TypeOK
  <2>2. kind[c] = "action" /\ answer[c].what = "none"
    BY <1>0 DEF BeginAction, Accepted, Once
  <2> QED BY <2>1, <2>2 DEF Own, OwnAction
<1>5. PubInv'
  BY <1>0 DEF BeginAction, Accepted, Enter, Goto, DeviceRest, caller, thread, action,
    variable, IInv, PubInv, TypeOK
<1> QED BY <1>1, <1>2, <1>3, <1>4, <1>5, DeviceIInv

LEMMA CopyArgumentIInv ==
  ASSUME IInv, NEW c \in Calls, CopyArgument(c)
  PROVE  IInv'
<1>0. TypeOK /\ Once(c) /\ (c \in mixed \/ Own(c))
  BY DEF IInv, OnceInv, DataInv
<1>1. TypeOK'
  <2>1. arg' \in [Args -> Values]
    BY <1>0, Basics DEF CopyArgument, Assign, Step, Goto, DeviceRest, caller, thread,
      action, variable, TypeOK
  <2>2. todo' \in [Calls -> SUBSET Args]
    <3>1. todo \in [Calls -> SUBSET Args]
      BY <1>0 DEF TypeOK
    <3> QED BY <3>1 DEF CopyArgument
  <2> QED BY <1>0, <2>1, <2>2 DEF CopyArgument, Assign, Step, Goto, DeviceRest, caller,
    thread, action, variable, TypeOK
<1>2. Frame(c) /\ Mixes(c)
  BY <1>0 DEF CopyArgument, Assign, Step, Goto, DeviceRest, caller, thread, action,
    variable, Frame, Mixes, TypeOK, Serving
<1>3. Once(c)'
  BY <1>0, AnswerTypes, Basics DEF CopyArgument, Assign, Step, Goto, DeviceRest, caller,
    thread, action, variable, Once, TypeOK
<1>4. c \notin mixed' => Own(c)'
  <2>1. PICK a \in todo[c] : Assign(a, c) /\ todo' = [todo EXCEPT ![c] = @ \ {a}]
    BY DEF CopyArgument
  <2>2. a \in Args /\ c \in DOMAIN todo /\ DOMAIN arg = Args
    BY <1>0 DEF TypeOK
  <2>3. arg' = [arg EXCEPT ![a] = c] /\ todo'[c] = todo[c] \ {a}
    BY <2>1, <2>2 DEF Assign
  <2>4. pc[c] = "copy" /\ pc'[c] = "copy" /\ UNCHANGED <<kind, names, answer, mixed>>
    BY <1>0 DEF CopyArgument, Step, Goto, DeviceRest, caller, TypeOK
  <2>5. kind[c] = "action" /\ answer[c].what = "none"
    BY <1>0, <2>4 DEF Once
  <2>6. ASSUME \A b \in Args \ todo[c] : arg[b] = c
        PROVE  \A b \in Args \ todo'[c] : arg'[b] = c
    BY <2>2, <2>3, <2>6
  <2> QED BY <1>0, <2>4, <2>5, <2>6 DEF Own, OwnAction
<1>5. PubInv'
  BY <1>0 DEF CopyArgument, Assign, Step, Goto, DeviceRest, caller, thread, action,
    variable, IInv, PubInv, TypeOK
<1> QED BY <1>1, <1>2, <1>3, <1>4, <1>5, DeviceIInv

LEMMA ClearIInv ==
  ASSUME IInv, NEW c \in Calls, Clear(c)
  PROVE  IInv'
<1>0. TypeOK /\ Once(c) /\ (c \in mixed \/ Own(c))
  BY DEF IInv, OnceInv, DataInv
<1>1. TypeOK'
  <2>1. out' \in [Args -> Values]
    BY <1>0, Basics DEF Clear, Step, Goto, DeviceRest, caller, thread, action, variable,
      TypeOK
  <2>2. code' \in 0..Invalid
    BY <1>0, Basics DEF Clear, Step, Goto, DeviceRest, caller, thread, action, variable,
      TypeOK
  <2>3. pc' \in [Calls -> {"none", "sent", "copy", "listen", "listening", "true", "false",
                       "clear", "notify clear", "query", "notify", "answered"}]
    BY <1>0, Basics DEF Clear, Step, Goto, DeviceRest, caller, thread, action, variable,
      TypeOK
  <2> QED BY <1>0, <2>1, <2>2, <2>3 DEF Clear, Step, Goto, DeviceRest, caller, thread,
    action, variable, TypeOK
<1>2. Frame(c) /\ Mixes(c)
  BY <1>0 DEF Clear, Step, Goto, DeviceRest, caller, thread, action, variable, Frame,
    Mixes, TypeOK, Serving
<1>3. Once(c)'
  BY <1>0, AnswerTypes, Basics DEF Clear, Step, Goto, DeviceRest, caller, thread, action,
    variable, Once, TypeOK
<1>4. c \notin mixed' => Own(c)'
  <2>1. pc[c] = "copy" /\ todo[c] = {} /\ pc'[c] = "listen"
        /\ UNCHANGED <<arg, kind, names, answer, mixed>>
    BY <1>0 DEF Clear, Step, Goto, DeviceRest, caller, TypeOK
  <2>2. kind[c] = "action" /\ answer[c].what = "none" /\ arg \in [Args -> Values]
    BY <1>0, <2>1 DEF Once, TypeOK
  <2>3. (\A a \in Args : arg[a] = c) => arg = All(c)
    BY <2>2 DEF All
  <2> QED BY <1>0, <2>1, <2>2, <2>3 DEF Own, OwnAction
<1>5. PubInv'
  BY <1>0 DEF Clear, Step, Goto, DeviceRest, caller, thread, action, variable, IInv,
    PubInv, TypeOK
<1> QED BY <1>1, <1>2, <1>3, <1>4, <1>5, DeviceIInv

LEMMA ListenIInv ==
  ASSUME IInv, NEW c \in Calls, Listen(c)
  PROVE  IInv'
<1>0. TypeOK /\ Once(c) /\ (c \in mixed \/ Own(c))
  BY DEF IInv, OnceInv, DataInv
<1>1. TypeOK'
  <2>1. seen' \in [Calls -> [Args -> Values]]
    BY <1>0, Basics DEF Listen, Step, Goto, DeviceRest, caller, thread, action, variable,
      TypeOK
  <2>2. executed' \in [Calls -> Nat]
    BY <1>0, Counted DEF Listen
  <2>3. pc' \in [Calls -> {"none", "sent", "copy", "listen", "listening", "true", "false",
                       "clear", "notify clear", "query", "notify", "answered"}]
    BY <1>0, Basics DEF Listen, Step, Goto, DeviceRest, caller, thread, action, variable,
      TypeOK
  <2> QED BY <1>0, <2>1, <2>2, <2>3 DEF Listen, Step, Goto, DeviceRest, caller, thread,
    action, variable, TypeOK
<1>2. Frame(c) /\ Mixes(c)
  BY <1>0 DEF Listen, Step, Goto, DeviceRest, caller, thread, action, variable, Frame,
    Mixes, TypeOK, Serving
<1>3. Once(c)'
  <2>1. executed[c] = 0 /\ answer[c].what = "none" /\ kind[c] = "action"
    BY <1>0 DEF Listen, Once
  <2>2. executed'[c] = 1
    <3>1. executed'[c] = executed[c] + 1
      BY <1>0, Counted DEF Listen
    <3> QED BY <2>1, <3>1
  <2>3. pc'[c] = "listening" /\ UNCHANGED <<answer, kind>>
    BY <1>0 DEF Listen, Step, Goto, DeviceRest, caller, TypeOK
  <2> QED BY <2>1, <2>2, <2>3 DEF Once
<1>4. c \notin mixed' => Own(c)'
  BY <1>0, AnswerTypes, Basics DEF Listen, Step, Goto, DeviceRest, caller, thread,
    action, variable, Once, Own, OwnAction, OwnQuery, All, TypeOK
<1>5. PubInv'
  BY <1>0 DEF Listen, Step, Goto, DeviceRest, caller, thread, action, variable, IInv,
    PubInv, TypeOK
<1> QED BY <1>1, <1>2, <1>3, <1>4, <1>5, DeviceIInv

LEMMA ListenerSucceedsIInv ==
  ASSUME IInv, NEW c \in Calls, ListenerSucceeds(c)
  PROVE  IInv'
<1>0. TypeOK /\ Once(c) /\ (c \in mixed \/ Own(c))
  BY DEF IInv, OnceInv, DataInv
<1>1. TypeOK'
  <2>1. out' \in [Args -> Values]
    BY <1>0, Basics DEF ListenerSucceeds, Step, Goto, DeviceRest, caller, thread, action,
      variable, TypeOK
  <2>2. pc' \in [Calls -> {"none", "sent", "copy", "listen", "listening", "true", "false",
                       "clear", "notify clear", "query", "notify", "answered"}]
    BY <1>0, Basics DEF ListenerSucceeds, Step, Goto, DeviceRest, caller, thread, action,
      variable, TypeOK
  <2> QED BY <1>0, <2>1, <2>2 DEF ListenerSucceeds, Step, Goto, DeviceRest, caller,
    thread, action, variable, TypeOK
<1>2. Frame(c) /\ Mixes(c)
  BY <1>0 DEF ListenerSucceeds, Step, Goto, DeviceRest, caller, thread, action, variable,
    Frame, Mixes, TypeOK, Serving
<1>3. Once(c)'
  BY <1>0, AnswerTypes, Basics DEF ListenerSucceeds, Step, Goto, DeviceRest, caller,
    thread, action, variable, Once, TypeOK
<1>4. c \notin mixed' => Own(c)'
  BY <1>0, AnswerTypes, Basics DEF ListenerSucceeds, Step, Goto, DeviceRest, caller,
    thread, action, variable, Once, Own, OwnAction, OwnQuery, All, TypeOK
<1>5. PubInv'
  BY <1>0 DEF ListenerSucceeds, Step, Goto, DeviceRest, caller, thread, action, variable,
    IInv, PubInv, TypeOK
<1> QED BY <1>1, <1>2, <1>3, <1>4, <1>5, DeviceIInv

LEMMA ListenerFailsIInv ==
  ASSUME IInv, NEW c \in Calls, ListenerFails(c)
  PROVE  IInv'
<1>0. TypeOK /\ Once(c) /\ (c \in mixed \/ Own(c))
  BY DEF IInv, OnceInv, DataInv
<1>1. TypeOK'
  <2>1. code' \in 0..Invalid
    BY <1>0, Basics DEF ListenerFails, Step, Goto, DeviceRest, caller, thread, action,
      variable, TypeOK
  <2>2. pc' \in [Calls -> {"none", "sent", "copy", "listen", "listening", "true", "false",
                       "clear", "notify clear", "query", "notify", "answered"}]
    BY <1>0, Basics DEF ListenerFails, Step, Goto, DeviceRest, caller, thread, action,
      variable, TypeOK
  <2> QED BY <1>0, <2>1, <2>2 DEF ListenerFails, Step, Goto, DeviceRest, caller, thread,
    action, variable, TypeOK
<1>2. Frame(c) /\ Mixes(c)
  BY <1>0 DEF ListenerFails, Step, Goto, DeviceRest, caller, thread, action, variable,
    Frame, Mixes, TypeOK, Serving
<1>3. Once(c)'
  BY <1>0, AnswerTypes, Basics DEF ListenerFails, Step, Goto, DeviceRest, caller, thread,
    action, variable, Once, TypeOK
<1>4. c \notin mixed' => Own(c)'
  BY <1>0, AnswerTypes, Basics DEF ListenerFails, Step, Goto, DeviceRest, caller, thread,
    action, variable, Once, Own, OwnAction, OwnQuery, All, TypeOK
<1>5. PubInv'
  BY <1>0 DEF ListenerFails, Step, Goto, DeviceRest, caller, thread, action, variable,
    IInv, PubInv, TypeOK
<1> QED BY <1>1, <1>2, <1>3, <1>4, <1>5, DeviceIInv

LEMMA AnswerActionIInv ==
  ASSUME IInv, NEW c \in Calls, AnswerAction(c)
  PROVE  IInv'
<1>0. TypeOK /\ Once(c) /\ (c \in mixed \/ Own(c))
  BY DEF IInv, OnceInv, DataInv
<1>a. PICK a \in Answers :
        /\ Reply(c, a) /\ pc[c] \in {"true", "false"} /\ kind[c] = "action"
        /\ a.what \in {"ok", "error"} /\ UNCHANGED executed
        /\ a.what = "ok" => pc[c] = "true" /\ a.outs = out
  <2>1. out \in [Args -> Values] /\ code \in 0..Invalid
    BY <1>0 DEF TypeOK
  <2>2. CASE pc[c] = "true"
    BY <2>1, <2>2, AnswerTypes DEF AnswerAction, Ok, Reply, thread
  <2>3. CASE pc[c] = "false"
    BY <2>1, <2>3, AnswerTypes DEF AnswerAction, Reply, thread
  <2> QED BY <2>2, <2>3 DEF AnswerAction
<1>1. TypeOK'
  <2>1. answer' \in [Calls -> Answers]
    BY <1>0, <1>a, Replies
  <2>2. pc' \in [Calls -> {"none", "sent", "copy", "listen", "listening", "true", "false",
                       "clear", "notify clear", "query", "notify", "answered"}]
    BY <1>0, Basics DEF AnswerAction, Ok, Reply, Goto, DeviceRest, caller, thread,
      action, variable, TypeOK
  <2> QED BY <1>0, <2>1, <2>2 DEF AnswerAction, Ok, Reply, Goto, DeviceRest, caller,
    thread, action, variable, TypeOK, Answers
<1>2. Frame(c) /\ Mixes(c)
  BY <1>0 DEF AnswerAction, Ok, Reply, Goto, DeviceRest, caller, thread, action,
    variable, Frame, Mixes, TypeOK, Serving
<1>3. Once(c)'
  <2>1. answer'[c] = a /\ pc'[c] = "answered" /\ executed'[c] = 1
    BY <1>0, <1>a, Replies DEF Once
  <2>2. UNCHANGED kind
    BY <1>a DEF Reply, DeviceRest, caller
  <2> QED BY <1>a, <2>1, <2>2 DEF Once
<1>4. c \notin mixed' => Own(c)'
  <2>1. answer'[c] = a /\ pc'[c] = "answered"
    BY <1>0, <1>a, Replies
  <2>2. UNCHANGED <<kind, names, mixed>>
    BY <1>a DEF Reply, DeviceRest, caller
  <2> QED BY <1>0, <1>a, <2>1, <2>2 DEF Own, OwnAction
<1>5. PubInv'
  BY <1>0 DEF AnswerAction, Ok, Reply, Goto, DeviceRest, caller, thread, action,
    variable, IInv, PubInv, TypeOK
<1> QED BY <1>1, <1>2, <1>3, <1>4, <1>5, DeviceIInv

LEMMA BeginQueryIInv ==
  ASSUME IInv, NEW c \in Calls, BeginQuery(c)
  PROVE  IInv'
<1>0. TypeOK /\ Once(c) /\ (c \in mixed \/ Own(c))
  BY DEF IInv, OnceInv, DataInv
<1>1. TypeOK'
  <2>1. pc' \in [Calls -> {"none", "sent", "copy", "listen", "listening", "true", "false",
                       "clear", "notify clear", "query", "notify", "answered"}]
    BY <1>0, Basics DEF BeginQuery, Accepted, Enter, Goto, DeviceRest, caller, thread,
      action, variable, TypeOK
  <2>2. mixed' \in SUBSET Calls
    BY <1>0, Basics DEF BeginQuery, Accepted, Enter, Goto, DeviceRest, caller, thread,
      action, variable, TypeOK, Serving
  <2> QED BY <1>0, <2>1, <2>2 DEF BeginQuery, Accepted, Enter, Goto, DeviceRest, caller,
    thread, action, variable, TypeOK
<1>2. Frame(c) /\ Mixes(c)
  BY <1>0 DEF BeginQuery, Accepted, Enter, Goto, DeviceRest, caller, thread, action,
    variable, Frame, Mixes, TypeOK, Serving
<1>3. Once(c)'
  BY <1>0, AnswerTypes, Basics DEF BeginQuery, Accepted, Enter, Goto, DeviceRest, caller,
    thread, action, variable, Once, TypeOK
<1>4. c \notin mixed' => Own(c)'
  BY <1>0, AnswerTypes, Basics DEF BeginQuery, Accepted, Enter, Goto, DeviceRest, caller,
    thread, action, variable, Once, Own, OwnAction, OwnQuery, All, TypeOK
<1>5. PubInv'
  BY <1>0 DEF BeginQuery, Accepted, Enter, Goto, DeviceRest, caller, thread, action,
    variable, IInv, PubInv, TypeOK
<1> QED BY <1>1, <1>2, <1>3, <1>4, <1>5, DeviceIInv

LEMMA ClearValueIInv ==
  ASSUME IInv, NEW c \in Calls, ClearValue(c)
  PROVE  IInv'
<1>0. TypeOK /\ Once(c) /\ (c \in mixed \/ Own(c))
  BY DEF IInv, OnceInv, DataInv
<1>1. TypeOK'
  <2>1. var' \in Values
    BY <1>0, Basics DEF ClearValue, SetValue, Step, Goto, DeviceRest, caller, thread,
      action, variable, TypeOK
  <2>2. pc' \in [Calls -> {"none", "sent", "copy", "listen", "listening", "true", "false",
                       "clear", "notify clear", "query", "notify", "answered"}]
    BY <1>0, Basics DEF ClearValue, SetValue, Step, Goto, DeviceRest, caller, thread,
      action, variable, TypeOK
  <2> QED BY <1>0, <2>1, <2>2 DEF ClearValue, SetValue, Step, Goto, DeviceRest, caller,
    thread, action, variable, TypeOK
<1>2. Frame(c) /\ Mixes(c)
  BY <1>0 DEF ClearValue, SetValue, Step, Goto, DeviceRest, caller, thread, action,
    variable, Frame, Mixes, TypeOK, Serving
<1>3. Once(c)'
  BY <1>0, AnswerTypes, Basics DEF ClearValue, SetValue, Step, Goto, DeviceRest, caller,
    thread, action, variable, Once, TypeOK
<1>4. c \notin mixed' => Own(c)'
  BY <1>0, AnswerTypes, Basics DEF ClearValue, SetValue, Step, Goto, DeviceRest, caller,
    thread, action, variable, Once, Own, OwnAction, OwnQuery, All, TypeOK
<1>5. PubInv'
  BY <1>0 DEF ClearValue, SetValue, Step, Goto, DeviceRest, caller, thread, action,
    variable, IInv, PubInv, TypeOK
<1> QED BY <1>1, <1>2, <1>3, <1>4, <1>5, DeviceIInv

LEMMA NotifyClearIInv ==
  ASSUME IInv, NEW c \in Calls, NotifyClear(c)
  PROVE  IInv'
<1>0. TypeOK /\ Once(c) /\ (c \in mixed \/ Own(c))
  BY DEF IInv, OnceInv, DataInv
<1>1. TypeOK'
  <2>1. executed' \in [Calls -> Nat]
    BY <1>0, Counted DEF NotifyClear
  <2>2. pc' \in [Calls -> {"none", "sent", "copy", "listen", "listening", "true", "false",
                       "clear", "notify clear", "query", "notify", "answered"}]
    BY <1>0, Basics DEF NotifyClear, Notify, Step, Goto, DeviceRest, caller, thread,
      action, variable, TypeOK
  <2> QED BY <1>0, <2>1, <2>2 DEF NotifyClear, Notify, Step, Goto, DeviceRest, caller,
    thread, action, variable, TypeOK
<1>2. Frame(c) /\ Mixes(c)
  BY <1>0 DEF NotifyClear, Notify, Step, Goto, DeviceRest, caller, thread, action,
    variable, Frame, Mixes, TypeOK, Serving
<1>3. Once(c)'
  <2>1. executed[c] = 0 /\ answer[c].what = "none" /\ kind[c] = "query"
    BY <1>0 DEF NotifyClear, Once
  <2>2. executed'[c] = 1
    <3>1. executed'[c] = executed[c] + 1
      BY <1>0, Counted DEF NotifyClear
    <3> QED BY <2>1, <3>1
  <2>3. pc'[c] = "query" /\ UNCHANGED <<answer, kind>>
    BY <1>0 DEF NotifyClear, Step, Goto, DeviceRest, caller, TypeOK
  <2> QED BY <2>1, <2>2, <2>3 DEF Once
<1>4. c \notin mixed' => Own(c)'
  BY <1>0, AnswerTypes, Basics DEF NotifyClear, Notify, Step, Goto, DeviceRest, caller,
    thread, action, variable, Once, Own, OwnAction, OwnQuery, All, TypeOK
<1>5. PubInv'
  BY <1>0 DEF NotifyClear, Notify, Step, Goto, DeviceRest, caller, thread, action,
    variable, IInv, PubInv, TypeOK
<1> QED BY <1>1, <1>2, <1>3, <1>4, <1>5, DeviceIInv

LEMMA QuerySucceedsIInv ==
  ASSUME IInv, NEW c \in Calls, QuerySucceeds(c)
  PROVE  IInv'
<1>0. TypeOK /\ Once(c) /\ (c \in mixed \/ Own(c))
  BY DEF IInv, OnceInv, DataInv
<1>1. TypeOK'
  <2>1. var' \in Values
    BY <1>0, Basics DEF QuerySucceeds, SetValue, Step, Goto, DeviceRest, caller, thread,
      action, variable, TypeOK
  <2>2. pc' \in [Calls -> {"none", "sent", "copy", "listen", "listening", "true", "false",
                       "clear", "notify clear", "query", "notify", "answered"}]
    BY <1>0, Basics DEF QuerySucceeds, SetValue, Step, Goto, DeviceRest, caller, thread,
      action, variable, TypeOK
  <2> QED BY <1>0, <2>1, <2>2 DEF QuerySucceeds, SetValue, Step, Goto, DeviceRest,
    caller, thread, action, variable, TypeOK
<1>2. Frame(c) /\ Mixes(c)
  BY <1>0 DEF QuerySucceeds, SetValue, Step, Goto, DeviceRest, caller, thread, action,
    variable, Frame, Mixes, TypeOK, Serving
<1>3. Once(c)'
  BY <1>0, AnswerTypes, Basics DEF QuerySucceeds, SetValue, Step, Goto, DeviceRest,
    caller, thread, action, variable, Once, TypeOK
<1>4. c \notin mixed' => Own(c)'
  BY <1>0, AnswerTypes, Basics DEF QuerySucceeds, SetValue, Step, Goto, DeviceRest,
    caller, thread, action, variable, Once, Own, OwnAction, OwnQuery, All, TypeOK
<1>5. PubInv'
  BY <1>0 DEF QuerySucceeds, SetValue, Step, Goto, DeviceRest, caller, thread, action,
    variable, IInv, PubInv, TypeOK
<1> QED BY <1>1, <1>2, <1>3, <1>4, <1>5, DeviceIInv

LEMMA NotifyValueIInv ==
  ASSUME IInv, NEW c \in Calls, NotifyValue(c)
  PROVE  IInv'
<1>0. TypeOK /\ Once(c) /\ (c \in mixed \/ Own(c))
  BY DEF IInv, OnceInv, DataInv
<1>1. TypeOK'
  <2>1. published' \in Values
    BY <1>0, Basics DEF NotifyValue, Notify, Step, Goto, DeviceRest, caller, thread,
      action, variable, TypeOK
  <2>2. pc' \in [Calls -> {"none", "sent", "copy", "listen", "listening", "true", "false",
                       "clear", "notify clear", "query", "notify", "answered"}]
    BY <1>0, Basics DEF NotifyValue, Notify, Step, Goto, DeviceRest, caller, thread,
      action, variable, TypeOK
  <2> QED BY <1>0, <2>1, <2>2 DEF NotifyValue, Notify, Step, Goto, DeviceRest, caller,
    thread, action, variable, TypeOK
<1>2. Frame(c) /\ Mixes(c)
  BY <1>0 DEF NotifyValue, Notify, Step, Goto, DeviceRest, caller, thread, action,
    variable, Frame, Mixes, TypeOK, Serving
<1>3. Once(c)'
  BY <1>0, AnswerTypes, Basics DEF NotifyValue, Notify, Step, Goto, DeviceRest, caller,
    thread, action, variable, Once, TypeOK
<1>4. c \notin mixed' => Own(c)'
  BY <1>0, AnswerTypes, Basics DEF NotifyValue, Notify, Step, Goto, DeviceRest, caller,
    thread, action, variable, Once, Own, OwnAction, OwnQuery, All, TypeOK
<1>5. PubInv'
  BY <1>0 DEF NotifyValue, Notify, Step, Goto, DeviceRest, caller, thread, action,
    variable, IInv, PubInv, TypeOK
<1> QED BY <1>1, <1>2, <1>3, <1>4, <1>5, DeviceIInv

LEMMA QueryFailsIInv ==
  ASSUME IInv, NEW c \in Calls, QueryFails(c)
  PROVE  IInv'
<1>0. TypeOK /\ Once(c) /\ (c \in mixed \/ Own(c))
  BY DEF IInv, OnceInv, DataInv
<1>1. TypeOK'
  <2>1. pc' \in [Calls -> {"none", "sent", "copy", "listen", "listening", "true", "false",
                       "clear", "notify clear", "query", "notify", "answered"}]
    BY <1>0, Basics DEF QueryFails, Step, Goto, DeviceRest, caller, thread, action,
      variable, TypeOK
  <2> QED BY <1>0, <2>1 DEF QueryFails, Step, Goto, DeviceRest, caller, thread, action,
    variable, TypeOK
<1>2. Frame(c) /\ Mixes(c)
  BY <1>0 DEF QueryFails, Step, Goto, DeviceRest, caller, thread, action, variable,
    Frame, Mixes, TypeOK, Serving
<1>3. Once(c)'
  BY <1>0, AnswerTypes, Basics DEF QueryFails, Step, Goto, DeviceRest, caller, thread,
    action, variable, Once, TypeOK
<1>4. c \notin mixed' => Own(c)'
  BY <1>0, AnswerTypes, Basics DEF QueryFails, Step, Goto, DeviceRest, caller, thread,
    action, variable, Once, Own, OwnAction, OwnQuery, All, TypeOK
<1>5. PubInv'
  BY <1>0 DEF QueryFails, Step, Goto, DeviceRest, caller, thread, action, variable, IInv,
    PubInv, TypeOK
<1> QED BY <1>1, <1>2, <1>3, <1>4, <1>5, DeviceIInv

LEMMA AnswerQueryIInv ==
  ASSUME IInv, NEW c \in Calls, AnswerQuery(c)
  PROVE  IInv'
<1>0. TypeOK /\ Once(c) /\ (c \in mixed \/ Own(c))
  BY DEF IInv, OnceInv, DataInv
<1>a. PICK a \in Answers :
        /\ Reply(c, a) /\ pc[c] \in {"true", "false"} /\ kind[c] = "query"
        /\ a.what \in {"ok", "error"} /\ UNCHANGED executed
        /\ a.what = "ok" => pc[c] = "true" /\ a.val = var
  <2>1. var \in Values /\ Invalid \in 0..Invalid
    BY <1>0, Basics DEF TypeOK
  <2>2. CASE pc[c] = "true"
    BY <2>1, <2>2, AnswerTypes DEF AnswerQuery, OkValue, Reply, thread
  <2>3. CASE pc[c] = "false"
    BY <2>1, <2>3, AnswerTypes DEF AnswerQuery, Reply, thread
  <2> QED BY <2>2, <2>3 DEF AnswerQuery
<1>1. TypeOK'
  <2>1. answer' \in [Calls -> Answers]
    BY <1>0, <1>a, Replies
  <2>2. pc' \in [Calls -> {"none", "sent", "copy", "listen", "listening", "true", "false",
                       "clear", "notify clear", "query", "notify", "answered"}]
    BY <1>0, Basics DEF AnswerQuery, OkValue, Reply, Goto, DeviceRest, caller, thread,
      action, variable, TypeOK
  <2> QED BY <1>0, <2>1, <2>2 DEF AnswerQuery, OkValue, Reply, Goto, DeviceRest, caller,
    thread, action, variable, TypeOK, Answers
<1>2. Frame(c) /\ Mixes(c)
  BY <1>0 DEF AnswerQuery, OkValue, Reply, Goto, DeviceRest, caller, thread, action,
    variable, Frame, Mixes, TypeOK, Serving
<1>3. Once(c)'
  <2>1. answer'[c] = a /\ pc'[c] = "answered" /\ executed'[c] = 1
    BY <1>0, <1>a, Replies DEF Once
  <2>2. UNCHANGED kind
    BY <1>a DEF Reply, DeviceRest, caller
  <2> QED BY <1>a, <2>1, <2>2 DEF Once
<1>4. c \notin mixed' => Own(c)'
  <2>1. answer'[c] = a /\ pc'[c] = "answered"
    BY <1>0, <1>a, Replies
  <2>2. UNCHANGED <<kind, names, mixed, var>>
    BY <1>a DEF Reply, DeviceRest, caller, variable
  <2> QED BY <1>0, <1>a, <2>1, <2>2 DEF Own, OwnQuery
<1>5. PubInv'
  BY <1>0 DEF AnswerQuery, OkValue, Reply, Goto, DeviceRest, caller, thread, action,
    variable, IInv, PubInv, TypeOK
<1> QED BY <1>1, <1>2, <1>3, <1>4, <1>5, DeviceIInv

-----------------------------------------------------------------------------
(* Steps of the callers.                                                   *)

\* A caller is told the result of its call; the device is not touched.
Returned(p, c) ==
  /\ UNCHANGED <<onlyMPost, made, call, kind, names, mpost, pc, answer, thread, action,
                 variable, mixed>>
  /\ \E r \in {"ok", "failed"} : result' = [result EXCEPT ![c] = r]
  /\ cut \subseteq cut'
  /\ \A q \in Callers \ {p} : outs'[q] = outs[q] /\ val'[q] = val[q]

Gets(p, c) ==
  result'[c] = "ok" /\ c \notin mixed \cup cut' =>
    IF kind[c] = "query" THEN val'[p] = c ELSE names[c] = Args => outs'[p] = All(c)

LEMMA ReturnIInv ==
  ASSUME IInv, NEW p \in Callers, NEW c \in Calls, Waiting(p, c), TypeOK',
         Returned(p, c), Gets(p, c)
  PROVE  IInv'
<1>1. CallInv'
  <2>1. made \in Nat /\ c \in Nat /\ c <= made
    <3>1. made \in 0..MaxCalls /\ result \in [Calls -> {"none", "ok", "failed"}]
      BY DEF IInv, TypeOK
    <3> QED BY <3>1, Basics DEF IInv, CallInv, Waiting
  <2>2. \A d \in Calls : d > made => d # c
    BY <2>1, Basics
  <2>3. result \in [Calls -> {"none", "ok", "failed"}]
    BY DEF IInv, TypeOK
  <2> QED BY <2>2, <2>3 DEF IInv, CallInv, Returned
<1>2. OnceInv'
  BY DEF IInv, OnceInv, Once, Returned, thread
<1>3. MixInv'
  BY DEF IInv, MixInv, Serving, Returned
<1>4. DataInv'
  BY DEF IInv, DataInv, Own, OwnAction, OwnQuery, Returned, thread, action, variable
<1>5. OwnResult'
  <2> SUFFICES ASSUME NEW q \in Callers, call[q] # 0, result'[call[q]] = "ok",
                      call[q] \notin mixed \cup cut'
               PROVE  IF kind[call[q]] = "query" THEN val'[q] = call[q]
                      ELSE names[call[q]] = Args => outs'[q] = All(call[q])
    BY DEF OwnResult, Returned
  <2>1. CASE q = p
    BY <2>1 DEF Gets, Waiting
  <2>2. CASE q # p
    <3>1. call[q] # c
      BY <2>2, Basics DEF IInv, CallInv, Waiting
    <3>2. result \in [Calls -> {"none", "ok", "failed"}] /\ call[q] \in Values
      BY DEF IInv, TypeOK
    <3>3. call[q] \in Calls
      BY <3>2, ControlAssumption DEF Values, Calls
    <3>4. result[call[q]] = "ok"
      BY <3>1, <3>2, <3>3 DEF Returned
    <3> QED BY <2>2, <3>4 DEF IInv, OwnResult, Returned
  <2> QED BY <2>1, <2>2
<1>6. PubInv'
  BY DEF IInv, PubInv, Returned, variable
<1> QED BY <1>1, <1>2, <1>3, <1>4, <1>5, <1>6 DEF IInv

LEMMA SucceedIInv ==
  ASSUME IInv, NEW p \in Callers, NEW c \in Calls, Succeed(p, c)
  PROVE  IInv'
<1>0. TypeOK /\ Once(c) /\ (c \in mixed \/ Own(c)) /\ Waiting(p, c)
  BY DEF IInv, OnceInv, DataInv, Succeed
<1>1. answer[c] \in Answers /\ answer[c].outs \in [Args -> Values] /\ answer[c].val \in Values
  <2>1. answer \in [Calls -> Answers]
    BY <1>0 DEF TypeOK, Answers
  <2>2. answer[c] \in Answers
    BY <2>1
  <2> QED BY <2>2 DEF Answers
<1>2. TypeOK'
  <2>1. outs' \in [Callers -> [Args -> Values]] /\ val' \in [Callers -> Values]
    BY <1>0, <1>1 DEF Succeed, TakeResult, TypeOK
  <2>2. status' \in [Callers -> 0..Invalid]
    BY <1>0, Basics DEF Succeed, TakeResult, TypeOK
  <2>3. result' \in [Calls -> {"none", "ok", "failed"}]
    BY <1>0 DEF Succeed, Told, TypeOK
  <2> QED BY <1>0, <2>1, <2>2, <2>3
        DEF Succeed, CallerRest, TypeOK, thread, action, variable
<1>3. Returned(p, c)
  BY <1>0 DEF Succeed, TakeResult, Told, CallerRest, Returned, TypeOK
<1>4. Gets(p, c)
  <2>1. kind[c] = "query" => val'[p] = answer[c].val
    BY <1>0 DEF Succeed, TakeResult, TypeOK
  <2>2. kind[c] # "query" => outs'[p] = answer[c].outs
    BY <1>0 DEF Succeed, TakeResult, TypeOK
  <2>3. kind[c] \in {"action", "query"}
    BY <1>0 DEF Succeed, Once
  <2> QED BY <1>0, <2>1, <2>2, <2>3 DEF Succeed, Gets, Own, OwnAction, OwnQuery
<1> QED BY <1>0, <1>2, <1>3, <1>4, ReturnIInv

LEMMA SucceedCutIInv ==
  ASSUME IInv, NEW p \in Callers, NEW c \in Calls, SucceedCut(p, c)
  PROVE  IInv'
<1>0. TypeOK /\ Waiting(p, c)
  BY DEF IInv, SucceedCut
<1>1. TypeOK'
  <2>1. val' \in [Callers -> Values]
    BY <1>0, Basics DEF SucceedCut, TypeOK
  <2>a. status' \in [Callers -> 0..Invalid]
    BY <1>0, Basics DEF SucceedCut, TypeOK
  <2>2. result' \in [Calls -> {"none", "ok", "failed"}] /\ cut' \in SUBSET Calls
    BY <1>0 DEF SucceedCut, Told, TypeOK
  <2> QED BY <1>0, <2>1, <2>a, <2>2 DEF SucceedCut, CallerRest, TypeOK, thread, action, variable
<1>2. Returned(p, c)
  BY <1>0 DEF SucceedCut, Told, CallerRest, Returned, TypeOK
<1>3. Gets(p, c)
  BY DEF SucceedCut, Gets
<1> QED BY <1>0, <1>1, <1>2, <1>3, ReturnIInv

LEMMA FailedIInv ==
  ASSUME IInv, NEW p \in Callers, NEW c \in Calls, NEW n \in 0..Invalid, Waiting(p, c),
         Failed(p, c, n), cut' \in SUBSET Calls, cut \subseteq cut'
  PROVE  IInv'
<1>0. TypeOK
  BY DEF IInv
<1>1. TypeOK'
  <2>1. val' \in [Callers -> Values]
    BY <1>0, Basics DEF Failed, TypeOK
  <2>a. status' \in [Callers -> 0..Invalid]
    BY <1>0, Basics DEF Failed, TypeOK
  <2>2. result' \in [Calls -> {"none", "ok", "failed"}]
    BY <1>0 DEF Failed, Told, TypeOK
  <2> QED BY <1>0, <2>1, <2>a, <2>2 DEF Failed, CallerRest, TypeOK, thread, action, variable
<1>2. Returned(p, c)
  BY <1>0 DEF Failed, Told, CallerRest, Returned, TypeOK
<1>3. Gets(p, c)
  BY <1>0 DEF Failed, Told, Gets, TypeOK
<1> QED BY <1>1, <1>2, <1>3, ReturnIInv

LEMMA FailIInv ==
  ASSUME IInv, NEW p \in Callers, NEW c \in Calls, Fail(p, c)
  PROVE  IInv'
<1>1. TypeOK
  BY DEF IInv
<1>2. answer[c].code \in 0..Invalid /\ status[p] \in 0..Invalid
  <2>1. answer[c] \in Answers
    BY <1>1 DEF TypeOK, Answers
  <2> QED BY <1>1, <2>1 DEF TypeOK, Answers
<1>3. PICK n \in 0..Invalid : Failed(p, c, n)
  BY <1>2 DEF Fail
<1>4. Waiting(p, c) /\ cut' \in SUBSET Calls /\ cut \subseteq cut'
  BY <1>1 DEF Fail, TypeOK
<1> QED BY <1>3, <1>4, FailedIInv

LEMMA GiveUpIInv ==
  ASSUME IInv, NEW p \in Callers, NEW c \in Calls, GiveUp(p, c)
  PROVE  IInv'
<1>1. TypeOK
  BY DEF IInv
<1>2. status[p] \in 0..Invalid
  BY <1>1 DEF TypeOK
<1>3. Waiting(p, c) /\ cut' \in SUBSET Calls /\ cut \subseteq cut' /\ Failed(p, c, status[p])
  BY <1>1 DEF GiveUp, TypeOK
<1> QED BY <1>2, <1>3, FailedIInv

LEMMA PostIInv ==
  ASSUME IInv, NEW p \in Callers, Post(p)
  PROVE  IInv'
<1> DEFINE n == made + 1
<1>0. TypeOK
  BY DEF IInv
<1>1. n \in Calls /\ n \in Values /\ n # 0 /\ made \in Nat /\ n \in Nat /\ n \in 0..MaxCalls
      /\ made' = n
  <2>1. made \in 0..MaxCalls /\ made < MaxCalls /\ made' = n
    BY <1>0 DEF Post, TypeOK
  <2> QED BY <2>1, ControlAssumption DEF Calls, Values
<1>2. pc[n] = "none" /\ result[n] = "none" /\ answer[n].what = "none" /\ executed[n] = 0
  <2>1. n > made
    BY <1>1
  <2>2. pc[n] = "none" /\ result[n] = "none"
    BY <1>1, <2>1 DEF IInv, CallInv
  <2> QED BY <1>1, <2>2 DEF IInv, OnceInv, Once
<1>3. PICK k \in {"action", "query", "unknown", "bad"}, s \in SUBSET Args :
        kind' = [kind EXCEPT ![n] = k] /\ names' = [names EXCEPT ![n] = s]
  BY <1>1 DEF Post
<1>4. /\ call' = [call EXCEPT ![p] = n] /\ pc' = [pc EXCEPT ![n] = "sent"]
      /\ UNCHANGED <<onlyMPost, outs, val, status, mpost, answer, result, cut, mixed,
                     todo, seen, executed, arg, out, code, var, published>>
  BY <1>1 DEF Post, Goto, CallerRest, thread, action, variable
<1>5. TypeOK'
  <2>1. call' \in [Callers -> Values] /\ made' \in 0..MaxCalls
    BY <1>0, <1>1, <1>4 DEF TypeOK
  <2>2. kind' \in [Calls -> {"none", "action", "query", "unknown", "bad"}]
        /\ names' \in [Calls -> SUBSET Args]
    BY <1>0, <1>1, <1>3 DEF TypeOK
  <2>3. pc' \in [Calls -> {"none", "sent", "copy", "listen", "listening", "true", "false",
                         "clear", "notify clear", "query", "notify", "answered"}]
    BY <1>0, <1>1, <1>4 DEF TypeOK
  <2> QED BY <1>0, <1>4, <2>1, <2>2, <2>3 DEF TypeOK
<1>6. \A d \in Calls : d # n => pc'[d] = pc[d] /\ kind'[d] = kind[d] /\ names'[d] = names[d]
  BY <1>0, <1>3, <1>4 DEF TypeOK
<1>7. pc'[n] = "sent"
  BY <1>0, <1>1, <1>4 DEF TypeOK
<1>8. \A q \in Callers : call'[q] = IF q = p THEN n ELSE call[q]
  BY <1>0, <1>4 DEF TypeOK
<1>9. \A q \in Callers : call[q] \in Nat /\ call[q] <= made /\ call[q] # n
  <2>1. \A q \in Callers : call[q] \in Values /\ call[q] <= made
    BY <1>0 DEF IInv, CallInv, TypeOK
  <2>2. \A q \in Callers : call[q] \in Nat
    BY <2>1, Basics
  <2> QED BY <1>1, <2>1, <2>2
<1>10. CallInv'
  <2>1. \A q \in Callers : call'[q] <= made'
    BY <1>1, <1>8, <1>9
  <2>2. \A q, r \in Callers : call'[q] = call'[r] /\ call'[q] # 0 => q = r
    BY <1>8, <1>9 DEF IInv, CallInv
  <2>3. \A d \in Calls : d > made' => d > made /\ d # n
    BY <1>1, Basics
  <2>4. \A d \in Calls : d > made' => pc'[d] = "none" /\ result'[d] = "none"
    BY <1>4, <1>6, <2>3 DEF IInv, CallInv
  <2> QED BY <2>1, <2>2, <2>4 DEF CallInv
<1>11. OnceInv'
  <2> SUFFICES ASSUME NEW d \in Calls PROVE Once(d)'
    BY DEF OnceInv
  <2>1. CASE d = n
    <3>1. executed'[n] = 0 /\ answer'[n].what = "none" /\ pc'[n] = "sent"
      BY <1>2, <1>4, <1>7
    <3> QED BY <2>1, <3>1 DEF Once
  <2>2. CASE d # n
    BY <1>4, <1>6, <2>2 DEF IInv, OnceInv, Once
  <2> QED BY <2>1, <2>2
<1>12. MixInv'
  <2>1. Serving' = Serving
    BY <1>2, <1>6, <1>7 DEF Serving
  <2> QED BY <1>4, <2>1 DEF IInv, MixInv
<1>13. DataInv'
  <2> SUFFICES ASSUME NEW d \in Calls, d \notin mixed PROVE Own(d)'
    BY <1>4 DEF DataInv
  <2>1. CASE d = n
    BY <1>2, <1>4, <1>7, <2>1 DEF Own, OwnAction, OwnQuery
  <2>2. CASE d # n
    BY <1>4, <1>6, <2>2 DEF IInv, DataInv, Own, OwnAction, OwnQuery
  <2> QED BY <2>1, <2>2
<1>14. OwnResult'
  <2> SUFFICES ASSUME NEW q \in Callers, call'[q] # 0, result'[call'[q]] = "ok",
                      call'[q] \notin mixed' \cup cut'
               PROVE  IF kind'[call'[q]] = "query" THEN val'[q] = call'[q]
                      ELSE names'[call'[q]] = Args => outs'[q] = All(call'[q])
    BY DEF OwnResult
  <2>1. q # p /\ call'[q] = call[q] /\ call[q] # n
    BY <1>2, <1>4, <1>8, <1>9
  <2>2. call[q] \in Calls
    <3>1. call[q] \in Values /\ call[q] # 0
      BY <1>0, <2>1 DEF TypeOK
    <3> QED BY <3>1, ControlAssumption DEF Values, Calls
  <2> QED BY <1>4, <1>6, <2>1, <2>2 DEF IInv, OwnResult
<1>15. PubInv'
  BY <1>2, <1>4, <1>6 DEF IInv, PubInv
<1> QED BY <1>5, <1>10, <1>11, <1>12, <1>13, <1>14, <1>15 DEF IInv

LEMMA RepeatIInv ==
  ASSUME IInv, NEW p \in Callers, NEW c \in Calls, Repeat(p, c)
  PROVE  IInv'
<1>0. TypeOK /\ Once(c)
  BY DEF IInv, OnceInv
<1>1. pc[c] = "answered" /\ executed[c] = 0
  BY <1>0 DEF Repeat, MayRepeat, Once
<1>2. answer' = [answer EXCEPT ![c] = NoAnswer] /\ answer \in [Calls -> Answers]
  BY <1>0 DEF Repeat, TypeOK, Answers
<1>3. /\ pc' = [pc EXCEPT ![c] = "sent"] /\ mpost' = [mpost EXCEPT ![c] = TRUE]
      /\ UNCHANGED <<onlyMPost, made, call, outs, val, status, kind, names, result, cut, mixed,
                     todo, seen, executed, arg, out, code, var, published>>
  BY DEF Repeat, Goto, CallerRest, caller, thread, action, variable
<1>4. TypeOK'
  <2>1. answer' \in [Calls -> Answers] /\ mpost' \in [Calls -> BOOLEAN]
    BY <1>0, <1>2, <1>3, AnswerTypes DEF TypeOK
  <2>2. pc' \in [Calls -> {"none", "sent", "copy", "listen", "listening", "true", "false",
                         "clear", "notify clear", "query", "notify", "answered"}]
    BY <1>0, <1>3 DEF TypeOK
  <2> QED BY <1>0, <1>3, <2>1, <2>2 DEF TypeOK, Answers
<1>5. answer'[c].what = "none" /\ pc'[c] = "sent"
  BY <1>0, <1>2, <1>3, AnswerTypes DEF TypeOK
<1>6. \A d \in Calls : d # c => pc'[d] = pc[d] /\ answer'[d] = answer[d]
  BY <1>0, <1>2, <1>3 DEF TypeOK
<1>7. CallInv'
  <2>1. \A d \in Calls : d > made => d # c
    BY <1>1 DEF IInv, CallInv
  <2> QED BY <1>3, <1>6, <2>1 DEF IInv, CallInv
<1>8. OnceInv'
  <2> SUFFICES ASSUME NEW d \in Calls PROVE Once(d)'
    BY DEF OnceInv
  <2>1. CASE d = c
    <3>1. executed'[c] = 0 /\ answer'[c].what = "none" /\ pc'[c] = "sent"
      BY <1>1, <1>3, <1>5
    <3> QED BY <2>1, <3>1 DEF Once
  <2>2. CASE d # c
    BY <1>3, <1>6, <2>2 DEF IInv, OnceInv, Once
  <2> QED BY <2>1, <2>2
<1>9. MixInv'
  <2>1. Serving' = Serving
    BY <1>1, <1>5, <1>6 DEF Serving
  <2> QED BY <1>3, <2>1 DEF IInv, MixInv
<1>10. DataInv'
  <2> SUFFICES ASSUME NEW d \in Calls, d \notin mixed PROVE Own(d)'
    BY <1>3 DEF DataInv
  <2>1. CASE d = c
    BY <1>3, <1>5, <2>1 DEF Own, OwnAction, OwnQuery
  <2>2. CASE d # c
    BY <1>3, <1>6, <2>2 DEF IInv, DataInv, Own, OwnAction, OwnQuery
  <2> QED BY <2>1, <2>2
<1>11. OwnResult'
  BY <1>3 DEF IInv, OwnResult
<1>12. PubInv'
  BY <1>1, <1>3, <1>6 DEF IInv, PubInv
<1> QED BY <1>4, <1>7, <1>8, <1>9, <1>10, <1>11, <1>12 DEF IInv

-----------------------------------------------------------------------------
(* The theorems.                                                           *)

LEMMA StutterIInv == IInv /\ UNCHANGED vars => IInv'
<1> SUFFICES ASSUME IInv, UNCHANGED vars PROVE IInv'
  OBVIOUS
<1>1. /\ UNCHANGED <<onlyMPost, mpost, pc, answer, result, mixed, cut>>
      /\ UNCHANGED <<made, call, outs, val, status, kind, names>>
      /\ UNCHANGED <<todo, seen, executed, arg, out, code, var, published>>
  BY DEF vars, caller, thread, action, variable
<1>2. TypeOK' /\ CallInv' /\ OnceInv'
  BY <1>1 DEF IInv, TypeOK, CallInv, OnceInv, Once
<1>3. MixInv' /\ DataInv' /\ OwnResult' /\ PubInv'
  BY <1>1 DEF IInv, MixInv, Serving, DataInv, Own, OwnAction, OwnQuery, OwnResult, PubInv
<1> QED BY <1>2, <1>3 DEF IInv

LEMMA NextIInv == IInv /\ [Next]_vars => IInv'
<1> SUFFICES ASSUME IInv, Next PROVE IInv'
  BY StutterIInv
<1>1. ASSUME NEW p \in Callers, CallerNext(p) PROVE IInv'
  BY <1>1, PostIInv, RepeatIInv, SucceedIInv, SucceedCutIInv, FailIInv, GiveUpIInv
    DEF CallerNext
<1>2. ASSUME NEW c \in Calls, DeviceNext(c) PROVE IInv'
  BY <1>2, RefuseIInv, BeginActionIInv, CopyArgumentIInv, ClearIInv, ListenIInv,
    ListenerSucceedsIInv, ListenerFailsIInv, AnswerActionIInv, BeginQueryIInv,
    ClearValueIInv, NotifyClearIInv, QuerySucceedsIInv, NotifyValueIInv, QueryFailsIInv,
    AnswerQueryIInv DEF DeviceNext
<1> QED BY <1>1, <1>2 DEF Next

\* The inductive invariant holds in every state.
THEOREM Invariance == Spec => []IInv
<1>1. Init => IInv
  BY InitIInv
<1>2. IInv /\ [Next]_vars => IInv'
  BY NextIInv
<1> QED BY <1>1, <1>2, PTL DEF Spec

\* The state keeps its types.
THEOREM Types == Spec => []TypeOK
<1>1. IInv => TypeOK
  BY DEF IInv
<1> QED BY <1>1, Invariance, PTL

\* A caller that is told of a success has the result of its own call, whatever other
\* calls were made before, between and at the same time by other callers.
THEOREM ResultIsOwn == Spec => []OwnResult
<1>1. IInv => OwnResult
  BY DEF IInv
<1> QED BY <1>1, Invariance, PTL

\* Subscribers know the value of the variable whenever no query is served.
THEOREM ValueIsPublished == Spec => []PublishedIsValue
<1>1. IInv => PublishedIsValue
  BY DEF IInv, PubInv, PublishedIsValue, OnceInv, Once, Serving
<1> QED BY <1>1, Invariance, PTL

\* What a step does to one call, in the terms of RemoteCall.
RemoteStep(c) ==
  \/ executed[c] < 1 /\ executed'[c] = executed[c] + 1 /\ result'[c] = result[c]
  \/ result[c] = "none" /\ executed[c] > 0 /\ result'[c] = "ok" /\ executed'[c] = executed[c]
  \/ result[c] = "none" /\ result'[c] = "failed" /\ executed'[c] = executed[c]
  \/ UNCHANGED <<executed[c], result[c]>>

LEMMA ToldSteps ==
  ASSUME TypeOK, NEW c \in Calls, NEW d \in Calls, NEW r \in {"ok", "failed"}, Told(d, r),
         result[d] = "none", UNCHANGED executed, r = "ok" => executed[d] > 0
  PROVE  RemoteStep(c)
<1>1. result' = [result EXCEPT ![d] = r] /\ DOMAIN result = Calls
  BY DEF TypeOK, Told
<1>2. CASE c = d
  BY <1>1, <1>2 DEF RemoteStep
<1>3. CASE c # d
  BY <1>1, <1>3 DEF RemoteStep
<1> QED BY <1>2, <1>3

LEMMA ExecuteSteps ==
  ASSUME TypeOK, NEW c \in Calls, NEW d \in Calls, UNCHANGED result, executed[d] = 0,
         executed' = [executed EXCEPT ![d] = @ + 1]
  PROVE  RemoteStep(c)
<1>1. executed'[d] = executed[d] + 1 /\ DOMAIN executed = Calls
  BY Counted DEF TypeOK
<1>2. CASE c = d
  BY <1>1, <1>2 DEF RemoteStep
<1>3. CASE c # d
  BY <1>1, <1>3 DEF RemoteStep
<1> QED BY <1>2, <1>3

LEMMA NextSteps ==
  ASSUME IInv, Next, NEW c \in Calls
  PROVE  RemoteStep(c)
<1>0. TypeOK
  BY DEF IInv
<1>1. ASSUME NEW p \in Callers, CallerNext(p) PROVE RemoteStep(c)
  <2>1. CASE Post(p)
    BY <2>1 DEF Post, CallerRest, thread, RemoteStep
  <2>2. ASSUME NEW d \in Calls, Repeat(p, d) PROVE RemoteStep(c)
    BY <2>2 DEF Repeat, CallerRest, thread, RemoteStep
  <2>3. ASSUME NEW d \in Calls, Succeed(p, d) PROVE RemoteStep(c)
    <3>1. executed[d] > 0
      <4>1. executed[d] = 1
        BY <2>3 DEF IInv, OnceInv, Once, Succeed
      <4> QED BY <4>1
    <3> QED BY <1>0, <2>3, <3>1, ToldSteps DEF Succeed, Waiting, CallerRest, thread
  <2>4. ASSUME NEW d \in Calls, SucceedCut(p, d) PROVE RemoteStep(c)
    <3>1. executed[d] > 0
      <4>1. executed[d] = 1
        BY <2>4 DEF IInv, OnceInv, Once, SucceedCut
      <4> QED BY <4>1
    <3> QED BY <1>0, <2>4, <3>1, ToldSteps DEF SucceedCut, Waiting, CallerRest, thread
  <2>5. ASSUME NEW d \in Calls, Fail(p, d) PROVE RemoteStep(c)
    <3>1. result[d] = "none" /\ Told(d, "failed") /\ UNCHANGED executed
          /\ ("failed" = "ok" => executed[d] > 0)
      BY <2>5 DEF Fail, Failed, Waiting, CallerRest, thread
    <3> QED BY <1>0, <3>1, ToldSteps
  <2>6. ASSUME NEW d \in Calls, GiveUp(p, d) PROVE RemoteStep(c)
    <3>1. result[d] = "none" /\ Told(d, "failed") /\ UNCHANGED executed
          /\ ("failed" = "ok" => executed[d] > 0)
      BY <2>6 DEF GiveUp, Failed, Waiting, CallerRest, thread
    <3> QED BY <1>0, <3>1, ToldSteps
  <2> QED BY <1>1, <2>1, <2>2, <2>3, <2>4, <2>5, <2>6 DEF CallerNext
<1>2. ASSUME NEW d \in Calls, DeviceNext(d) PROVE RemoteStep(c)
  <2>1. CASE Listen(d)
    <3>1. executed[d] = 0
      BY <2>1 DEF IInv, OnceInv, Once, Listen
    <3> QED BY <1>0, <2>1, <3>1, ExecuteSteps DEF Listen, Step, DeviceRest
  <2>2. CASE NotifyClear(d)
    <3>1. executed[d] = 0
      BY <2>2 DEF IInv, OnceInv, Once, NotifyClear
    <3> QED BY <1>0, <2>2, <3>1, ExecuteSteps DEF NotifyClear, Step, DeviceRest
  <2>3. CASE ~Listen(d) /\ ~NotifyClear(d)
    <3>1. UNCHANGED <<executed, result>>
      BY <1>2, <2>3 DEF DeviceNext, Refuse, BeginAction, CopyArgument, Clear,
        ListenerSucceeds, ListenerFails, AnswerAction, BeginQuery, ClearValue,
        QuerySucceeds, NotifyValue, QueryFails, AnswerQuery, SetValue, Step, Enter, Reply,
        DeviceRest, thread
    <3> QED BY <3>1 DEF RemoteStep
  <2> QED BY <2>1, <2>2, <2>3
<1> QED BY <1>1, <1>2 DEF Next

\* For every call Control implements RemoteCall: its listener runs at most once, also when
\* the request is repeated as M-POST, and before its caller is told of a success.
THEOREM CallsImplemented == Spec => ImplementsCalls
<1> DEFINE Each == \A c \in Calls : Remote(c)!Next \/ UNCHANGED <<executed[c], result[c]>>
<1>1. Init => \A c \in Calls : Remote(c)!Init
  BY DEF Init, Remote!Init
<1>2. ASSUME IInv, Next PROVE Each
  <2> SUFFICES ASSUME NEW c \in Calls
               PROVE  Remote(c)!Next \/ UNCHANGED <<executed[c], result[c]>>
    OBVIOUS
  <2>1. RemoteStep(c)
    BY <1>2, NextSteps
  <2> QED BY <2>1
        DEF RemoteStep, Remote!Next, Remote!Execute, Remote!Succeed, Remote!Fail
<1>3. IInv /\ [Next]_vars => [Each]_vars
  BY <1>2
<1> QED BY <1>1, <1>3, Invariance, PTL DEF Spec, ImplementsCalls

=============================================================================
