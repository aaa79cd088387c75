---------------------------- MODULE ControlPoint ----------------------------
(***************************************************************************)
(* The device cache of a UPnP control point and the threads that share it: *)
(* the SSDP receivers that add, refresh and remove devices, the expiration *)
(* thread that removes devices whose lease has run out and renews event    *)
(* subscriptions, and the application thread that starts and stops the     *)
(* control point.                                                          *)
(*                                                                         *)
(* A CgUpnpDevice is an address in 1..MaxDevs and deviceList is the set    *)
(* devs: devices are appended as they are allocated, so the list order is  *)
(* the order of the addresses.  An address is never reused, hence a        *)
(* pointer outside devs is a pointer to freed memory, and dereferencing it *)
(* sets fault, which ends the run (undefined behaviour).                   *)
(***************************************************************************)
EXTENDS Integers

CONSTANTS
  Udns,        \* unique device names seen on the network
  Notifiers,   \* receive threads of the SSDP servers (NOTIFY)
  Responders,  \* receive threads of the SSDP response servers (M-SEARCH answers)
  Expirers,    \* incarnations of the expiration thread
  App,         \* the thread that calls start, stop, ipchanged and subscribe
  None,        \* no thread, no packet
  Listening,   \* whether a device listener is set
  Moving,      \* whether a device may announce itself at another location
  Ages,        \* max-age values of announcements; 0: the header is missing
  SubAge,      \* seconds after which a subscription is to be renewed; 0: no subscriptions
  MaxDevs,     \* bound: devices ever allocated
  MaxTime,     \* bound: the clock stops here
  MaxCalls     \* bound: calls of start, stop and ipchanged

Receivers == Notifiers \cup Responders
Threads == Receivers \cup Expirers \cup {App}
Nil == 0

ASSUME ThreadAssumption ==
  /\ None \notin Threads
  /\ Receivers \cap Expirers = {}
  /\ App \notin Receivers \cup Expirers
  /\ Notifiers \cap Responders = {}

ASSUME ValueAssumption ==
  /\ Listening \in BOOLEAN /\ Moving \in BOOLEAN
  /\ Ages \subseteq Nat
  /\ SubAge \in Nat
  /\ MaxDevs \in Nat
  /\ MaxTime \in Nat
  /\ MaxCalls \in Nat
  /\ None \notin Udns

VARIABLES
  mutex,     \* ctrlPoint->mutex: its owner or None
  expMutex,  \* ctrlPoint->expMutex
  devs,      \* ctrlPoint->deviceList
  alloc,     \* devices allocated so far
  name,      \* UDN of a device, in its packet and in its description
  blank,     \* devices whose description could not be parsed again: they have lost
             \*   the UDN that a lookup compares, their packet still carries it
  exp,       \* time a device's SSDP packet expires; 0: never
  sub,       \* time a device's event subscription is to be renewed; 0: not subscribed
  now,       \* cg_getcurrentsystemtime()
  pc,        \* where each thread is
  pkt,       \* the announcement a thread works on: its UDN and max-age
  ptr,       \* local variable dev of the add, remove and stop functions
  nxt,       \* loop variable of the functions that walk the device list
  curr,      \* currTime, due: expirationTime, until: end of the timed wait,
  due,       \*   local variables of the expiration thread
  until,     \*   (until = 0: the wait has no timeout)
  runnable,  \* runnableFlag of expThread
  serving,   \* the SSDP servers are open and started
  restart,   \* the running stop was called by start
  calls,     \* calls of start, stop and ipchanged so far
  view,      \* what the device listener was told: the devices believed present
  fault      \* freed memory was used

heap == <<devs, alloc, name, blank, exp, sub>>
locals == <<pkt, ptr, nxt>>
timer == <<curr, due, until>>
flags == <<runnable, serving, restart, calls>>
vars == <<mutex, expMutex, heap, now, pc, locals, timer, flags, view, fault>>

Devs == 1..MaxDevs
NoPacket == [udn |-> None, age |-> 0]
Packets == [udn : Udns \cup {None}, age : Ages \cup {0}]

Init ==
  /\ mutex = None /\ expMutex = None
  /\ devs = {} /\ alloc = 0 /\ blank = {}
  /\ name = [d \in Devs |-> None]
  /\ exp = [d \in Devs |-> 0]
  /\ sub = [d \in Devs |-> 0]
  /\ now = 1
  /\ pc = [t \in Threads |-> IF t \in Expirers THEN "off" ELSE "idle"]
  /\ pkt = [t \in Threads |-> NoPacket]
  /\ ptr = [t \in Threads |-> Nil]
  /\ nxt = [t \in Threads |-> Nil]
  /\ curr = [e \in Expirers |-> 0]
  /\ due = [e \in Expirers |-> 0]
  /\ until = [e \in Expirers |-> 0]
  /\ runnable = FALSE /\ serving = FALSE /\ restart = FALSE
  /\ calls = 0
  /\ view = [u \in Udns |-> FALSE]
  /\ fault = FALSE

-----------------------------------------------------------------------------
(* The device list and the condition variable.                             *)

\* Devices that have a UDN to be found by.
Named == devs \ blank

\* d is the device that a lookup of u returns, Nil if there is none.
IsLookup(d, u) ==
  \/ d = Nil /\ \A x \in Named : name[x] # u
  \/ d \in Named /\ name[d] = u /\ \A x \in Named : name[x] = u => d <= x

\* n is the device that follows d in the list (the first one if d is Nil).
IsNext(n, d) ==
  \/ n = Nil /\ \A x \in devs : x <= d
  \/ n \in devs /\ n > d /\ \A x \in devs : x > d => n <= x

\* Mutant of Lease: a packet without a max-age is given the lease -1.
LeaseSigned(age) == IF age = 0 THEN -1 ELSE now + age

Lease(age) == IF age = 0 THEN 0 ELSE now + age

Free(d) ==
  /\ devs' = devs \ {d}
  /\ blank' = blank \ {d}
  /\ exp' = [exp EXCEPT ![d] = 0]
  /\ sub' = [sub EXCEPT ![d] = 0]
  /\ UNCHANGED <<alloc, name>>

\* The threads go to npc and one thread that waits on expCond is woken.
SignalCond(npc) ==
  \/ /\ \A e \in Expirers : pc[e] # "waiting"
     /\ pc' = npc
  \/ \E e \in Expirers :
       /\ pc[e] = "waiting"
       /\ pc' = [npc EXCEPT ![e] = "awake"]

Goto(t, l) == pc' = [pc EXCEPT ![t] = l]

-----------------------------------------------------------------------------
(* An announcement adds or refreshes a device.                             *)

AliveArrives(t, u) ==
  /\ pc[t] = "idle" /\ serving
  /\ \E a \in Ages : pkt' = [pkt EXCEPT ![t] = [udn |-> u, age |-> a]]
  /\ Goto(t, "add")
  /\ UNCHANGED <<mutex, expMutex, heap, now, ptr, nxt, timer, flags, view, fault>>

\* Mutant of AddLookup: the list is searched without waiting for the mutex.
AddLookupNoWait(t) ==
  /\ pc[t] = "add"
  /\ mutex' = t
  /\ \E d \in Devs \cup {Nil} :
       /\ IsLookup(d, pkt[t].udn)
       /\ ptr' = [ptr EXCEPT ![t] = d]
       /\ Goto(t, IF d = Nil THEN "create" ELSE "update")
  /\ UNCHANGED <<expMutex, heap, now, pkt, nxt, timer, flags, view, fault>>

AddLookup(t) ==
  /\ pc[t] = "add" /\ mutex = None
  /\ mutex' = t
  /\ \E d \in Devs \cup {Nil} :
       /\ IsLookup(d, pkt[t].udn)
       /\ ptr' = [ptr EXCEPT ![t] = d]
       /\ Goto(t, IF d = Nil THEN "create" ELSE "update")
  /\ UNCHANGED <<expMutex, heap, now, pkt, nxt, timer, flags, view, fault>>

\* The device keeps its services, or it has moved and its new description, with
\* no service subscribed, replaces the old one.
UpdateOk(t) ==
  /\ pc[t] = "update"
  /\ exp' = [exp EXCEPT ![ptr[t]] = Lease(pkt[t].age)]
  /\ \/ UNCHANGED sub
     \/ Moving /\ sub' = [sub EXCEPT ![ptr[t]] = 0]
  /\ Goto(t, "signal")
  /\ UNCHANGED <<mutex, expMutex, devs, alloc, name, blank, now, locals, timer, flags, view, fault>>

\* The device has moved and its new description cannot be parsed: the old one is
\* gone, the result is ignored and the update counts as done.
UpdateBlank(t) ==
  /\ pc[t] = "update" /\ Moving
  /\ exp' = [exp EXCEPT ![ptr[t]] = Lease(pkt[t].age)]
  /\ sub' = [sub EXCEPT ![ptr[t]] = 0]
  /\ blank' = blank \cup {ptr[t]}
  /\ Goto(t, "signal")
  /\ UNCHANGED <<mutex, expMutex, devs, alloc, name, now, locals, timer, flags, view, fault>>

\* The location changed and a service description of the new one cannot be parsed.
UpdateFails(t) ==
  /\ pc[t] = "update" /\ Moving
  /\ Free(ptr[t])
  /\ mutex' = None
  /\ Goto(t, "idle")
  /\ pkt' = [pkt EXCEPT ![t] = NoPacket]
  /\ ptr' = [ptr EXCEPT ![t] = Nil]
  /\ UNCHANGED <<expMutex, now, nxt, timer, flags, view, fault>>

CreateOk(t) ==
  /\ pc[t] = "create" /\ alloc < MaxDevs
  /\ LET d == alloc + 1 IN
       /\ alloc' = d
       /\ devs' = devs \cup {d}
       /\ name' = [name EXCEPT ![d] = pkt[t].udn]
       /\ exp' = [exp EXCEPT ![d] = Lease(pkt[t].age)]
       /\ ptr' = [ptr EXCEPT ![t] = d]
  /\ Goto(t, "signal")
  /\ UNCHANGED <<mutex, expMutex, blank, sub, now, pkt, nxt, timer, flags, view, fault>>

\* Mutant of CreateFails: the mutex is not released on the error path.
CreateFailsLocked(t) ==
  /\ pc[t] = "create"
  /\ Goto(t, "idle")
  /\ pkt' = [pkt EXCEPT ![t] = NoPacket]
  /\ UNCHANGED <<mutex, expMutex, heap, now, ptr, nxt, timer, flags, view, fault>>

CreateFails(t) ==
  /\ pc[t] = "create"
  /\ mutex' = None
  /\ Goto(t, "idle")
  /\ pkt' = [pkt EXCEPT ![t] = NoPacket]
  /\ UNCHANGED <<expMutex, heap, now, ptr, nxt, timer, flags, view, fault>>

\* Mutant of AddSignal: the listener is not told.
AddSignalOnly(t) ==
  /\ pc[t] = "signal" /\ expMutex = None
  /\ mutex' = None
  /\ SignalCond([pc EXCEPT ![t] = "idle"])
  /\ pkt' = [pkt EXCEPT ![t] = NoPacket]
  /\ ptr' = [ptr EXCEPT ![t] = Nil]
  /\ UNCHANGED <<expMutex, heap, now, nxt, timer, flags, view, fault>>

\* Mutant of AddSignal: the expiration thread is not woken.
AddNoSignal(t) ==
  /\ pc[t] = "signal" /\ expMutex = None
  /\ mutex' = None
  /\ Goto(t, IF Listening THEN "notify" ELSE "idle")
  /\ IF Listening
     THEN UNCHANGED <<pkt, ptr>>
     ELSE /\ pkt' = [pkt EXCEPT ![t] = NoPacket]
          /\ ptr' = [ptr EXCEPT ![t] = Nil]
  /\ UNCHANGED <<expMutex, heap, now, nxt, timer, flags, view, fault>>

AddSignal(t) ==
  /\ pc[t] = "signal" /\ expMutex = None
  /\ mutex' = None
  /\ IF Listening
     THEN /\ SignalCond([pc EXCEPT ![t] = "notify"])
          /\ UNCHANGED <<pkt, ptr>>
     ELSE /\ SignalCond([pc EXCEPT ![t] = "idle"])
          /\ pkt' = [pkt EXCEPT ![t] = NoPacket]
          /\ ptr' = [ptr EXCEPT ![t] = Nil]
  /\ UNCHANGED <<expMutex, heap, now, nxt, timer, flags, view, fault>>

AddNotify(t) ==
  /\ pc[t] = "notify"
  /\ view' = [view EXCEPT ![pkt[t].udn] = TRUE]
  /\ Goto(t, "idle")
  /\ pkt' = [pkt EXCEPT ![t] = NoPacket]
  /\ ptr' = [ptr EXCEPT ![t] = Nil]
  /\ UNCHANGED <<mutex, expMutex, heap, now, nxt, timer, flags, fault>>

-----------------------------------------------------------------------------
(* Removal, called for a byebye, by the expiration thread and by ipchanged. *)

ByebyeArrives(t, u) ==
  /\ pc[t] = "idle" /\ serving
  /\ pkt' = [pkt EXCEPT ![t] = [udn |-> u, age |-> 0]]
  /\ Goto(t, "remove")
  /\ UNCHANGED <<mutex, expMutex, heap, now, ptr, nxt, timer, flags, view, fault>>

\* Where the caller of the removal goes on.
Back(t) == CASE t \in Receivers -> "idle"
             [] t \in Expirers -> "back"
             [] t = App -> "ipBack"

RemoveReturns(t) ==
  /\ Goto(t, Back(t))
  /\ pkt' = [pkt EXCEPT ![t] = NoPacket]
  /\ ptr' = [ptr EXCEPT ![t] = Nil]

RemoveLookup(t) ==
  /\ pc[t] = "remove" /\ mutex = None
  /\ \E d \in Devs \cup {Nil} :
       /\ IsLookup(d, pkt[t].udn)
       /\ \/ d = Nil /\ RemoveReturns(t) /\ UNCHANGED heap
          \/ d # Nil /\ ~Listening /\ RemoveReturns(t) /\ Free(d)
          \/ /\ d # Nil /\ Listening
             /\ ptr' = [ptr EXCEPT ![t] = d]
             /\ Goto(t, "rmNotify")
             /\ UNCHANGED <<pkt, heap>>
  /\ UNCHANGED <<mutex, expMutex, now, nxt, timer, flags, view, fault>>

\* The listener is called with the mutex released.
RemoveNotify(t) ==
  /\ pc[t] = "rmNotify"
  /\ view' = [view EXCEPT ![pkt[t].udn] = FALSE]
  /\ Goto(t, "rmDelete")
  /\ UNCHANGED <<mutex, expMutex, heap, now, locals, timer, flags, fault>>

\* Mutant of RemoveDelete: the mutex is not taken again for the deletion.
RemoveDeleteNoWait(t) ==
  /\ pc[t] = "rmDelete"
  /\ ptr[t] \in devs
  /\ Free(ptr[t])
  /\ RemoveReturns(t)
  /\ UNCHANGED <<mutex, expMutex, now, nxt, timer, flags, view, fault>>

RemoveDelete(t) ==
  /\ pc[t] = "rmDelete" /\ mutex = None
  /\ ptr[t] \in devs
  /\ Free(ptr[t])
  /\ RemoveReturns(t)
  /\ UNCHANGED <<mutex, expMutex, now, nxt, timer, flags, view, fault>>

-----------------------------------------------------------------------------
(* The expiration thread.                                                  *)

\* Top of the loop, with expMutex held: leave, or start a scan.
ExpirerTop(e) ==
  /\ pc[e] \in {"started", "awake"} /\ expMutex = None
  /\ \/ /\ runnable
        /\ curr' = [curr EXCEPT ![e] = now]
        /\ due' = [due EXCEPT ![e] = 0]
        /\ until' = [until EXCEPT ![e] = 0]
        /\ Goto(e, "lock")
     \/ /\ ~runnable
        /\ curr' = [curr EXCEPT ![e] = 0]
        /\ due' = [due EXCEPT ![e] = 0]
        /\ until' = [until EXCEPT ![e] = 0]
        /\ Goto(e, "off")
  /\ UNCHANGED <<mutex, expMutex, heap, now, locals, flags, view, fault>>

ExpirerLock(e) ==
  /\ pc[e] = "lock" /\ mutex = None
  /\ mutex' = e
  /\ \E n \in Devs \cup {Nil} : IsNext(n, Nil) /\ nxt' = [nxt EXCEPT ![e] = n]
  /\ Goto(e, "scan")
  /\ UNCHANGED <<expMutex, heap, now, pkt, ptr, timer, flags, view, fault>>

\* Renew the subscription of d if its time has come and let its next renewal
\* shorten the sleep, but only a sleep that some device lease already bounds.
CheckService(e, d, bound) ==
  \E s \in IF sub[d] # 0 /\ sub[d] <= now THEN {0, now + SubAge} ELSE {sub[d]} :
    /\ sub' = [sub EXCEPT ![d] = s]
    /\ due' = [due EXCEPT ![e] = IF s # 0 /\ s < bound THEN s ELSE bound]

IsExpired(e, d) == exp[d] # 0 /\ exp[d] <= curr[e]

ScanKeep(e) ==
  /\ pc[e] = "scan" /\ nxt[e] # Nil
  /\ ~IsExpired(e, nxt[e])
  /\ LET d == nxt[e]
         sooner == exp[d] # 0 /\ (due[e] = 0 \/ exp[d] < due[e])
     IN  /\ CheckService(e, d, IF sooner THEN exp[d] ELSE due[e])
         /\ \E n \in Devs \cup {Nil} : IsNext(n, d) /\ nxt' = [nxt EXCEPT ![e] = n]
  /\ UNCHANGED <<mutex, expMutex, devs, alloc, name, blank, exp, now, pc, pkt, ptr,
                 curr, until, flags, view, fault>>

\* The successor is saved, then the mutex is released for the removal.
ScanExpired(e) ==
  /\ pc[e] = "scan" /\ nxt[e] # Nil
  /\ IsExpired(e, nxt[e])
  /\ ptr' = [ptr EXCEPT ![e] = nxt[e]]
  /\ \E n \in Devs \cup {Nil} : IsNext(n, nxt[e]) /\ nxt' = [nxt EXCEPT ![e] = n]
  /\ mutex' = None
  /\ Goto(e, "read")
  /\ UNCHANGED <<expMutex, heap, now, pkt, timer, flags, view, fault>>

\* The removal reads the UDN from the packet inside the device, without a lock.
ReadPacket(t, from) ==
  /\ pc[t] = from
  /\ ptr[t] \in devs
  /\ pkt' = [pkt EXCEPT ![t] = [udn |-> name[ptr[t]], age |-> 0]]
  /\ ptr' = [ptr EXCEPT ![t] = Nil]
  /\ Goto(t, "remove")
  /\ UNCHANGED <<mutex, expMutex, heap, now, nxt, timer, flags, view, fault>>

\* The saved successor's services are checked, its own lease is not.
ScanResume(e) ==
  /\ pc[e] = "back" /\ mutex = None
  /\ mutex' = e
  /\ Goto(e, "scan")
  /\ \/ /\ nxt[e] = Nil
        /\ UNCHANGED <<heap, nxt, timer>>
     \/ /\ nxt[e] \in devs
        /\ CheckService(e, nxt[e], due[e])
        /\ \E n \in Devs \cup {Nil} :
             IsNext(n, nxt[e]) /\ nxt' = [nxt EXCEPT ![e] = n]
        /\ UNCHANGED <<devs, alloc, name, blank, exp, curr, until>>
  /\ UNCHANGED <<expMutex, now, pkt, ptr, flags, view, fault>>

ScanEnd(e) ==
  /\ pc[e] = "scan" /\ nxt[e] = Nil
  /\ mutex' = None
  /\ Goto(e, "plan")
  /\ UNCHANGED <<expMutex, heap, now, locals, timer, flags, view, fault>>

\* A sleep of zero seconds, computed when the lease ends right now, has no end.
PlanSleep(e) ==
  /\ pc[e] = "plan" /\ expMutex = None
  /\ \/ /\ runnable
        /\ expMutex' = e
        /\ until' = [until EXCEPT ![e] =
                       IF due[e] > curr[e] /\ due[e] # now THEN due[e] ELSE 0]
        /\ Goto(e, "sleep")
        /\ UNCHANGED <<curr, due>>
     \/ /\ ~runnable
        /\ Goto(e, "off")
        /\ curr' = [curr EXCEPT ![e] = 0]
        /\ due' = [due EXCEPT ![e] = 0]
        /\ UNCHANGED <<expMutex, until>>
  /\ UNCHANGED <<mutex, heap, now, locals, flags, view, fault>>

CondWait(e) ==
  /\ pc[e] = "sleep"
  /\ expMutex' = None
  /\ Goto(e, "waiting")
  /\ curr' = [curr EXCEPT ![e] = 0]
  /\ due' = [due EXCEPT ![e] = 0]
  /\ UNCHANGED <<mutex, heap, now, locals, until, flags, view, fault>>

Timeout(e) ==
  /\ pc[e] = "waiting" /\ until[e] # 0 /\ until[e] <= now
  /\ Goto(e, "awake")
  /\ UNCHANGED <<mutex, expMutex, heap, now, locals, timer, flags, view, fault>>

-----------------------------------------------------------------------------
(* The application: stop, start, ipchanged and subscribe.                  *)

\* stop, or start, which begins by calling stop; the flag is cleared without a lock.
StopExpirer ==
  /\ pc[App] = "idle" /\ calls < MaxCalls
  /\ calls' = calls + 1
  /\ restart' \in BOOLEAN
  /\ runnable' = FALSE
  /\ Goto(App, IF runnable THEN "stopSignal" ELSE "stopServers")
  /\ UNCHANGED <<mutex, expMutex, heap, now, locals, timer, serving, view, fault>>

\* The signal is sent without holding expMutex; a sleep of fixed length follows.
StopSignal ==
  /\ pc[App] = "stopSignal"
  /\ SignalCond([pc EXCEPT ![App] = "stopServers"])
  /\ UNCHANGED <<mutex, expMutex, heap, now, locals, timer, flags, view, fault>>

StopServers ==
  /\ pc[App] = "stopServers"
  /\ serving' = FALSE
  /\ Goto(App, "stopLock")
  /\ UNCHANGED <<mutex, expMutex, heap, now, locals, timer, runnable, restart, calls, view, fault>>

\* Take the mutex and start to walk the device list.
WalkFrom(l, scan) ==
  /\ pc[App] = l /\ mutex = None
  /\ mutex' = App
  /\ \E n \in Devs \cup {Nil} : IsNext(n, Nil) /\ nxt' = [nxt EXCEPT ![App] = n]
  /\ Goto(App, scan)
  /\ UNCHANGED <<expMutex, heap, now, pkt, ptr, timer, flags, view, fault>>

\* Release the mutex to tell the listener that the device is removed.
StopRelease ==
  /\ pc[App] = "stopScan" /\ nxt[App] # Nil /\ nxt[App] \notin blank /\ Listening
  /\ mutex' = None
  /\ ptr' = [ptr EXCEPT ![App] = nxt[App]]
  /\ nxt' = [nxt EXCEPT ![App] = Nil]
  /\ Goto(App, "stopNotify")
  /\ UNCHANGED <<expMutex, heap, now, pkt, timer, flags, view, fault>>

StopSkip ==
  /\ pc[App] = "stopScan" /\ nxt[App] \in blank /\ Listening
  /\ \E n \in Devs \cup {Nil} : IsNext(n, nxt[App]) /\ nxt' = [nxt EXCEPT ![App] = n]
  /\ UNCHANGED <<mutex, expMutex, heap, now, pc, pkt, ptr, timer, flags, view, fault>>

\* The UDN handed to the listener is the string inside the device.
StopNotify ==
  /\ pc[App] = "stopNotify"
  /\ ptr[App] \in devs
  /\ view' = [view EXCEPT ![name[ptr[App]]] = FALSE]
  /\ Goto(App, "stopRelock")
  /\ UNCHANGED <<mutex, expMutex, heap, now, locals, timer, flags, fault>>

StopRelock ==
  /\ pc[App] = "stopRelock" /\ mutex = None
  /\ ptr[App] \in devs
  /\ mutex' = App
  /\ \E n \in Devs \cup {Nil} : IsNext(n, ptr[App]) /\ nxt' = [nxt EXCEPT ![App] = n]
  /\ ptr' = [ptr EXCEPT ![App] = Nil]
  /\ Goto(App, "stopScan")
  /\ UNCHANGED <<expMutex, heap, now, pkt, timer, flags, view, fault>>

\* Without a listener the walk has no effect.
StopClear ==
  /\ pc[App] = "stopScan"
  /\ Listening => nxt[App] = Nil
  /\ devs' = {} /\ blank' = {}
  /\ exp' = [d \in Devs |-> 0]
  /\ sub' = [d \in Devs |-> 0]
  /\ mutex' = None
  /\ nxt' = [nxt EXCEPT ![App] = Nil]
  /\ Goto(App, IF restart THEN "startThread" ELSE "idle")
  /\ UNCHANGED <<expMutex, alloc, name, now, pkt, ptr, timer, flags, view, fault>>

\* A new thread runs the handler on the same CgThread, unless none can be created.
StartThread ==
  /\ pc[App] = "startThread"
  /\ \/ /\ runnable' = TRUE
        /\ \E e \in Expirers :
             /\ pc[e] = "off"
             /\ pc' = [pc EXCEPT ![App] = "startServers", ![e] = "started"]
     \/ /\ runnable' = FALSE
        /\ Goto(App, "startServers")
  /\ UNCHANGED <<mutex, expMutex, heap, now, locals, timer, serving, restart, calls, view, fault>>

\* Opening the SSDP servers may fail, and start then returns FALSE.
StartServers ==
  /\ pc[App] = "startServers"
  /\ serving' \in BOOLEAN
  /\ restart' = FALSE
  /\ Goto(App, "idle")
  /\ UNCHANGED <<mutex, expMutex, heap, now, locals, timer, runnable, calls, view, fault>>

IpChanged ==
  /\ pc[App] = "idle" /\ calls < MaxCalls
  /\ calls' = calls + 1
  /\ Goto(App, "ipLock")
  /\ UNCHANGED <<mutex, expMutex, heap, now, locals, timer, runnable, serving, restart, view, fault>>

IpKeep ==
  /\ pc[App] = "ipScan" /\ nxt[App] # Nil
  /\ \E n \in Devs \cup {Nil} : IsNext(n, nxt[App]) /\ nxt' = [nxt EXCEPT ![App] = n]
  /\ UNCHANGED <<mutex, expMutex, heap, now, pc, pkt, ptr, timer, flags, view, fault>>

\* The device was received through the removed interface.
IpGone ==
  /\ pc[App] = "ipScan" /\ nxt[App] # Nil
  /\ ptr' = [ptr EXCEPT ![App] = nxt[App]]
  /\ \E n \in Devs \cup {Nil} : IsNext(n, nxt[App]) /\ nxt' = [nxt EXCEPT ![App] = n]
  /\ mutex' = None
  /\ Goto(App, "ipRead")
  /\ UNCHANGED <<expMutex, heap, now, pkt, timer, flags, view, fault>>

IpResume ==
  /\ pc[App] = "ipBack" /\ mutex = None
  /\ nxt[App] \in devs \cup {Nil}
  /\ mutex' = App
  /\ Goto(App, "ipScan")
  /\ UNCHANGED <<expMutex, heap, now, locals, timer, flags, view, fault>>

IpEnd ==
  /\ pc[App] = "ipScan" /\ nxt[App] = Nil
  /\ mutex' = None
  /\ Goto(App, "idle")
  /\ UNCHANGED <<expMutex, heap, now, locals, timer, flags, view, fault>>

\* subscribe, called with the control point locked.  A new subscription wakes the
\* expiration thread, a renewed one does not; a request that fails forgets the SID.
Subscribe(d) ==
  /\ pc[App] = "idle" /\ SubAge > 0
  /\ mutex = None
  /\ d \in Named
  /\ \/ /\ sub' = [sub EXCEPT ![d] = now + SubAge]
        /\ IF sub[d] = 0 THEN expMutex = None /\ SignalCond(pc) ELSE pc' = pc
     \/ /\ sub' = [sub EXCEPT ![d] = 0]
        /\ pc' = pc
  /\ UNCHANGED <<mutex, expMutex, devs, alloc, name, blank, exp, now, locals, timer, flags, view, fault>>

-----------------------------------------------------------------------------
(* A thread dereferences a device pointer kept across an unlock.           *)

HoldsStale(t) ==
  \/ pc[t] \in {"read", "ipRead", "stopNotify"} /\ ptr[t] \notin devs
  \/ pc[t] \in {"rmDelete", "stopRelock"} /\ mutex = None /\ ptr[t] \notin devs
  \/ pc[t] \in {"back", "ipBack"} /\ mutex = None /\ nxt[t] \notin devs \cup {Nil}

UseFreed(t) ==
  /\ HoldsStale(t)
  /\ fault' = TRUE
  /\ UNCHANGED <<mutex, expMutex, heap, now, pc, locals, timer, flags, view>>

Tick ==
  /\ now < MaxTime
  /\ now' = now + 1
  /\ UNCHANGED <<mutex, expMutex, heap, pc, locals, timer, flags, view, fault>>

Crashed == fault /\ UNCHANGED vars

\* Every thread waits for a packet, a signal or a call: not a deadlock.
AtRest ==
  /\ \A t \in Threads : pc[t] \in {"idle", "off", "waiting"}
  /\ UNCHANGED vars

\* What a thread does once it has been given work.
ReceiverStep(t) ==
  \/ AddLookup(t) \/ UpdateOk(t) \/ UpdateBlank(t) \/ UpdateFails(t)
  \/ CreateOk(t) \/ CreateFails(t)
  \/ AddSignal(t) \/ AddNotify(t)

RemoveStep(t) == RemoveLookup(t) \/ RemoveNotify(t) \/ RemoveDelete(t)

ExpirerStep(e) ==
  \/ ExpirerTop(e) \/ ExpirerLock(e) \/ ScanKeep(e) \/ ScanExpired(e)
  \/ ReadPacket(e, "read") \/ ScanResume(e) \/ ScanEnd(e) \/ PlanSleep(e)
  \/ CondWait(e) \/ Timeout(e)

StopStep ==
  \/ StopSignal \/ StopServers \/ WalkFrom("stopLock", "stopScan") \/ StopRelease
  \/ StopSkip \/ StopNotify \/ StopRelock \/ StopClear \/ StartThread \/ StartServers

IpStep ==
  \/ WalkFrom("ipLock", "ipScan") \/ IpKeep \/ IpGone \/ ReadPacket(App, "ipRead")
  \/ IpResume \/ IpEnd

Next ==
  \/ /\ ~fault
     /\ \/ \E t \in Receivers, u \in Udns : AliveArrives(t, u)
        \/ \E t \in Notifiers, u \in Udns : ByebyeArrives(t, u)
        \/ \E t \in Receivers : ReceiverStep(t)
        \/ \E t \in Threads : RemoveStep(t) \/ UseFreed(t)
        \/ \E e \in Expirers : ExpirerStep(e)
        \/ StopExpirer \/ StopStep
        \/ IpChanged \/ IpStep
        \/ \E d \in Devs : Subscribe(d)
        \/ Tick
        \/ AtRest
  \/ Crashed

Spec == Init /\ [][Next]_vars

\* A thread that can go on does so; a thread that keeps finding a mutex free
\* gets it in the end (strong fairness); packets and calls may stop coming.
Fairness ==
  /\ \A t \in Receivers : SF_vars(~fault /\ (ReceiverStep(t) \/ RemoveStep(t) \/ UseFreed(t)))
  /\ \A e \in Expirers : SF_vars(~fault /\ (ExpirerStep(e) \/ RemoveStep(e) \/ UseFreed(e)))
  /\ SF_vars(~fault /\ (StopStep \/ IpStep \/ RemoveStep(App) \/ UseFreed(App)))
  /\ WF_vars(~fault /\ Tick)

FairSpec == Spec /\ Fairness

-----------------------------------------------------------------------------
(* Properties that hold.                                                   *)

ReceiverPcs ==
  {"idle", "add", "create", "update", "signal", "notify", "remove", "rmNotify", "rmDelete"}
ExpirerPcs ==
  {"off", "started", "awake", "lock", "scan", "read", "remove", "rmNotify", "rmDelete",
   "back", "plan", "sleep", "waiting"}
AppPcs ==
  {"idle", "stopSignal", "stopServers", "stopLock", "stopScan", "stopNotify", "stopRelock",
   "startThread", "startServers", "ipLock", "ipScan", "ipRead", "remove", "rmNotify",
   "rmDelete", "ipBack"}

Carries == {"add", "create", "update", "signal", "notify", "remove", "rmNotify", "rmDelete"}

HeapType ==
  /\ alloc \in 0..MaxDevs /\ devs \subseteq 1..alloc /\ blank \subseteq Nat
  /\ name \in [Devs -> Udns \cup {None}] /\ \A d \in devs : name[d] \in Udns
  /\ exp \in [Devs -> Nat] /\ sub \in [Devs -> Nat]
  /\ now \in Nat

PcType(p) ==
  /\ p \in [Threads -> ReceiverPcs \cup ExpirerPcs \cup AppPcs]
  /\ \A t \in Receivers : p[t] \in ReceiverPcs
  /\ \A e \in Expirers : p[e] \in ExpirerPcs
  /\ p[App] \in AppPcs

ThreadType ==
  /\ mutex \in Threads \cup {None} /\ expMutex \in Expirers \cup {None}
  /\ PcType(pc)

LocalType ==
  /\ pkt \in [Threads -> Packets]
  /\ \A t \in Threads : pc[t] \in Carries => pkt[t].udn \in Udns
  /\ ptr \in [Threads -> Devs \cup {Nil}] /\ nxt \in [Threads -> Devs \cup {Nil}]
  /\ curr \in [Expirers -> Nat] /\ due \in [Expirers -> Nat] /\ until \in [Expirers -> Nat]

FlagType ==
  /\ runnable \in BOOLEAN /\ serving \in BOOLEAN /\ restart \in BOOLEAN
  /\ calls \in Nat
  /\ view \in [Udns -> BOOLEAN]
  /\ fault \in BOOLEAN

\* Every variable keeps its type; the devices of the list have been allocated and
\* named, and a thread that works on an announcement has one.
TypeOK == HeapType /\ ThreadType /\ LocalType /\ FlagType

Cached(u) == \E d \in Named : name[d] = u

\* No UDN is that of two devices of the cache, although the lookup and the
\* insertion are separate steps with an HTTP fetch of the description between.
UniqueUdn == \A a, b \in Named : name[a] = name[b] => a = b

PointersValid(t) ==
  /\ pc[t] \in {"update", "signal"} => ptr[t] \in devs /\ name[ptr[t]] = pkt[t].udn
  /\ pc[t] = "update" => ptr[t] \notin blank
  /\ pc[t] = "create" => ~Cached(pkt[t].udn)
  /\ pc[t] \in {"scan", "stopScan", "ipScan"} => nxt[t] \in devs \cup {Nil}

\* While a thread holds the control point's mutex, the device pointers it took
\* under that mutex stay valid and its failed lookups stay failed.
LockedPointersValid == \A t \in Threads : PointersValid(t)

\* A cached device is hidden from the application only while the thread that
\* adds it, or one that has reported its UDN removed and is about to delete, is
\* still at work: no finished sequence of callbacks ends in Removed for it.
\* (A device that loses its UDN when it moves can be replaced while a removal of
\* it is reported, and the Removed then hides its successor.)
CachedIsAnnounced ==
  (Listening /\ ~Moving /\ ~fault) =>
    \A d \in Named :
      \/ view[name[d]]
      \/ \E t \in Receivers : pc[t] \in {"signal", "notify"} /\ ptr[t] = d
      \/ \E t \in Threads : pc[t] = "rmDelete" /\ pkt[t].udn = name[d]
      \/ pc[App] \in {"stopNotify", "stopRelock", "stopScan"}

\* Every call of the application and every packet in a receiver comes to an
\* end, whatever the other threads do with the mutexes.
CallsReturn == \A t \in Receivers \cup {App} : pc[t] # "idle" ~> (pc[t] = "idle" \/ fault)

=============================================================================
