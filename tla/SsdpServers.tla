---------------------------- MODULE SsdpServers ----------------------------
(***************************************************************************)
(* The SSDP servers of a device, one per network interface: the            *)
(* application opens, starts, stops, closes and deletes the list of them,  *)
(* and each has a receive thread that gives one packet after the other to  *)
(* the listener.  The listener of a device drops the searches it has heard *)
(* lately and waits before it goes on.                                     *)
(*                                                                         *)
(* A stop clears the flag of a thread, sleeps for a second, which orders   *)
(* nothing, and frees the thread object, one server after the other;       *)
(* sockets are closed and servers freed only after the last of them.       *)
(* Using freed memory sets fault, which ends the run.                      *)
(***************************************************************************)
EXTENDS Integers

CONSTANTS
  N,         \* number of interfaces: server i is the i-th of the list
  Searches,  \* the hashes of the searches that arrive
  Other,     \* any packet that is not a valid search
  Interval,  \* the filter interval
  MaxTime    \* bound: the clock stops here

ASSUME ServerAssumption ==
  /\ N \in Nat \ {0} /\ Interval \in Nat \ {0} /\ MaxTime \in Nat
  /\ Other \notin Searches

VARIABLES
  app,     \* what the application is doing with the list
  next,    \* the server it has come to
  server,  \* the CgUpnpSSDPServer object: "live" or "freed"
  sock,    \* its socket: "none", "open" or "closed" (and NULL)
  obj,     \* its thread object: "none", "live" or "freed"
  flag,    \* runnableFlag of the thread
  pc,      \* where its receive thread is
  pkt,     \* the packet it has received
  last,    \* timestamps of the duplicate filter, 0: none
  now,
  passed,  \* history: when a search was let through last, 0: never
  quiet,   \* history: the stop began with all threads waiting and no packet came
  fault    \* freed memory was used

Servers == 1..N
Packets == Searches \cup {Other}

walk == <<app, next>>
objects == <<server, sock, obj, flag>>
filter == <<last, passed>>
vars == <<walk, objects, pc, pkt, filter, now, quiet, fault>>

Init ==
  /\ app = "open" /\ next = 1
  /\ server = [i \in Servers |-> "live"] /\ sock = [i \in Servers |-> "none"]
  /\ obj = [i \in Servers |-> "none"] /\ flag = [i \in Servers |-> FALSE]
  /\ pc = [i \in Servers |-> "none"] /\ pkt = [i \in Servers |-> Other]
  /\ last = [i \in Servers |-> [s \in Searches |-> 0]] /\ passed = last
  /\ now = 1 /\ quiet = FALSE /\ fault = FALSE

Fault ==
  /\ fault' = TRUE
  /\ UNCHANGED <<walk, objects, pc, pkt, filter, now, quiet>>

-----------------------------------------------------------------------------
(* The application walks over the list.                                    *)

Listed(i) == server[i] = "live"

\* Mutant of Advance: off by one.
AdvanceLate(from, to) ==
  IF next <= N THEN app' = from /\ next' = next + 1 ELSE app' = to /\ next' = 1

\* The walk `from` has dealt with server next; `to` comes after the last one.
Advance(from, to) ==
  IF next < N THEN app' = from /\ next' = next + 1 ELSE app' = to /\ next' = 1

AppRest == UNCHANGED <<pc, pkt, filter, now, fault>>

Open ==
  /\ app = "open"
  /\ sock' = [sock EXCEPT ![next] = "open"]
  /\ Advance("open", "start")
  /\ UNCHANGED <<server, obj, flag, quiet>> /\ AppRest

\* The server is deleted, the list does without it, and the open succeeds all the same.
OpenFails ==
  /\ app = "open"
  /\ server' = [server EXCEPT ![next] = "freed"]
  /\ Advance("open", "start")
  /\ UNCHANGED <<sock, obj, flag, quiet>> /\ AppRest

Start ==
  /\ app = "start" /\ Listed(next)
  /\ obj' = [obj EXCEPT ![next] = "live"]
  /\ flag' = [flag EXCEPT ![next] = TRUE]
  /\ pc' = [pc EXCEPT ![next] = "begin"]
  /\ Advance("start", "serving")
  /\ UNCHANGED <<server, sock, pkt, filter, now, quiet, fault>>

StartFails ==
  /\ app = "start" /\ Listed(next)
  /\ Advance("start", "serving")
  /\ UNCHANGED <<objects, quiet>> /\ AppRest

\* Only the servers that were opened are in the list.
Skip ==
  /\ ~Listed(next)
  /\ \/ app = "start" /\ Advance("start", "serving")
     \/ app = "stop" /\ Advance("stop", "close")
     \/ app = "close" /\ Advance("close", "delete")
     \/ app = "delete" /\ Advance("delete", "deleted")
  /\ UNCHANGED <<objects, quiet>> /\ AppRest

BeginStop ==
  /\ app = "serving"
  /\ app' = "stop"
  /\ quiet' = \A i \in Servers : pc[i] \in {"none", "wait", "end"}
  /\ UNCHANGED <<next, objects>> /\ AppRest

\* cg_thread_stop, and its sleep.
Stop ==
  /\ app = "stop" /\ Listed(next) /\ obj[next] = "live"
  /\ app' = "free"
  /\ flag' = [flag EXCEPT ![next] = FALSE]
  /\ UNCHANGED <<next, server, sock, obj, quiet>> /\ AppRest

StopNothing ==
  /\ app = "stop" /\ Listed(next) /\ obj[next] = "none"
  /\ Advance("stop", "close")
  /\ UNCHANGED <<objects, quiet>> /\ AppRest

\* Mutant of FreeThread: the server is freed with its thread.
FreeServer ==
  /\ app = "free"
  /\ obj' = [obj EXCEPT ![next] = "freed"]
  /\ server' = [server EXCEPT ![next] = "freed"]
  /\ Advance("stop", "close")
  /\ UNCHANGED <<sock, flag, quiet>> /\ AppRest

FreeThread ==
  /\ app = "free"
  /\ obj' = [obj EXCEPT ![next] = "freed"]
  /\ Advance("stop", "close")
  /\ UNCHANGED <<server, sock, flag, quiet>> /\ AppRest

\* Mutant of Close: the socket stays open.
CloseNothing ==
  /\ app = "close" /\ Listed(next)
  /\ Advance("close", "delete")
  /\ UNCHANGED <<objects, quiet>> /\ AppRest

Close ==
  /\ app = "close" /\ Listed(next)
  /\ sock' = [sock EXCEPT ![next] = "closed"]
  /\ Advance("close", "delete")
  /\ UNCHANGED <<server, obj, flag, quiet>> /\ AppRest

Delete ==
  /\ app = "delete" /\ Listed(next)
  /\ server' = [server EXCEPT ![next] = "freed"]
  /\ Advance("delete", "deleted")
  /\ UNCHANGED <<sock, obj, flag, quiet>> /\ AppRest

-----------------------------------------------------------------------------
(* Receive thread i.                                                       *)

Goto(i, l) == pc' = [pc EXCEPT ![i] = l]

Step(i, l) ==
  /\ Goto(i, l)
  /\ UNCHANGED <<walk, objects, pkt, filter, now, quiet, fault>>

Begin(i) ==
  /\ pc[i] = "begin"
  /\ IF obj[i] = "freed" \/ server[i] = "freed" THEN Fault
     ELSE Step(i, IF sock[i] = "open" THEN "top" ELSE "end")

Top(i) ==
  /\ pc[i] = "top"
  /\ IF obj[i] = "freed" THEN Fault ELSE Step(i, IF flag[i] THEN "recv" ELSE "end")

Call(i) ==
  /\ pc[i] = "recv"
  /\ IF server[i] = "freed" THEN Fault
     ELSE Step(i, IF sock[i] = "open" THEN "wait" ELSE "end")

Receive(i) ==
  /\ pc[i] = "wait" /\ sock[i] = "open"
  /\ \E p \in Packets : pkt' = [pkt EXCEPT ![i] = p]
  /\ Goto(i, "got")
  /\ quiet' = (quiet /\ app \notin {"stop", "free", "close"})
  /\ UNCHANGED <<walk, objects, filter, now, fault>>

\* The socket was closed; or an error or an empty datagram on an open one: the thread
\* ends for good and its server stays.
ReceiveNothing(i) == pc[i] = "wait" /\ Step(i, "end")

\* The port is read from the socket object, the listener from the server.
Hand(i) ==
  /\ pc[i] = "got"
  /\ IF sock[i] = "closed" \/ server[i] = "freed" THEN Fault
     ELSE Step(i, "listener")

Ignore(i) == pc[i] = "listener" /\ pkt[i] = Other /\ Step(i, "top")

\* Mutant of Duplicate: off by one.
DuplicateLate(i, s) == last[i][s] # 0 /\ now - last[i][s] < Interval - 1

\* A hash seen within the interval; 0 stands for a hash never seen.
Duplicate(i, s) == last[i][s] # 0 /\ now - last[i][s] < Interval

Stamp(i, s) == last' = [last EXCEPT ![i][s] = now]

Drop(i) ==
  /\ pc[i] = "listener" /\ pkt[i] # Other /\ Duplicate(i, pkt[i])
  /\ Stamp(i, pkt[i])
  /\ Goto(i, "top")
  /\ UNCHANGED <<walk, objects, pkt, passed, now, quiet, fault>>

Pass(i) ==
  /\ pc[i] = "listener" /\ pkt[i] # Other /\ ~Duplicate(i, pkt[i])
  /\ Stamp(i, pkt[i])
  /\ passed' = [passed EXCEPT ![i][pkt[i]] = now]
  /\ Goto(i, "delay")
  /\ UNCHANGED <<walk, objects, pkt, now, quiet, fault>>

\* The random wait of the search is over; nothing is posted in this build.
Respond(i) == pc[i] = "delay" /\ Step(i, "top")

-----------------------------------------------------------------------------

Tick ==
  /\ now < MaxTime
  /\ now' = now + 1
  /\ UNCHANGED <<walk, objects, pc, pkt, filter, quiet, fault>>

AppNext ==
  \/ Open \/ OpenFails \/ Start \/ StartFails \/ Skip \/ BeginStop \/ Stop
  \/ StopNothing \/ FreeThread \/ Close \/ Delete

ThreadNext(i) ==
  \/ Begin(i) \/ Top(i) \/ Call(i) \/ Receive(i) \/ ReceiveNothing(i) \/ Hand(i)
  \/ Ignore(i) \/ Drop(i) \/ Pass(i) \/ Respond(i)

Next == ~fault /\ (AppNext \/ Tick \/ \E i \in Servers : ThreadNext(i))

\* A stop that has begun goes on, a receive on a closed socket returns, and so does the
\* listener; nobody has to send or to stop.
Fairness ==
  /\ WF_vars(~fault /\ app # "serving" /\ AppNext)
  /\ \A i \in Servers :
       WF_vars(~fault /\ (pc[i] = "wait" => sock[i] # "open") /\ ThreadNext(i))

Spec == Init /\ [][Next]_vars /\ Fairness

-----------------------------------------------------------------------------
(* Properties.                                                             *)

TypeOK ==
  /\ app \in {"open", "start", "serving", "stop", "free", "close", "delete", "deleted"}
  /\ next \in Servers
  /\ server \in [Servers -> {"live", "freed"}]
  /\ sock \in [Servers -> {"none", "open", "closed"}]
  /\ obj \in [Servers -> {"none", "live", "freed"}] /\ flag \in [Servers -> BOOLEAN]
  /\ pc \in [Servers -> {"none", "begin", "top", "recv", "wait", "got", "listener",
                         "delay", "end"}]
  /\ pkt \in [Servers -> Packets]
  /\ last \in [Servers -> [Searches -> Nat]] /\ passed \in [Servers -> [Searches -> Nat]]
  /\ now \in Nat
  /\ quiet \in BOOLEAN /\ fault \in BOOLEAN

\* Whatever fails while the servers are opened and started and whatever is received: no
\* freed memory is used before the application stops them; and none is used by a stop that
\* begins when all threads wait for a packet, if no packet comes on any interface until
\* its socket is closed.
FaultOnlyInBusyStop ==
  fault => ~quiet /\ app \notin {"open", "start", "serving"}

\* Two equal searches that are let through on an interface are an interval apart, also
\* when the repetitions in between were dropped.
SearchesApart ==
  [][\A i \in Servers, s \in Searches :
       passed'[i][s] # passed[i][s] /\ passed[i][s] # 0 =>
         passed'[i][s] - passed[i][s] >= Interval]_vars

\* Once its server is deleted a receive thread ends: it hangs in no receive for ever.
ReceiversEnd ==
  \A i \in Servers :
    (app = "deleted" /\ pc[i] # "none") ~> (pc[i] = "end" \/ fault)

=============================================================================
