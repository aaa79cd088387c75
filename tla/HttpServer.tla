----------------------------- MODULE HttpServer -----------------------------
(***************************************************************************)
(* One HTTP server of a device or a control point: the application that    *)
(* opens, starts, stops, closes and deletes it, the accept thread, and one *)
(* client thread per accepted connection.  A client thread frees its own   *)
(* CgThread object; stopping the server frees the objects of all the       *)
(* threads it still lists, and nobody waits for a thread to end: a stop    *)
(* clears runnableFlag and sleeps for a second, which orders nothing.      *)
(*                                                                         *)
(* A connection, its socket and its CgThread object are one member of      *)
(* Conns.  Using freed memory sets fault, which ends the run.              *)
(***************************************************************************)
EXTENDS Integers, FiniteSets

CONSTANTS
  Conns,       \* connections clients may open
  App,         \* the application's thread
  Acceptor,    \* the accept thread
  None,        \* no thread
  MaxRequests  \* bound: requests a client sends on one connection

Threads == Conns \cup {App, Acceptor}

ASSUME ThreadAssumption ==
  /\ None \notin Threads
  /\ App \notin Conns /\ Acceptor \notin Conns /\ App # Acceptor
  /\ MaxRequests \in Nat

VARIABLES
  app,      \* where the application is
  server,   \* the CgHttpServer object: "live" or "freed"
  sock,     \* httpServer->sock: "none", "open" or "freed"
  mutex,    \* httpServer->mutex: its owner or None
  acc,      \* where the accept thread is
  accObj,   \* httpServer->acceptThread: "none", "live" or "freed"
  accFlag,  \* its runnableFlag
  new,      \* the connection the accept thread has accepted, or None
  hasList,  \* httpServer->clientThreads # NULL
  list,     \* the threads it lists
  todo,     \* threads cg_threadlist_stop has not come to
  obj,      \* the CgThread object of a client thread: "none", "live" or "freed"
  flag,     \* its runnableFlag
  pc,       \* where each client thread is
  kind,     \* the request it has read
  heard,    \* requests given to the listener
  after,    \* history: those given after runnableFlag was cleared
  quiet,    \* history: the stop began with no connection under way and none came
  fault     \* freed memory was used

objects == <<server, sock, mutex, accObj, accFlag, hasList, list, obj, flag>>
clients == <<pc, kind, heard, after>>
acceptor == <<acc, new>>
vars == <<app, objects, acceptor, todo, clients, quiet, fault>>

\* A request: without the Host header of HTTP/1.1, to be answered on a connection
\* that stays open, or the last one (HTTP/1.0 or not keep-alive).
Kinds == {"bad", "keep", "last"}

Init ==
  /\ app = "new" /\ server = "live" /\ sock = "none" /\ mutex = None
  /\ acc = "none" /\ accObj = "none" /\ accFlag = FALSE /\ new = None
  /\ hasList = FALSE /\ list = {} /\ todo = {}
  /\ obj = [c \in Conns |-> "none"]
  /\ flag = [c \in Conns |-> FALSE]
  /\ pc = [c \in Conns |-> "none"]
  /\ kind = [c \in Conns |-> "last"]
  /\ heard = [c \in Conns |-> 0] /\ after = [c \in Conns |-> 0]
  /\ quiet = FALSE /\ fault = FALSE

Fault == fault' = TRUE /\ UNCHANGED <<app, objects, acceptor, todo, clients, quiet>>

Goto(c, l) == pc' = [pc EXCEPT ![c] = l]

Idle(c) == pc[c] \in {"none", "gone"}

-----------------------------------------------------------------------------
(* The application.                                                        *)

Open ==
  /\ app = "new"
  /\ app' = "opened" /\ sock' = "open"
  /\ UNCHANGED <<server, mutex, accObj, accFlag, hasList, list, obj, flag, acceptor,
                 todo, clients, quiet, fault>>

\* cg_http_serverlist_open deletes a server that cannot be bound.
OpenFails ==
  /\ app = "new"
  /\ app' = "deleted" /\ server' = "freed"
  /\ UNCHANGED <<sock, mutex, accObj, accFlag, hasList, list, obj, flag, acceptor,
                 todo, clients, quiet, fault>>

Start ==
  /\ app = "opened"
  /\ app' = "started"
  /\ accObj' = "live" /\ accFlag' = TRUE /\ acc' = "begin"
  /\ hasList' = TRUE /\ list' = {}
  /\ UNCHANGED <<server, sock, mutex, obj, flag, new, todo, clients, quiet, fault>>

\* No accept thread: the server stays open, and nobody looks at the result.
StartFails ==
  /\ app = "opened"
  /\ app' = "started"
  /\ UNCHANGED <<objects, acceptor, todo, clients, quiet, fault>>

Stop ==
  /\ app = "started"
  /\ IF accObj = "live"
     THEN /\ accFlag' = FALSE /\ app' = "stopping"
          /\ quiet' = (acc \in {"wait", "end"} /\ \A c \in Conns : Idle(c))
     ELSE app' = "stopped" /\ quiet' = TRUE /\ UNCHANGED accFlag
  /\ UNCHANGED <<server, sock, mutex, accObj, hasList, list, obj, flag, acceptor, todo,
                 clients, fault>>

FreeAcceptor ==
  /\ app = "stopping"
  /\ app' = "lock" /\ accObj' = "freed"
  /\ UNCHANGED <<server, sock, mutex, accFlag, hasList, list, obj, flag, acceptor, todo,
                 clients, quiet, fault>>

LockList ==
  /\ app = "lock" /\ mutex = None
  /\ app' = "flag" /\ mutex' = App /\ todo' = list
  /\ UNCHANGED <<server, sock, accObj, accFlag, hasList, list, obj, flag, acceptor,
                 clients, quiet, fault>>

StopClient ==
  /\ app = "flag"
  /\ \E c \in todo :
       /\ todo' = todo \ {c}
       /\ flag' = [flag EXCEPT ![c] = FALSE]
  /\ UNCHANGED <<app, server, sock, mutex, accObj, accFlag, hasList, list, obj, acceptor,
                 clients, quiet, fault>>

FreeClient ==
  /\ app = "flag" /\ todo = {}
  /\ \E c \in list :
       /\ list' = list \ {c}
       /\ obj' = [obj EXCEPT ![c] = "freed"]
       /\ flag' = [flag EXCEPT ![c] = FALSE]
  /\ UNCHANGED <<app, server, sock, mutex, accObj, accFlag, hasList, acceptor, todo,
                 clients, quiet, fault>>

UnlockList ==
  /\ app = "flag" /\ todo = {} /\ list = {}
  /\ app' = "stopped" /\ hasList' = FALSE /\ mutex' = None
  /\ UNCHANGED <<server, sock, accObj, accFlag, list, obj, flag, acceptor, todo,
                 clients, quiet, fault>>

Close ==
  /\ app = "stopped"
  /\ app' = "closed" /\ sock' = "freed"
  /\ UNCHANGED <<server, mutex, accObj, accFlag, hasList, list, obj, flag, acceptor,
                 todo, clients, quiet, fault>>

Delete ==
  /\ app = "closed"
  /\ app' = "deleted" /\ server' = "freed"
  /\ UNCHANGED <<sock, mutex, accObj, accFlag, hasList, list, obj, flag, acceptor,
                 todo, clients, quiet, fault>>

-----------------------------------------------------------------------------
(* The accept thread.                                                      *)

AccGoto(l) == acc' = l /\ UNCHANGED <<app, objects, new, todo, clients, quiet, fault>>

AccBegin ==
  /\ acc = "begin"
  /\ IF accObj = "freed" \/ server = "freed" THEN Fault
     ELSE AccGoto(IF sock = "open" THEN "top" ELSE "end")

AccTop ==
  /\ acc = "top"
  /\ IF accObj = "freed" THEN Fault ELSE AccGoto(IF accFlag THEN "accept" ELSE "end")

\* accept() is called on the id of the server socket ...
AccCall ==
  /\ acc = "accept"
  /\ IF sock = "freed" THEN Fault ELSE AccGoto("wait")

\* ... returns a connection ...
AccConnection ==
  /\ acc = "wait" /\ sock = "open"
  /\ \E c \in Conns :
       /\ pc[c] = "none" /\ obj[c] = "none"
       /\ new' = c
  /\ acc' = "made"
  /\ quiet' = (quiet /\ app = "started")
  /\ UNCHANGED <<app, objects, todo, clients, fault>>

\* Mutant of AccFails: the accept thread tries again instead of ending.
AccRetries == acc = "wait" /\ AccGoto("top")

\* ... or fails: always once the socket is closed, and now and then before.  The
\* accept thread ends, the server stays.
AccFails == acc = "wait" /\ AccGoto("end")

\* Mutant of AccLock: the connection is forgotten before its thread is made.
AccLockForgets ==
  /\ acc = "made" /\ server = "live" /\ mutex = None
  /\ mutex' = Acceptor
  /\ obj' = [obj EXCEPT ![new] = "live"]
  /\ acc' = "add" /\ new' = None
  /\ UNCHANGED <<app, server, sock, accObj, accFlag, hasList, list, flag, todo, clients,
                 quiet, fault>>

\* The address of the server socket, the timeout of the server, then the lock.
AccLock ==
  /\ acc = "made"
  /\ IF sock = "freed" \/ server = "freed" THEN Fault
     ELSE /\ mutex = None
          /\ mutex' = Acceptor
          /\ obj' = [obj EXCEPT ![new] = "live"]
          /\ acc' = "add"
          /\ UNCHANGED <<app, server, sock, accObj, accFlag, hasList, list, flag, new,
                         todo, clients, quiet, fault>>

\* Adding to a list that is gone does nothing.
AccAdd ==
  /\ acc = "add"
  /\ IF server = "freed" THEN Fault
     ELSE /\ list' = IF hasList THEN list \cup {new} ELSE list
          /\ mutex' = None
          /\ acc' = "start"
          /\ UNCHANGED <<app, server, sock, accObj, accFlag, hasList, obj, flag, new,
                         todo, clients, quiet, fault>>

AccStart ==
  /\ acc = "start"
  /\ IF obj[new] = "freed" THEN Fault
     ELSE /\ flag' = [flag EXCEPT ![new] = TRUE]
          /\ Goto(new, "begin")
          /\ acc' = "top" /\ new' = None
          /\ UNCHANGED <<app, server, sock, mutex, accObj, accFlag, hasList, list, obj,
                         todo, kind, heard, after, quiet, fault>>

\* The result of cg_thread_start is not looked at: the thread stays listed, its
\* connection open.
AccStartFails ==
  /\ acc = "start"
  /\ obj[new] = "live"
  /\ flag' = [flag EXCEPT ![new] = FALSE]
  /\ acc' = "top" /\ new' = None
  /\ UNCHANGED <<app, server, sock, mutex, accObj, accFlag, hasList, list, obj, todo,
                 clients, quiet, fault>>

-----------------------------------------------------------------------------
(* The client thread of connection c.                                      *)

Step(c, l) ==
  /\ Goto(c, l)
  /\ UNCHANGED <<app, objects, acceptor, todo, kind, heard, after, quiet, fault>>

Begin(c) ==
  /\ pc[c] = "begin"
  /\ IF obj[c] = "freed" \/ server = "freed" THEN Fault ELSE Step(c, "read")

Read(c) ==
  /\ pc[c] = "read" /\ heard[c] < MaxRequests
  /\ \E k \in Kinds : kind' = [kind EXCEPT ![c] = k]
  /\ Goto(c, "check")
  /\ UNCHANGED <<app, objects, acceptor, todo, heard, after, quiet, fault>>

\* Mutant of ReadFails: a read without a timeout.
ReadBlocks(c) == pc[c] = "read" /\ sock = "freed" /\ Step(c, "leave")

\* End of the stream, an error, or nothing for two seconds.
ReadFails(c) == pc[c] = "read" /\ Step(c, "leave")

\* Mutant of Check: the flag of the thread is not looked at.
CheckNothing(c) ==
  /\ pc[c] = "check"
  /\ IF obj[c] = "freed" THEN Fault ELSE Step(c, "serve")

Check(c) ==
  /\ pc[c] = "check"
  /\ IF obj[c] = "freed" THEN Fault ELSE Step(c, IF flag[c] THEN "serve" ELSE "leave")

\* A request without Host is answered by the server itself.
Refuse(c) ==
  /\ pc[c] = "serve" /\ kind[c] = "bad"
  /\ heard' = [heard EXCEPT ![c] = @ + 1]
  /\ Goto(c, "read")
  /\ UNCHANGED <<app, objects, acceptor, todo, kind, after, quiet, fault>>

Serve(c) ==
  /\ pc[c] = "serve" /\ kind[c] # "bad"
  /\ IF server = "freed" THEN Fault
     ELSE /\ heard' = [heard EXCEPT ![c] = @ + 1]
          /\ after' = [after EXCEPT ![c] = IF flag[c] THEN @ ELSE @ + 1]
          /\ Goto(c, "listener")
          /\ UNCHANGED <<app, objects, acceptor, todo, kind, quiet, fault>>

Served(c) ==
  /\ pc[c] = "listener"
  /\ Step(c, IF kind[c] = "keep" THEN "read" ELSE "leave")

\* The connection is closed; cg_thread_setuserdata writes to the thread object.
Leave(c) ==
  /\ pc[c] = "leave"
  /\ IF obj[c] = "freed" THEN Fault ELSE Step(c, "lock")

Lock(c) ==
  /\ pc[c] = "lock"
  /\ IF server = "freed" THEN Fault
     ELSE /\ mutex = None
          /\ mutex' = c
          /\ Goto(c, "unlink")
          /\ UNCHANGED <<app, server, sock, accObj, accFlag, hasList, list, obj, flag,
                         acceptor, todo, kind, heard, after, quiet, fault>>

\* Mutants of Unlink: the mutex is kept; the thread stays in the list; the thread
\* object is freed here already.
UnlinkLocked(c) ==
  /\ pc[c] = "unlink" /\ obj[c] = "live" /\ server = "live"
  /\ list' = list \ {c}
  /\ Goto(c, "free")
  /\ UNCHANGED <<app, server, sock, mutex, accObj, accFlag, hasList, obj, flag, acceptor,
                 todo, kind, heard, after, quiet, fault>>

UnlinkNothing(c) ==
  /\ pc[c] = "unlink" /\ obj[c] = "live" /\ server = "live"
  /\ mutex' = None
  /\ Goto(c, "free")
  /\ UNCHANGED <<app, server, sock, accObj, accFlag, hasList, list, obj, flag, acceptor,
                 todo, kind, heard, after, quiet, fault>>

UnlinkFrees(c) ==
  /\ pc[c] = "unlink" /\ obj[c] = "live" /\ server = "live"
  /\ list' = list \ {c} /\ obj' = [obj EXCEPT ![c] = "freed"]
  /\ mutex' = None
  /\ Goto(c, "free")
  /\ UNCHANGED <<app, server, sock, accObj, accFlag, hasList, flag, acceptor, todo, kind,
                 heard, after, quiet, fault>>

Unlink(c) ==
  /\ pc[c] = "unlink"
  /\ IF obj[c] = "freed" \/ server = "freed" THEN Fault
     ELSE /\ list' = list \ {c}
          /\ mutex' = None
          /\ Goto(c, "free")
          /\ UNCHANGED <<app, server, sock, accObj, accFlag, hasList, obj, flag, acceptor,
                         todo, kind, heard, after, quiet, fault>>

\* cg_thread_delete of the thread itself.
FreeSelf(c) ==
  /\ pc[c] = "free"
  /\ IF obj[c] = "freed" THEN Fault
     ELSE /\ obj' = [obj EXCEPT ![c] = "freed"]
          /\ flag' = [flag EXCEPT ![c] = FALSE]
          /\ Goto(c, "gone")
          /\ UNCHANGED <<app, server, sock, mutex, accObj, accFlag, hasList, list,
                         acceptor, todo, kind, heard, after, quiet, fault>>

-----------------------------------------------------------------------------

AppNext ==
  \/ Open \/ OpenFails \/ Start \/ StartFails \/ Stop \/ FreeAcceptor \/ LockList
  \/ StopClient \/ FreeClient \/ UnlockList \/ Close \/ Delete

AccNext ==
  \/ AccBegin \/ AccTop \/ AccCall \/ AccConnection \/ AccFails \/ AccLock \/ AccAdd
  \/ AccStart \/ AccStartFails

ClientNext(c) ==
  \/ Begin(c) \/ Read(c) \/ ReadFails(c) \/ Check(c) \/ Refuse(c) \/ Serve(c)
  \/ Served(c) \/ Leave(c) \/ Lock(c) \/ Unlink(c) \/ FreeSelf(c)

Next == ~fault /\ (AppNext \/ AccNext \/ \E c \in Conns : ClientNext(c))

\* A stop that has begun goes on, an accept on a closed socket returns, a client thread
\* reads with a timeout and its listener returns; nobody has to start or to stop the
\* server.
Fairness ==
  /\ WF_vars(~fault /\ app \notin {"new", "opened", "started"} /\ AppNext)
  /\ WF_vars(~fault /\ (sock = "freed" \/ acc # "wait") /\ AccNext)
  /\ \A c \in Conns : WF_vars(~fault /\ ClientNext(c))

Spec == Init /\ [][Next]_vars /\ Fairness

-----------------------------------------------------------------------------
(* Properties.                                                             *)

TypeOK ==
  /\ app \in {"new", "opened", "started", "stopping", "lock", "flag", "stopped", "closed",
              "deleted"}
  /\ server \in {"live", "freed"} /\ sock \in {"none", "open", "freed"}
  /\ mutex \in Threads \cup {None}
  /\ acc \in {"none", "begin", "top", "accept", "wait", "made", "add", "start", "end"}
  /\ accObj \in {"none", "live", "freed"} /\ accFlag \in BOOLEAN
  /\ new \in Conns \cup {None} /\ (acc \in {"made", "add", "start"} => new # None)
  /\ hasList \in BOOLEAN /\ list \subseteq Conns /\ todo \subseteq Conns
  /\ obj \in [Conns -> {"none", "live", "freed"}] /\ flag \in [Conns -> BOOLEAN]
  /\ pc \in [Conns -> {"none", "begin", "read", "check", "serve", "listener", "leave",
                       "lock", "unlink", "free", "gone"}]
  /\ kind \in [Conns -> Kinds]
  /\ heard \in [Conns -> Nat] /\ after \in [Conns -> Nat]
  /\ quiet \in BOOLEAN /\ fault \in BOOLEAN

\* The list never holds a freed thread object: cg_threadlist_stop, which walks it, and
\* the threads that unlink themselves meanwhile agree through the mutex.
ListedAlive == \A c \in list : obj[c] = "live"

\* As long as nobody stops the server, connections come and go, threads free themselves
\* and threads fail to start without any use of freed memory.
NoFaultWhileServing == app \in {"new", "opened", "started"} => ~fault

\* A stop that begins when the accept thread waits and every client thread has ended,
\* and that no connection overtakes, frees nothing that is still used.
QuietStopSafe == quiet => ~fault

\* A client thread gives at most one more request to the listener after the stop has
\* cleared its flag, however many its client has sent.
AtMostOneMore == \A c \in Conns : after[c] <= 1

\* The stop never waits for ever on the mutex: it returns, or the program faults.
StopReturns == (app = "stopping") ~> (app = "deleted" \/ fault)

\* A client thread ends and its connection is closed, also when the client is silent or
\* keeps the connection alive, and the mutex it needs for that is released.
ClientEnds == \A c \in Conns : (pc[c] = "begin") ~> (pc[c] = "gone" \/ fault)

=============================================================================
