--------------------------- MODULE HttpServerProofs ---------------------------
(***************************************************************************)
(* Proofs about HttpServer: the type invariant, and that the thread list,  *)
(* the thread objects and the server object stay alive as long as the code *)
(* of HttpServer relies on it, and that a thread whose flag a stop has     *)
(* cleared gives at most one more request to the listener.                 *)
(***************************************************************************)
EXTENDS HttpServer, TLAPS

Serving == app \in {"new", "opened", "started"}

\* The mutex belongs to the thread whose program counter says so.
MutexInv ==
  /\ mutex = App <=> app = "flag"
  /\ mutex = Acceptor <=> acc = "add"
  /\ \A c \in Conns : mutex = c <=> pc[c] = "unlink"

\* A listed object is alive; a thread that has unlinked itself is not listed and cannot
\* be listed again, since the accept thread only lists a thread it has not started.
ListInv ==
  /\ ~hasList => list = {}
  /\ \A c \in list : obj[c] = "live"
  /\ \A c \in Conns : pc[c] \in {"free", "gone"} => c \notin list
  /\ \A c \in Conns : obj[c] = "none" => pc[c] = "none"
  /\ acc \in {"made", "add", "start"} => pc[new] = "none"
  /\ acc = "made" => obj[new] = "none"
  /\ acc = "add" => obj[new] = "live"
  /\ acc = "start" => obj[new] # "none"

\* Until the stop everything a running thread uses is there.
ServingInv ==
  Serving =>
    /\ ~fault /\ ~quiet /\ server = "live" /\ sock # "freed"
    /\ accObj # "freed"
    /\ \A c \in Conns : pc[c] \notin {"none", "gone"} => obj[c] = "live"
    /\ acc = "start" => obj[new] = "live"

\* A quiet stop: nobody but the application runs.
QuietInv ==
  quiet => ~fault /\ acc \in {"none", "wait", "end"} /\ \A c \in Conns : Idle(c)

\* Without an accept thread there is no connection.
NoAcceptorInv ==
  /\ app \in {"new", "opened"} => accObj = "none"
  /\ accObj = "none" => acc = "none"
  /\ acc = "none" => \A c \in Conns : pc[c] = "none"

Inv == TypeOK /\ MutexInv /\ ListInv /\ ServingInv /\ QuietInv /\ NoAcceptorInv

LEMMA InitInv == Init => Inv
<1> SUFFICES ASSUME Init PROVE Inv
  OBVIOUS
<1>1. TypeOK
  BY DEF Init, TypeOK, Kinds, Threads
<1>2. MutexInv
  BY ThreadAssumption DEF Init, MutexInv, Threads
<1>3. ListInv /\ ServingInv /\ QuietInv /\ NoAcceptorInv
  BY DEF Init, ListInv, ServingInv, QuietInv, NoAcceptorInv, Serving
<1> QED  BY <1>1, <1>2, <1>3 DEF Inv

LEMMA FaultTypes ==
  ASSUME TypeOK, Fault
  PROVE  TypeOK'
BY DEF TypeOK, Fault, objects, acceptor, clients

LEMMA AppStep ==
  ASSUME Inv, ~fault, AppNext
  PROVE  Inv'
<1> USE ThreadAssumption DEF Inv, Threads
<1>1. CASE Open
  <2>1. TypeOK'
    BY <1>1 DEF Open, TypeOK, Kinds, objects, acceptor, clients
  <2>2. MutexInv'
    BY <1>1 DEF Open, TypeOK, MutexInv, NoAcceptorInv, Kinds, objects, acceptor, clients
  <2>3. ListInv'
    BY <1>1 DEF Open, TypeOK, MutexInv, ListInv, Kinds, objects, acceptor, clients
  <2>4. ServingInv'
    BY <1>1 DEF Open, TypeOK, ListInv, ServingInv, Serving, NoAcceptorInv, Idle, Kinds, objects, acceptor, clients
  <2>5. QuietInv'
    BY <1>1 DEF Open, TypeOK, QuietInv, ServingInv, Serving, NoAcceptorInv, Idle, Kinds, objects, acceptor, clients
  <2>6. NoAcceptorInv'
    BY <1>1 DEF Open, TypeOK, NoAcceptorInv, Kinds, objects, acceptor, clients
  <2> QED  BY <2>1, <2>2, <2>3, <2>4, <2>5, <2>6
<1>2. CASE OpenFails
  <2>1. TypeOK'
    BY <1>2 DEF OpenFails, TypeOK, Kinds, objects, acceptor, clients
  <2>2. MutexInv'
    BY <1>2 DEF OpenFails, TypeOK, MutexInv, NoAcceptorInv, Kinds, objects, acceptor, clients
  <2>3. ListInv'
    BY <1>2 DEF OpenFails, TypeOK, MutexInv, ListInv, Kinds, objects, acceptor, clients
  <2>4. ServingInv'
    BY <1>2 DEF OpenFails, TypeOK, ListInv, ServingInv, Serving, NoAcceptorInv, Idle, Kinds, objects, acceptor, clients
  <2>5. QuietInv'
    BY <1>2 DEF OpenFails, TypeOK, QuietInv, ServingInv, Serving, NoAcceptorInv, Idle, Kinds, objects, acceptor, clients
  <2>6. NoAcceptorInv'
    BY <1>2 DEF OpenFails, TypeOK, NoAcceptorInv, Kinds, objects, acceptor, clients
  <2> QED  BY <2>1, <2>2, <2>3, <2>4, <2>5, <2>6
<1>3. CASE Start
  <2>1. TypeOK'
    BY <1>3 DEF Start, TypeOK, Kinds, objects, acceptor, clients
  <2>2. MutexInv'
    BY <1>3 DEF Start, TypeOK, MutexInv, NoAcceptorInv, Kinds, objects, acceptor, clients
  <2>3. ListInv'
    BY <1>3 DEF Start, TypeOK, MutexInv, ListInv, Kinds, objects, acceptor, clients
  <2>4. ServingInv'
    BY <1>3 DEF Start, TypeOK, ListInv, ServingInv, Serving, NoAcceptorInv, Idle, Kinds, objects, acceptor, clients
  <2>5. QuietInv'
    BY <1>3 DEF Start, TypeOK, QuietInv, ServingInv, Serving, NoAcceptorInv, Idle, Kinds, objects, acceptor, clients
  <2>6. NoAcceptorInv'
    BY <1>3 DEF Start, TypeOK, NoAcceptorInv, Kinds, objects, acceptor, clients
  <2> QED  BY <2>1, <2>2, <2>3, <2>4, <2>5, <2>6
<1>4. CASE StartFails
  <2>1. TypeOK'
    BY <1>4 DEF StartFails, TypeOK, Kinds, objects, acceptor, clients
  <2>2. MutexInv'
    BY <1>4 DEF StartFails, TypeOK, MutexInv, NoAcceptorInv, Kinds, objects, acceptor, clients
  <2>3. ListInv'
    BY <1>4 DEF StartFails, TypeOK, MutexInv, ListInv, Kinds, objects, acceptor, clients
  <2>4. ServingInv'
    BY <1>4 DEF StartFails, TypeOK, ListInv, ServingInv, Serving, NoAcceptorInv, Idle, Kinds, objects, acceptor, clients
  <2>5. QuietInv'
    BY <1>4 DEF StartFails, TypeOK, QuietInv, ServingInv, Serving, NoAcceptorInv, Idle, Kinds, objects, acceptor, clients
  <2>6. NoAcceptorInv'
    BY <1>4 DEF StartFails, TypeOK, NoAcceptorInv, Kinds, objects, acceptor, clients
  <2> QED  BY <2>1, <2>2, <2>3, <2>4, <2>5, <2>6
<1>5. CASE Stop
  <2>1. TypeOK'
    <3>1. quiet' \in BOOLEAN
      BY <1>5 DEF Stop, TypeOK
    <3>2. app' \in {"stopping", "stopped"} /\ accFlag' \in BOOLEAN
      BY <1>5 DEF Stop, TypeOK
    <3>3. UNCHANGED <<server, sock, mutex, accObj, hasList, list, obj, flag, acceptor, todo,
                      clients, fault>>
      BY <1>5 DEF Stop
    <3> QED  BY <3>1, <3>2, <3>3 DEF TypeOK, acceptor, clients
  <2>2. MutexInv'
    BY <1>5 DEF Stop, TypeOK, MutexInv, NoAcceptorInv, Kinds, objects, acceptor, clients
  <2>3. ListInv'
    BY <1>5 DEF Stop, TypeOK, MutexInv, ListInv, Kinds, objects, acceptor, clients
  <2>4. ServingInv'
    BY <1>5 DEF Stop, TypeOK, ListInv, ServingInv, Serving, NoAcceptorInv, Idle, Kinds, objects, acceptor, clients
  <2>5. QuietInv'
    BY <1>5 DEF Stop, TypeOK, QuietInv, ServingInv, Serving, NoAcceptorInv, Idle, Kinds, objects, acceptor, clients
  <2>6. NoAcceptorInv'
    BY <1>5 DEF Stop, TypeOK, NoAcceptorInv, Kinds, objects, acceptor, clients
  <2> QED  BY <2>1, <2>2, <2>3, <2>4, <2>5, <2>6
<1>6. CASE FreeAcceptor
  <2>1. TypeOK'
    BY <1>6 DEF FreeAcceptor, TypeOK, Kinds, objects, acceptor, clients
  <2>2. MutexInv'
    BY <1>6 DEF FreeAcceptor, TypeOK, MutexInv, NoAcceptorInv, Kinds, objects, acceptor, clients
  <2>3. ListInv'
    BY <1>6 DEF FreeAcceptor, TypeOK, MutexInv, ListInv, Kinds, objects, acceptor, clients
  <2>4. ServingInv'
    BY <1>6 DEF FreeAcceptor, TypeOK, ListInv, ServingInv, Serving, NoAcceptorInv, Idle, Kinds, objects, acceptor, clients
  <2>5. QuietInv'
    BY <1>6 DEF FreeAcceptor, TypeOK, QuietInv, ServingInv, Serving, NoAcceptorInv, Idle, Kinds, objects, acceptor, clients
  <2>6. NoAcceptorInv'
    BY <1>6 DEF FreeAcceptor, TypeOK, NoAcceptorInv, Kinds, objects, acceptor, clients
  <2> QED  BY <2>1, <2>2, <2>3, <2>4, <2>5, <2>6
<1>7. CASE LockList
  <2>1. TypeOK'
    BY <1>7 DEF LockList, TypeOK, Kinds, objects, acceptor, clients
  <2>2. MutexInv'
    BY <1>7 DEF LockList, TypeOK, MutexInv, NoAcceptorInv, Kinds, objects, acceptor, clients
  <2>3. ListInv'
    BY <1>7 DEF LockList, TypeOK, MutexInv, ListInv, Kinds, objects, acceptor, clients
  <2>4. ServingInv'
    BY <1>7 DEF LockList, TypeOK, ListInv, ServingInv, Serving, NoAcceptorInv, Idle, Kinds, objects, acceptor, clients
  <2>5. QuietInv'
    BY <1>7 DEF LockList, TypeOK, QuietInv, ServingInv, Serving, NoAcceptorInv, Idle, Kinds, objects, acceptor, clients
  <2>6. NoAcceptorInv'
    BY <1>7 DEF LockList, TypeOK, NoAcceptorInv, Kinds, objects, acceptor, clients
  <2> QED  BY <2>1, <2>2, <2>3, <2>4, <2>5, <2>6
<1>8. CASE StopClient
  <2>1. TypeOK'
    BY <1>8 DEF StopClient, TypeOK, Kinds, objects, acceptor, clients
  <2>2. MutexInv'
    BY <1>8 DEF StopClient, TypeOK, MutexInv, NoAcceptorInv, Kinds, objects, acceptor, clients
  <2>3. ListInv'
    BY <1>8 DEF StopClient, TypeOK, MutexInv, ListInv, Kinds, objects, acceptor, clients
  <2>4. ServingInv'
    BY <1>8 DEF StopClient, TypeOK, ListInv, ServingInv, Serving, NoAcceptorInv, Idle, Kinds, objects, acceptor, clients
  <2>5. QuietInv'
    BY <1>8 DEF StopClient, TypeOK, QuietInv, ServingInv, Serving, NoAcceptorInv, Idle, Kinds, objects, acceptor, clients
  <2>6. NoAcceptorInv'
    BY <1>8 DEF StopClient, TypeOK, NoAcceptorInv, Kinds, objects, acceptor, clients
  <2> QED  BY <2>1, <2>2, <2>3, <2>4, <2>5, <2>6
<1>9. CASE FreeClient
  <2>1. TypeOK'
    BY <1>9 DEF FreeClient, TypeOK, Kinds, objects, acceptor, clients
  <2>2. MutexInv'
    BY <1>9 DEF FreeClient, TypeOK, MutexInv, NoAcceptorInv, Kinds, objects, acceptor, clients
  <2>3. ListInv'
    BY <1>9 DEF FreeClient, TypeOK, MutexInv, ListInv, Kinds, objects, acceptor, clients
  <2>4. ServingInv'
    BY <1>9 DEF FreeClient, TypeOK, ListInv, ServingInv, Serving, NoAcceptorInv, Idle, Kinds, objects, acceptor, clients
  <2>5. QuietInv'
    BY <1>9 DEF FreeClient, TypeOK, QuietInv, ServingInv, Serving, NoAcceptorInv, Idle, Kinds, objects, acceptor, clients
  <2>6. NoAcceptorInv'
    BY <1>9 DEF FreeClient, TypeOK, NoAcceptorInv, Kinds, objects, acceptor, clients
  <2> QED  BY <2>1, <2>2, <2>3, <2>4, <2>5, <2>6
<1>10. CASE UnlockList
  <2>1. TypeOK'
    BY <1>10 DEF UnlockList, TypeOK, Kinds, objects, acceptor, clients
  <2>2. MutexInv'
    BY <1>10 DEF UnlockList, TypeOK, MutexInv, NoAcceptorInv, Kinds, objects, acceptor, clients
  <2>3. ListInv'
    BY <1>10 DEF UnlockList, TypeOK, MutexInv, ListInv, Kinds, objects, acceptor, clients
  <2>4. ServingInv'
    BY <1>10 DEF UnlockList, TypeOK, ListInv, ServingInv, Serving, NoAcceptorInv, Idle, Kinds, objects, acceptor, clients
  <2>5. QuietInv'
    BY <1>10 DEF UnlockList, TypeOK, QuietInv, ServingInv, Serving, NoAcceptorInv, Idle, Kinds, objects, acceptor, clients
  <2>6. NoAcceptorInv'
    BY <1>10 DEF UnlockList, TypeOK, NoAcceptorInv, Kinds, objects, acceptor, clients
  <2> QED  BY <2>1, <2>2, <2>3, <2>4, <2>5, <2>6
<1>11. CASE Close
  <2>1. TypeOK'
    BY <1>11 DEF Close, TypeOK, Kinds, objects, acceptor, clients
  <2>2. MutexInv'
    BY <1>11 DEF Close, TypeOK, MutexInv, NoAcceptorInv, Kinds, objects, acceptor, clients
  <2>3. ListInv'
    BY <1>11 DEF Close, TypeOK, MutexInv, ListInv, Kinds, objects, acceptor, clients
  <2>4. ServingInv'
    BY <1>11 DEF Close, TypeOK, ListInv, ServingInv, Serving, NoAcceptorInv, Idle, Kinds, objects, acceptor, clients
  <2>5. QuietInv'
    BY <1>11 DEF Close, TypeOK, QuietInv, ServingInv, Serving, NoAcceptorInv, Idle, Kinds, objects, acceptor, clients
  <2>6. NoAcceptorInv'
    BY <1>11 DEF Close, TypeOK, NoAcceptorInv, Kinds, objects, acceptor, clients
  <2> QED  BY <2>1, <2>2, <2>3, <2>4, <2>5, <2>6
<1>12. CASE Delete
  <2>1. TypeOK'
    BY <1>12 DEF Delete, TypeOK, Kinds, objects, acceptor, clients
  <2>2. MutexInv'
    BY <1>12 DEF Delete, TypeOK, MutexInv, NoAcceptorInv, Kinds, objects, acceptor, clients
  <2>3. ListInv'
    BY <1>12 DEF Delete, TypeOK, MutexInv, ListInv, Kinds, objects, acceptor, clients
  <2>4. ServingInv'
    BY <1>12 DEF Delete, TypeOK, ListInv, ServingInv, Serving, NoAcceptorInv, Idle, Kinds, objects, acceptor, clients
  <2>5. QuietInv'
    BY <1>12 DEF Delete, TypeOK, QuietInv, ServingInv, Serving, NoAcceptorInv, Idle, Kinds, objects, acceptor, clients
  <2>6. NoAcceptorInv'
    BY <1>12 DEF Delete, TypeOK, NoAcceptorInv, Kinds, objects, acceptor, clients
  <2> QED  BY <2>1, <2>2, <2>3, <2>4, <2>5, <2>6
<1> QED  BY <1>1, <1>2, <1>3, <1>4, <1>5, <1>6, <1>7, <1>8, <1>9, <1>10, <1>11, <1>12 DEF AppNext

LEMMA AcceptorStep ==
  ASSUME Inv, ~fault, AccNext
  PROVE  Inv'
<1> USE ThreadAssumption DEF Inv, Threads
<1>1. CASE AccBegin
  <2>1. TypeOK'
    <3>1. CASE Fault
      BY <3>1, FaultTypes
    <3>2. CASE ~Fault
      BY <1>1, <3>2 DEF AccBegin, AccGoto, TypeOK, Kinds, objects, acceptor, clients
    <3> QED  BY <3>1, <3>2
  <2>2. MutexInv'
    BY <1>1 DEF AccBegin, AccGoto, Fault, TypeOK, MutexInv, NoAcceptorInv, Kinds, objects, acceptor, clients
  <2>3. ListInv'
    BY <1>1 DEF AccBegin, AccGoto, Fault, TypeOK, MutexInv, ListInv, Kinds, objects, acceptor, clients
  <2>4. ServingInv'
    BY <1>1 DEF AccBegin, AccGoto, Fault, TypeOK, ListInv, ServingInv, Serving, NoAcceptorInv, Idle, Kinds, objects, acceptor, clients
  <2>5. QuietInv'
    BY <1>1 DEF AccBegin, AccGoto, Fault, TypeOK, QuietInv, ServingInv, Serving, NoAcceptorInv, Idle, Kinds, objects, acceptor, clients
  <2>6. NoAcceptorInv'
    BY <1>1 DEF AccBegin, AccGoto, Fault, TypeOK, NoAcceptorInv, Kinds, objects, acceptor, clients
  <2> QED  BY <2>1, <2>2, <2>3, <2>4, <2>5, <2>6
<1>2. CASE AccTop
  <2>1. TypeOK'
    <3>1. CASE Fault
      BY <3>1, FaultTypes
    <3>2. CASE ~Fault
      BY <1>2, <3>2 DEF AccTop, AccGoto, TypeOK, Kinds, objects, acceptor, clients
    <3> QED  BY <3>1, <3>2
  <2>2. MutexInv'
    BY <1>2 DEF AccTop, AccGoto, Fault, TypeOK, MutexInv, NoAcceptorInv, Kinds, objects, acceptor, clients
  <2>3. ListInv'
    BY <1>2 DEF AccTop, AccGoto, Fault, TypeOK, MutexInv, ListInv, Kinds, objects, acceptor, clients
  <2>4. ServingInv'
    BY <1>2 DEF AccTop, AccGoto, Fault, TypeOK, ListInv, ServingInv, Serving, NoAcceptorInv, Idle, Kinds, objects, acceptor, clients
  <2>5. QuietInv'
    BY <1>2 DEF AccTop, AccGoto, Fault, TypeOK, QuietInv, ServingInv, Serving, NoAcceptorInv, Idle, Kinds, objects, acceptor, clients
  <2>6. NoAcceptorInv'
    BY <1>2 DEF AccTop, AccGoto, Fault, TypeOK, NoAcceptorInv, Kinds, objects, acceptor, clients
  <2> QED  BY <2>1, <2>2, <2>3, <2>4, <2>5, <2>6
<1>3. CASE AccCall
  <2>1. TypeOK'
    <3>1. CASE Fault
      BY <3>1, FaultTypes
    <3>2. CASE ~Fault
      BY <1>3, <3>2 DEF AccCall, AccGoto, TypeOK, Kinds, objects, acceptor, clients
    <3> QED  BY <3>1, <3>2
  <2>2. MutexInv'
    BY <1>3 DEF AccCall, AccGoto, Fault, TypeOK, MutexInv, NoAcceptorInv, Kinds, objects, acceptor, clients
  <2>3. ListInv'
    BY <1>3 DEF AccCall, AccGoto, Fault, TypeOK, MutexInv, ListInv, Kinds, objects, acceptor, clients
  <2>4. ServingInv'
    BY <1>3 DEF AccCall, AccGoto, Fault, TypeOK, ListInv, ServingInv, Serving, NoAcceptorInv, Idle, Kinds, objects, acceptor, clients
  <2>5. QuietInv'
    BY <1>3 DEF AccCall, AccGoto, Fault, TypeOK, QuietInv, ServingInv, Serving, NoAcceptorInv, Idle, Kinds, objects, acceptor, clients
  <2>6. NoAcceptorInv'
    BY <1>3 DEF AccCall, AccGoto, Fault, TypeOK, NoAcceptorInv, Kinds, objects, acceptor, clients
  <2> QED  BY <2>1, <2>2, <2>3, <2>4, <2>5, <2>6
<1>4. CASE AccConnection
  <2>1. TypeOK'
    BY <1>4 DEF AccConnection, TypeOK, Kinds, objects, acceptor, clients
  <2>2. MutexInv'
    BY <1>4 DEF AccConnection, TypeOK, MutexInv, NoAcceptorInv, Kinds, objects, acceptor, clients
  <2>3. ListInv'
    BY <1>4 DEF AccConnection, TypeOK, MutexInv, ListInv, Kinds, objects, acceptor, clients
  <2>4. ServingInv'
    BY <1>4 DEF AccConnection, TypeOK, ListInv, ServingInv, Serving, NoAcceptorInv, Idle, Kinds, objects, acceptor, clients
  <2>5. QuietInv'
    BY <1>4 DEF AccConnection, TypeOK, QuietInv, ServingInv, Serving, NoAcceptorInv, Idle, Kinds, objects, acceptor, clients
  <2>6. NoAcceptorInv'
    BY <1>4 DEF AccConnection, TypeOK, NoAcceptorInv, Kinds, objects, acceptor, clients
  <2> QED  BY <2>1, <2>2, <2>3, <2>4, <2>5, <2>6
<1>5. CASE AccFails
  <2>1. TypeOK'
    BY <1>5 DEF AccFails, AccGoto, TypeOK, Kinds, objects, acceptor, clients
  <2>2. MutexInv'
    BY <1>5 DEF AccFails, AccGoto, TypeOK, MutexInv, NoAcceptorInv, Kinds, objects, acceptor, clients
  <2>3. ListInv'
    BY <1>5 DEF AccFails, AccGoto, TypeOK, MutexInv, ListInv, Kinds, objects, acceptor, clients
  <2>4. ServingInv'
    BY <1>5 DEF AccFails, AccGoto, TypeOK, ListInv, ServingInv, Serving, NoAcceptorInv, Idle, Kinds, objects, acceptor, clients
  <2>5. QuietInv'
    BY <1>5 DEF AccFails, AccGoto, TypeOK, QuietInv, ServingInv, Serving, NoAcceptorInv, Idle, Kinds, objects, acceptor, clients
  <2>6. NoAcceptorInv'
    BY <1>5 DEF AccFails, AccGoto, TypeOK, NoAcceptorInv, Kinds, objects, acceptor, clients
  <2> QED  BY <2>1, <2>2, <2>3, <2>4, <2>5, <2>6
<1>6. CASE AccLock
  <2>1. TypeOK'
    <3>1. CASE Fault
      BY <3>1, FaultTypes
    <3>2. CASE ~Fault
      <4>1. new \in Conns
        BY <1>6, <3>2 DEF AccLock, TypeOK
      <4> QED  BY <1>6, <3>2, <4>1 DEF AccLock, TypeOK, Kinds, objects, acceptor, clients
    <3> QED  BY <3>1, <3>2
  <2>2. MutexInv'
    BY <1>6 DEF AccLock, Fault, TypeOK, MutexInv, NoAcceptorInv, Kinds, objects, acceptor, clients
  <2>3. ListInv'
    BY <1>6 DEF AccLock, Fault, TypeOK, MutexInv, ListInv, Kinds, objects, acceptor, clients
  <2>4. ServingInv'
    BY <1>6 DEF AccLock, Fault, TypeOK, ListInv, ServingInv, Serving, NoAcceptorInv, Idle, Kinds, objects, acceptor, clients
  <2>5. QuietInv'
    BY <1>6 DEF AccLock, Fault, TypeOK, QuietInv, ServingInv, Serving, NoAcceptorInv, Idle, Kinds, objects, acceptor, clients
  <2>6. NoAcceptorInv'
    BY <1>6 DEF AccLock, Fault, TypeOK, NoAcceptorInv, Kinds, objects, acceptor, clients
  <2> QED  BY <2>1, <2>2, <2>3, <2>4, <2>5, <2>6
<1>7. CASE AccAdd
  <2>1. TypeOK'
    <3>1. CASE Fault
      BY <3>1, FaultTypes
    <3>2. CASE ~Fault
      <4>1. new \in Conns
        BY <1>7, <3>2 DEF AccAdd, TypeOK
      <4> QED  BY <1>7, <3>2, <4>1 DEF AccAdd, TypeOK, Kinds, objects, acceptor, clients
    <3> QED  BY <3>1, <3>2
  <2>2. MutexInv'
    BY <1>7 DEF AccAdd, Fault, TypeOK, MutexInv, NoAcceptorInv, Kinds, objects, acceptor, clients
  <2>3. ListInv'
    BY <1>7 DEF AccAdd, Fault, TypeOK, MutexInv, ListInv, Kinds, objects, acceptor, clients
  <2>4. ServingInv'
    BY <1>7 DEF AccAdd, Fault, TypeOK, ListInv, ServingInv, Serving, NoAcceptorInv, Idle, Kinds, objects, acceptor, clients
  <2>5. QuietInv'
    BY <1>7 DEF AccAdd, Fault, TypeOK, QuietInv, ServingInv, Serving, NoAcceptorInv, Idle, Kinds, objects, acceptor, clients
  <2>6. NoAcceptorInv'
    BY <1>7 DEF AccAdd, Fault, TypeOK, NoAcceptorInv, Kinds, objects, acceptor, clients
  <2> QED  BY <2>1, <2>2, <2>3, <2>4, <2>5, <2>6
<1>8. CASE AccStart
  <2>1. TypeOK'
    <3>1. CASE Fault
      BY <3>1, FaultTypes
    <3>2. CASE ~Fault
      <4>1. new \in Conns
        BY <1>8, <3>2 DEF AccStart, TypeOK
      <4>2. /\ acc = "start" /\ obj[new] # "freed"
            /\ flag' = [flag EXCEPT ![new] = TRUE] /\ pc' = [pc EXCEPT ![new] = "begin"]
            /\ acc' = "top" /\ new' = None
            /\ UNCHANGED <<app, server, sock, mutex, accObj, accFlag, hasList, list, obj,
                           todo, kind, heard, after, quiet, fault>>
        BY <1>8, <3>2 DEF AccStart, Goto
      <4> QED  BY <4>1, <4>2 DEF TypeOK
    <3> QED  BY <3>1, <3>2
  <2>2. MutexInv'
    <3>1. CASE Fault
      BY <3>1 DEF Fault, TypeOK, MutexInv, NoAcceptorInv, objects, acceptor, clients
    <3>2. CASE ~Fault
      <4>1. new \in Conns
        BY <1>8, <3>2 DEF AccStart, TypeOK
      <4>2. /\ acc = "start" /\ obj[new] # "freed"
            /\ flag' = [flag EXCEPT ![new] = TRUE] /\ pc' = [pc EXCEPT ![new] = "begin"]
            /\ acc' = "top" /\ new' = None
            /\ UNCHANGED <<app, server, sock, mutex, accObj, accFlag, hasList, list, obj,
                           todo, kind, heard, after, quiet, fault>>
        BY <1>8, <3>2 DEF AccStart, Goto
      <4> QED  BY <4>1, <4>2 DEF TypeOK, MutexInv, ListInv
    <3> QED  BY <3>1, <3>2
  <2>3. ListInv'
    <3>1. CASE Fault
      BY <3>1 DEF Fault, TypeOK, MutexInv, ListInv, objects, acceptor, clients
    <3>2. CASE ~Fault
      <4>1. new \in Conns
        BY <1>8, <3>2 DEF AccStart, TypeOK
      <4>2. /\ acc = "start" /\ obj[new] # "freed"
            /\ flag' = [flag EXCEPT ![new] = TRUE] /\ pc' = [pc EXCEPT ![new] = "begin"]
            /\ acc' = "top" /\ new' = None
            /\ UNCHANGED <<app, server, sock, mutex, accObj, accFlag, hasList, list, obj,
                           todo, kind, heard, after, quiet, fault>>
        BY <1>8, <3>2 DEF AccStart, Goto
      <4> QED  BY <4>1, <4>2 DEF TypeOK, MutexInv, ListInv
    <3> QED  BY <3>1, <3>2
  <2>4. ServingInv'
    BY <1>8 DEF AccStart, Fault, Goto, TypeOK, ListInv, ServingInv, Serving, NoAcceptorInv, Idle, Kinds, objects, acceptor, clients
  <2>5. QuietInv'
    BY <1>8 DEF AccStart, Fault, Goto, TypeOK, QuietInv, ServingInv, Serving, NoAcceptorInv, Idle, Kinds, objects, acceptor, clients
  <2>6. NoAcceptorInv'
    BY <1>8 DEF AccStart, Fault, Goto, TypeOK, NoAcceptorInv, Kinds, objects, acceptor, clients
  <2> QED  BY <2>1, <2>2, <2>3, <2>4, <2>5, <2>6
<1>9. CASE AccStartFails
  <2>1. TypeOK'
    BY <1>9 DEF AccStartFails, TypeOK, Kinds, objects, acceptor, clients
  <2>2. MutexInv'
    BY <1>9 DEF AccStartFails, TypeOK, MutexInv, NoAcceptorInv, Kinds, objects, acceptor, clients
  <2>3. ListInv'
    BY <1>9 DEF AccStartFails, TypeOK, MutexInv, ListInv, Kinds, objects, acceptor, clients
  <2>4. ServingInv'
    BY <1>9 DEF AccStartFails, TypeOK, ListInv, ServingInv, Serving, NoAcceptorInv, Idle, Kinds, objects, acceptor, clients
  <2>5. QuietInv'
    BY <1>9 DEF AccStartFails, TypeOK, QuietInv, ServingInv, Serving, NoAcceptorInv, Idle, Kinds, objects, acceptor, clients
  <2>6. NoAcceptorInv'
    BY <1>9 DEF AccStartFails, TypeOK, NoAcceptorInv, Kinds, objects, acceptor, clients
  <2> QED  BY <2>1, <2>2, <2>3, <2>4, <2>5, <2>6
<1> QED  BY <1>1, <1>2, <1>3, <1>4, <1>5, <1>6, <1>7, <1>8, <1>9 DEF AccNext

LEMMA ClientStep ==
  ASSUME NEW c \in Conns, Inv, ~fault, ClientNext(c)
  PROVE  Inv'
<1> USE ThreadAssumption DEF Inv, Threads
<1>1. CASE Begin(c)
  <2>1. TypeOK'
    <3>1. CASE Fault
      BY <3>1, FaultTypes
    <3>2. CASE ~Fault
      BY <1>1, <3>2 DEF Begin, Step, Goto, TypeOK, Kinds, objects, acceptor, clients
    <3> QED  BY <3>1, <3>2
  <2>2. MutexInv'
    BY <1>1 DEF Begin, Fault, Step, Goto, TypeOK, MutexInv, NoAcceptorInv, Kinds, objects, acceptor, clients
  <2>3. ListInv'
    BY <1>1 DEF Begin, Fault, Step, Goto, TypeOK, MutexInv, ListInv, Kinds, objects, acceptor, clients
  <2>4. ServingInv'
    BY <1>1 DEF Begin, Fault, Step, Goto, TypeOK, ListInv, ServingInv, Serving, NoAcceptorInv, Idle, Kinds, objects, acceptor, clients
  <2>5. QuietInv'
    BY <1>1 DEF Begin, Fault, Step, Goto, TypeOK, QuietInv, ServingInv, Serving, NoAcceptorInv, Idle, Kinds, objects, acceptor, clients
  <2>6. NoAcceptorInv'
    BY <1>1 DEF Begin, Fault, Step, Goto, TypeOK, NoAcceptorInv, Kinds, objects, acceptor, clients
  <2> QED  BY <2>1, <2>2, <2>3, <2>4, <2>5, <2>6
<1>2. CASE Read(c)
  <2>1. TypeOK'
    BY <1>2 DEF Read, Goto, TypeOK, Kinds, objects, acceptor, clients
  <2>2. MutexInv'
    BY <1>2 DEF Read, Goto, TypeOK, MutexInv, NoAcceptorInv, Kinds, objects, acceptor, clients
  <2>3. ListInv'
    BY <1>2 DEF Read, Goto, TypeOK, MutexInv, ListInv, Kinds, objects, acceptor, clients
  <2>4. ServingInv'
    BY <1>2 DEF Read, Goto, TypeOK, ListInv, ServingInv, Serving, NoAcceptorInv, Idle, Kinds, objects, acceptor, clients
  <2>5. QuietInv'
    BY <1>2 DEF Read, Goto, TypeOK, QuietInv, ServingInv, Serving, NoAcceptorInv, Idle, Kinds, objects, acceptor, clients
  <2>6. NoAcceptorInv'
    BY <1>2 DEF Read, Goto, TypeOK, NoAcceptorInv, Kinds, objects, acceptor, clients
  <2> QED  BY <2>1, <2>2, <2>3, <2>4, <2>5, <2>6
<1>3. CASE ReadFails(c)
  <2>1. TypeOK'
    BY <1>3 DEF ReadFails, Step, Goto, TypeOK, Kinds, objects, acceptor, clients
  <2>2. MutexInv'
    BY <1>3 DEF ReadFails, Step, Goto, TypeOK, MutexInv, NoAcceptorInv, Kinds, objects, acceptor, clients
  <2>3. ListInv'
    BY <1>3 DEF ReadFails, Step, Goto, TypeOK, MutexInv, ListInv, Kinds, objects, acceptor, clients
  <2>4. ServingInv'
    BY <1>3 DEF ReadFails, Step, Goto, TypeOK, ListInv, ServingInv, Serving, NoAcceptorInv, Idle, Kinds, objects, acceptor, clients
  <2>5. QuietInv'
    BY <1>3 DEF ReadFails, Step, Goto, TypeOK, QuietInv, ServingInv, Serving, NoAcceptorInv, Idle, Kinds, objects, acceptor, clients
  <2>6. NoAcceptorInv'
    BY <1>3 DEF ReadFails, Step, Goto, TypeOK, NoAcceptorInv, Kinds, objects, acceptor, clients
  <2> QED  BY <2>1, <2>2, <2>3, <2>4, <2>5, <2>6
<1>4. CASE Check(c)
  <2>1. TypeOK'
    <3>1. CASE Fault
      BY <3>1, FaultTypes
    <3>2. CASE ~Fault
      BY <1>4, <3>2 DEF Check, Step, Goto, TypeOK, Kinds, objects, acceptor, clients
    <3> QED  BY <3>1, <3>2
  <2>2. MutexInv'
    BY <1>4 DEF Check, Fault, Step, Goto, TypeOK, MutexInv, NoAcceptorInv, Kinds, objects, acceptor, clients
  <2>3. ListInv'
    BY <1>4 DEF Check, Fault, Step, Goto, TypeOK, MutexInv, ListInv, Kinds, objects, acceptor, clients
  <2>4. ServingInv'
    BY <1>4 DEF Check, Fault, Step, Goto, TypeOK, ListInv, ServingInv, Serving, NoAcceptorInv, Idle, Kinds, objects, acceptor, clients
  <2>5. QuietInv'
    BY <1>4 DEF Check, Fault, Step, Goto, TypeOK, QuietInv, ServingInv, Serving, NoAcceptorInv, Idle, Kinds, objects, acceptor, clients
  <2>6. NoAcceptorInv'
    BY <1>4 DEF Check, Fault, Step, Goto, TypeOK, NoAcceptorInv, Kinds, objects, acceptor, clients
  <2> QED  BY <2>1, <2>2, <2>3, <2>4, <2>5, <2>6
<1>5. CASE Refuse(c)
  <2>1. TypeOK'
    BY <1>5 DEF Refuse, Goto, TypeOK, Kinds, objects, acceptor, clients
  <2>2. MutexInv'
    BY <1>5 DEF Refuse, Goto, TypeOK, MutexInv, NoAcceptorInv, Kinds, objects, acceptor, clients
  <2>3. ListInv'
    BY <1>5 DEF Refuse, Goto, TypeOK, MutexInv, ListInv, Kinds, objects, acceptor, clients
  <2>4. ServingInv'
    BY <1>5 DEF Refuse, Goto, TypeOK, ListInv, ServingInv, Serving, NoAcceptorInv, Idle, Kinds, objects, acceptor, clients
  <2>5. QuietInv'
    BY <1>5 DEF Refuse, Goto, TypeOK, QuietInv, ServingInv, Serving, NoAcceptorInv, Idle, Kinds, objects, acceptor, clients
  <2>6. NoAcceptorInv'
    BY <1>5 DEF Refuse, Goto, TypeOK, NoAcceptorInv, Kinds, objects, acceptor, clients
  <2> QED  BY <2>1, <2>2, <2>3, <2>4, <2>5, <2>6
<1>6. CASE Serve(c)
  <2>1. TypeOK'
    <3>1. CASE Fault
      BY <3>1, FaultTypes
    <3>2. CASE ~Fault
      BY <1>6, <3>2 DEF Serve, Goto, TypeOK, Kinds, objects, acceptor, clients
    <3> QED  BY <3>1, <3>2
  <2>2. MutexInv'
    BY <1>6 DEF Serve, Fault, Goto, TypeOK, MutexInv, NoAcceptorInv, Kinds, objects, acceptor, clients
  <2>3. ListInv'
    BY <1>6 DEF Serve, Fault, Goto, TypeOK, MutexInv, ListInv, Kinds, objects, acceptor, clients
  <2>4. ServingInv'
    BY <1>6 DEF Serve, Fault, Goto, TypeOK, ListInv, ServingInv, Serving, NoAcceptorInv, Idle, Kinds, objects, acceptor, clients
  <2>5. QuietInv'
    BY <1>6 DEF Serve, Fault, Goto, TypeOK, QuietInv, ServingInv, Serving, NoAcceptorInv, Idle, Kinds, objects, acceptor, clients
  <2>6. NoAcceptorInv'
    BY <1>6 DEF Serve, Fault, Goto, TypeOK, NoAcceptorInv, Kinds, objects, acceptor, clients
  <2> QED  BY <2>1, <2>2, <2>3, <2>4, <2>5, <2>6
<1>7. CASE Served(c)
  <2>1. TypeOK'
    BY <1>7 DEF Served, Step, Goto, TypeOK, Kinds, objects, acceptor, clients
  <2>2. MutexInv'
    BY <1>7 DEF Served, Step, Goto, TypeOK, MutexInv, NoAcceptorInv, Kinds, objects, acceptor, clients
  <2>3. ListInv'
    BY <1>7 DEF Served, Step, Goto, TypeOK, MutexInv, ListInv, Kinds, objects, acceptor, clients
  <2>4. ServingInv'
    BY <1>7 DEF Served, Step, Goto, TypeOK, ListInv, ServingInv, Serving, NoAcceptorInv, Idle, Kinds, objects, acceptor, clients
  <2>5. QuietInv'
    BY <1>7 DEF Served, Step, Goto, TypeOK, QuietInv, ServingInv, Serving, NoAcceptorInv, Idle, Kinds, objects, acceptor, clients
  <2>6. NoAcceptorInv'
    BY <1>7 DEF Served, Step, Goto, TypeOK, NoAcceptorInv, Kinds, objects, acceptor, clients
  <2> QED  BY <2>1, <2>2, <2>3, <2>4, <2>5, <2>6
<1>8. CASE Leave(c)
  <2>1. TypeOK'
    <3>1. CASE Fault
      BY <3>1, FaultTypes
    <3>2. CASE ~Fault
      BY <1>8, <3>2 DEF Leave, Step, Goto, TypeOK, Kinds, objects, acceptor, clients
    <3> QED  BY <3>1, <3>2
  <2>2. MutexInv'
    BY <1>8 DEF Leave, Fault, Step, Goto, TypeOK, MutexInv, NoAcceptorInv, Kinds, objects, acceptor, clients
  <2>3. ListInv'
    BY <1>8 DEF Leave, Fault, Step, Goto, TypeOK, MutexInv, ListInv, Kinds, objects, acceptor, clients
  <2>4. ServingInv'
    BY <1>8 DEF Leave, Fault, Step, Goto, TypeOK, ListInv, ServingInv, Serving, NoAcceptorInv, Idle, Kinds, objects, acceptor, clients
  <2>5. QuietInv'
    BY <1>8 DEF Leave, Fault, Step, Goto, TypeOK, QuietInv, ServingInv, Serving, NoAcceptorInv, Idle, Kinds, objects, acceptor, clients
  <2>6. NoAcceptorInv'
    BY <1>8 DEF Leave, Fault, Step, Goto, TypeOK, NoAcceptorInv, Kinds, objects, acceptor, clients
  <2> QED  BY <2>1, <2>2, <2>3, <2>4, <2>5, <2>6
<1>9. CASE Lock(c)
  <2>1. TypeOK'
    <3>1. CASE Fault
      BY <3>1, FaultTypes
    <3>2. CASE ~Fault
      BY <1>9, <3>2 DEF Lock, Goto, TypeOK, Kinds, objects, acceptor, clients
    <3> QED  BY <3>1, <3>2
  <2>2. MutexInv'
    BY <1>9 DEF Lock, Fault, Goto, TypeOK, MutexInv, NoAcceptorInv, Kinds, objects, acceptor, clients
  <2>3. ListInv'
    BY <1>9 DEF Lock, Fault, Goto, TypeOK, MutexInv, ListInv, Kinds, objects, acceptor, clients
  <2>4. ServingInv'
    BY <1>9 DEF Lock, Fault, Goto, TypeOK, ListInv, ServingInv, Serving, NoAcceptorInv, Idle, Kinds, objects, acceptor, clients
  <2>5. QuietInv'
    BY <1>9 DEF Lock, Fault, Goto, TypeOK, QuietInv, ServingInv, Serving, NoAcceptorInv, Idle, Kinds, objects, acceptor, clients
  <2>6. NoAcceptorInv'
    BY <1>9 DEF Lock, Fault, Goto, TypeOK, NoAcceptorInv, Kinds, objects, acceptor, clients
  <2> QED  BY <2>1, <2>2, <2>3, <2>4, <2>5, <2>6
<1>10. CASE Unlink(c)
  <2>1. TypeOK'
    <3>1. CASE Fault
      BY <3>1, FaultTypes
    <3>2. CASE ~Fault
      BY <1>10, <3>2 DEF Unlink, Goto, TypeOK, Kinds, objects, acceptor, clients
    <3> QED  BY <3>1, <3>2
  <2>2. MutexInv'
    BY <1>10 DEF Unlink, Fault, Goto, TypeOK, MutexInv, NoAcceptorInv, Kinds, objects, acceptor, clients
  <2>3. ListInv'
    BY <1>10 DEF Unlink, Fault, Goto, TypeOK, MutexInv, ListInv, Kinds, objects, acceptor, clients
  <2>4. ServingInv'
    BY <1>10 DEF Unlink, Fault, Goto, TypeOK, ListInv, ServingInv, Serving, NoAcceptorInv, Idle, Kinds, objects, acceptor, clients
  <2>5. QuietInv'
    BY <1>10 DEF Unlink, Fault, Goto, TypeOK, QuietInv, ServingInv, Serving, NoAcceptorInv, Idle, Kinds, objects, acceptor, clients
  <2>6. NoAcceptorInv'
    BY <1>10 DEF Unlink, Fault, Goto, TypeOK, NoAcceptorInv, Kinds, objects, acceptor, clients
  <2> QED  BY <2>1, <2>2, <2>3, <2>4, <2>5, <2>6
<1>11. CASE FreeSelf(c)
  <2>1. TypeOK'
    <3>1. CASE Fault
      BY <3>1, FaultTypes
    <3>2. CASE ~Fault
      <4>1. /\ obj' = [obj EXCEPT ![c] = "freed"] /\ flag' = [flag EXCEPT ![c] = FALSE]
            /\ pc' = [pc EXCEPT ![c] = "gone"]
            /\ UNCHANGED <<app, server, sock, mutex, accObj, accFlag, hasList, list,
                           acceptor, todo, kind, heard, after, quiet, fault>>
        BY <1>11, <3>2 DEF FreeSelf, Goto
      <4> QED  BY <4>1 DEF TypeOK, acceptor
    <3> QED  BY <3>1, <3>2
  <2>2. MutexInv'
    BY <1>11 DEF FreeSelf, Fault, Goto, TypeOK, MutexInv, NoAcceptorInv, Kinds, objects, acceptor, clients
  <2>3. ListInv'
    BY <1>11 DEF FreeSelf, Fault, Goto, TypeOK, MutexInv, ListInv, Kinds, objects, acceptor, clients
  <2>4. ServingInv'
    BY <1>11 DEF FreeSelf, Fault, Goto, TypeOK, ListInv, ServingInv, Serving, NoAcceptorInv, Idle, Kinds, objects, acceptor, clients
  <2>5. QuietInv'
    BY <1>11 DEF FreeSelf, Fault, Goto, TypeOK, QuietInv, ServingInv, Serving, NoAcceptorInv, Idle, Kinds, objects, acceptor, clients
  <2>6. NoAcceptorInv'
    BY <1>11 DEF FreeSelf, Fault, Goto, TypeOK, NoAcceptorInv, Kinds, objects, acceptor, clients
  <2> QED  BY <2>1, <2>2, <2>3, <2>4, <2>5, <2>6
<1> QED  BY <1>1, <1>2, <1>3, <1>4, <1>5, <1>6, <1>7, <1>8, <1>9, <1>10, <1>11 DEF ClientNext

\* Inv is inductive: the threads' steps keep it.
THEOREM Invariance == Spec => []Inv
<1>1. Inv /\ [Next]_vars => Inv'
  <2> SUFFICES ASSUME Inv, [Next]_vars PROVE Inv'
    OBVIOUS
  <2>1. CASE ~fault /\ AppNext
    BY <2>1, AppStep
  <2>2. CASE ~fault /\ AccNext
    BY <2>2, AcceptorStep
  <2>3. CASE ~fault /\ \E c \in Conns : ClientNext(c)
    BY <2>3, ClientStep
  <2>4. CASE UNCHANGED vars
    BY <2>4 DEF vars, objects, acceptor, clients, Inv, TypeOK, MutexInv, ListInv,
       ServingInv, QuietInv, NoAcceptorInv, Serving, Idle
  <2> QED  BY <2>1, <2>2, <2>3, <2>4 DEF Next
<1> QED  BY InitInv, <1>1, PTL DEF Spec

\* The variables keep their types.
THEOREM Types == Spec => []TypeOK
<1>1. Inv => TypeOK
  BY DEF Inv
<1> QED  BY Invariance, <1>1, PTL

\* The list of the client threads never holds a freed object: what the stop walks under
\* the mutex is alive, for any number of connections.
THEOREM ListSafety == Spec => []ListedAlive
<1>1. Inv => ListedAlive
  BY DEF Inv, ListInv, ListedAlive
<1> QED  BY Invariance, <1>1, PTL

\* Until the application stops the server, no thread uses freed memory.
THEOREM ServingSafety == Spec => []NoFaultWhileServing
<1>1. Inv => NoFaultWhileServing
  BY DEF Inv, ServingInv, Serving, NoFaultWhileServing
<1> QED  BY Invariance, <1>1, PTL

\* A stop that finds no connection under way, and is overtaken by none, is safe.
THEOREM QuietSafety == Spec => []QuietStopSafe
<1>1. Inv => QuietStopSafe
  BY DEF Inv, QuietInv, QuietStopSafe
<1> QED  BY Invariance, <1>1, PTL

\* A thread has given a request to the listener after its flag was cleared: it does not
\* serve another one, since it looks at the flag before each, and nobody sets it again.
AfterInv ==
  \A c \in Conns :
    \/ after[c] = 0
    \/ after[c] = 1 /\ ~flag[c] /\ pc[c] \notin {"none", "serve"}

\* A step that leaves the threads where they are and sets no flag keeps AfterInv.
LEMMA FlagsFall ==
  ASSUME AfterInv, UNCHANGED <<pc, after>>, \A c \in Conns : flag'[c] => flag[c]
  PROVE  AfterInv'
BY DEF AfterInv

\* A step of one thread that leaves the flags and gives nothing to the listener keeps
\* AfterInv, if it does not lead to serving or starts from the flag being set.
LEMMA OneMoves ==
  ASSUME TypeOK, AfterInv, NEW c \in Conns, NEW l, UNCHANGED <<after, flag>>, Goto(c, l),
         l \notin {"none", "serve"} \/ flag[c]
  PROVE  AfterInv'
<1> SUFFICES ASSUME NEW d \in Conns
             PROVE  \/ after[d] = 0
                    \/ after[d] = 1 /\ ~flag[d] /\ pc'[d] \notin {"none", "serve"}
  BY DEF AfterInv
<1>1. pc'[d] = IF d = c THEN l ELSE pc[d]
  BY DEF Goto, TypeOK
<1> QED  BY <1>1 DEF AfterInv

LEMMA AfterApp ==
  ASSUME TypeOK, AfterInv, AppNext
  PROVE  AfterInv'
<1>1. UNCHANGED <<pc, after>>
  BY DEF AppNext, Open, OpenFails, Start, StartFails, Stop, FreeAcceptor, LockList,
     StopClient, FreeClient, UnlockList, Close, Delete, clients
<1>2. \A c \in Conns : flag'[c] => flag[c]
  BY DEF AppNext, Open, OpenFails, Start, StartFails, Stop, FreeAcceptor, LockList,
     StopClient, FreeClient, UnlockList, Close, Delete, objects, TypeOK
<1> QED  BY <1>1, <1>2, FlagsFall

LEMMA AfterAcceptor ==
  ASSUME TypeOK, ListInv, AfterInv, AccNext
  PROVE  AfterInv'
<1>1. CASE AccStart /\ ~Fault
  <2>1. acc = "start" /\ new \in Conns /\ pc[new] = "none"
    BY <1>1 DEF AccStart, TypeOK, ListInv
  <2>2. /\ flag' = [flag EXCEPT ![new] = TRUE] /\ pc' = [pc EXCEPT ![new] = "begin"]
        /\ after' = after
    BY <1>1 DEF AccStart, Goto
  <2> QED  BY <2>1, <2>2 DEF AfterInv, TypeOK
<1>2. CASE AccStartFails
  BY <1>2, FlagsFall DEF AccStartFails, clients, TypeOK
<1>3. CASE Fault
  BY <1>3, FlagsFall DEF Fault, objects, clients
<1>4. CASE ~Fault /\ ~AccStart /\ ~AccStartFails
  <2>1. UNCHANGED <<pc, after, flag>>
    BY <1>4 DEF AccNext, AccBegin, AccTop, AccCall, AccConnection, AccFails, AccLock,
       AccAdd, AccGoto, objects, clients
  <2> QED  BY <2>1, FlagsFall
<1> QED  BY <1>1, <1>2, <1>3, <1>4

LEMMA AfterClient ==
  ASSUME TypeOK, AfterInv, NEW c \in Conns, ClientNext(c)
  PROVE  AfterInv'
<1>1. CASE Fault
  BY <1>1, FlagsFall DEF Fault, objects, clients
<1>2. CASE Serve(c) /\ ~Fault
  <2>1. /\ pc[c] = "serve" /\ pc' = [pc EXCEPT ![c] = "listener"]
        /\ after' = [after EXCEPT ![c] = IF flag[c] THEN @ ELSE @ + 1]
        /\ flag' = flag
    BY <1>2 DEF Serve, Goto, objects
  <2>2. after[c] = 0
    BY <2>1 DEF AfterInv
  <2> QED  BY <2>1, <2>2 DEF AfterInv, TypeOK
<1>3. CASE FreeSelf(c) /\ ~Fault
  <2>1. /\ pc' = [pc EXCEPT ![c] = "gone"] /\ after' = after
        /\ flag' = [flag EXCEPT ![c] = FALSE]
    BY <1>3 DEF FreeSelf, Goto
  <2> QED  BY <2>1 DEF AfterInv, TypeOK
<1>4. CASE Check(c) /\ ~Fault
  <2>1. UNCHANGED <<after, flag>> /\ Goto(c, IF flag[c] THEN "serve" ELSE "leave")
    BY <1>4 DEF Check, Step, objects
  <2> QED  BY <2>1, OneMoves
<1>5. CASE ~Fault /\ ~Serve(c) /\ ~FreeSelf(c) /\ ~Check(c)
  <2>1. UNCHANGED <<after, flag>>
    BY <1>5 DEF ClientNext, Begin, Read, ReadFails, Refuse, Served, Leave, Lock, Unlink,
       Step, objects
  <2>2. PICK l \in {"read", "check", "leave", "lock", "unlink", "free"} : Goto(c, l)
    BY <1>5 DEF ClientNext, Begin, Read, ReadFails, Refuse, Served, Leave, Lock, Unlink,
       Step
  <2> QED  BY <2>1, <2>2, OneMoves
<1> QED  BY <1>1, <1>2, <1>3, <1>4, <1>5

\* However many requests a client sends and however late it is served, a thread gives at
\* most one more of them to the listener once the stop has cleared its flag.
THEOREM StopSafety == Spec => []AtMostOneMore
<1>1. Init => AfterInv
  BY DEF Init, AfterInv
<1>2. Inv /\ AfterInv /\ [Next]_vars => AfterInv'
  <2> SUFFICES ASSUME Inv, AfterInv, [Next]_vars PROVE AfterInv'
    OBVIOUS
  <2>1. CASE UNCHANGED vars
    BY <2>1, FlagsFall DEF vars, objects, clients
  <2>2. CASE Next
    BY <2>2, AfterApp, AfterAcceptor, AfterClient DEF Next, Inv
  <2> QED  BY <2>1, <2>2
<1>3. AfterInv => AtMostOneMore
  BY DEF AfterInv, AtMostOneMore
<1> QED  BY Invariance, <1>1, <1>2, <1>3, PTL DEF Spec

=============================================================================
