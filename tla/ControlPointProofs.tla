------------------------- MODULE ControlPointProofs -------------------------
(***************************************************************************)
(* Theorems about ControlPoint, for every set of UDNs and threads, every   *)
(* lease and every bound: the types of its variables, what the mutex of    *)
(* the control point protects, that the cache has one device per UDN, and  *)
(* that the application has been told of every device in it, or is about   *)
(* to be told.                                                             *)
(***************************************************************************)
EXTENDS ControlPoint, TLAPS

-----------------------------------------------------------------------------
(* Type correctness.                                                       *)

LEMMA ThreadsAre ==
  /\ App \in Threads
  /\ \A t \in Receivers : t \in Threads /\ t \notin Expirers /\ t # App /\ t # None
  /\ \A t \in Notifiers : t \in Receivers
  /\ \A e \in Expirers : e \in Threads /\ e # App /\ e # None
  /\ \A t \in Threads : t # None
BY ThreadAssumption DEF Threads, Receivers

\* A signal changes no thread but one that waits on expCond.
LEMMA SignalCondMoves ==
  ASSUME NEW npc, PcType(npc), SignalCond(npc)
  PROVE  /\ PcType(pc')
         /\ \A t \in Threads : pc'[t] = npc[t] \/ (t \in Expirers /\ pc'[t] = "awake")
BY ThreadsAre DEF SignalCond, PcType, ExpirerPcs

\* A step that moves thread t alone.
LEMMA GotoMoves ==
  ASSUME PcType(pc), NEW t \in Threads, NEW l, Goto(t, l),
         t \in Receivers => l \in ReceiverPcs,
         t \in Expirers => l \in ExpirerPcs,
         t = App => l \in AppPcs
  PROVE  /\ PcType(pc')
         /\ pc'[t] = l
         /\ \A s \in Threads : s # t => pc'[s] = pc[s]
BY ThreadsAre DEF Goto, PcType, Threads

\* A step after which its thread has no announcement in hand.
LEMMA QuietMoves ==
  ASSUME PcType(pc), NEW t \in Expirers \cup {App}, NEW l, Goto(t, l), l \notin Carries,
         t \in Expirers => l \in ExpirerPcs,
         t = App => l \in AppPcs
  PROVE  /\ PcType(pc')
         /\ \A s \in Threads : pc'[s] \in Carries => pc'[s] = pc[s]
<1>1. t \in Threads /\ t \notin Receivers
  BY ThreadsAre
<1> QED BY <1>1, GotoMoves

LEMMA SignalMoves ==
  ASSUME PcType(pc), NEW t \in Receivers \cup {App}, NEW l,
         SignalCond([pc EXCEPT ![t] = l]),
         t \in Receivers => l \in ReceiverPcs,
         t = App => l \in AppPcs
  PROVE  /\ PcType(pc')
         /\ pc'[t] = l
         /\ \A s \in Threads : s # t => pc'[s] = pc[s] \/ pc'[s] = "awake"
<1>1. PcType([pc EXCEPT ![t] = l])
  BY ThreadsAre DEF PcType
<1>2. /\ PcType(pc')
      /\ \A s \in Threads : \/ pc'[s] = [pc EXCEPT ![t] = l][s]
                            \/ s \in Expirers /\ pc'[s] = "awake"
  BY <1>1, SignalCondMoves
<1>3. t \in Threads \ Expirers
  BY ThreadsAre
<1> QED BY <1>2, <1>3 DEF PcType

LEMMA InitType == Init => TypeOK
<1> SUFFICES ASSUME Init PROVE TypeOK
    OBVIOUS
<1> USE ThreadAssumption, ValueAssumption DEF Init
<1>1. HeapType
  BY DEF HeapType, Devs
<1>2. ThreadType
  BY DEF ThreadType, PcType, Threads, Receivers, ReceiverPcs, ExpirerPcs, AppPcs
<1>3. LocalType
  BY DEF LocalType, Packets, NoPacket, Carries, Nil
<1>4. FlagType
  BY DEF FlagType
<1> QED BY <1>1, <1>2, <1>3, <1>4 DEF TypeOK

LEMMA LeaseType ==
  ASSUME HeapType, LocalType, NEW t \in Threads
  PROVE  Lease(pkt[t].age) \in Nat
<1>1. pkt[t] \in Packets
  BY DEF LocalType
<1>2. Ages \cup {0} \subseteq Nat
  BY ValueAssumption
<1>3. pkt[t].age \in Nat
  BY <1>1, <1>2 DEF Packets
<1> QED BY <1>3 DEF Lease, HeapType

LEMMA AddType ==
  ASSUME TypeOK, NEW t \in Receivers, ReceiverStep(t)
  PROVE  TypeOK'
<1> USE ThreadsAre, ValueAssumption
    DEF TypeOK, HeapType, ThreadType, LocalType, FlagType, Goto, heap, locals, timer, flags
<1> USE DEF Packets, NoPacket, Carries, ReceiverPcs, Devs, Nil
<1>1. CASE AddLookup(t)
  <2>1. PICK d \in Devs \cup {Nil} : ptr' = [ptr EXCEPT ![t] = d]
    BY <1>1 DEF AddLookup
  <2>2. PICK l \in {"create", "update"} : Goto(t, l)
    BY <1>1 DEF AddLookup
  <2>3. PcType(pc') /\ \A s \in Threads : s # t => pc'[s] = pc[s]
    BY ZenonT(30), <2>2, GotoMoves
  <2>4. UNCHANGED <<pkt, nxt, timer>> /\ pkt[t].udn \in Udns
    BY <1>1 DEF AddLookup
  <2>5. LocalType'
    BY <2>1, <2>3, <2>4
  <2> QED BY <1>1, <2>3, <2>5 DEF AddLookup
<1>2. CASE UpdateOk(t)
  <2>1. Lease(pkt[t].age) \in Nat
    BY LeaseType
  <2>3. exp' \in [Devs -> Nat]
    BY <1>2, <2>1 DEF UpdateOk
  <2>4. sub' \in [Devs -> Nat]
    <3>1. sub' = sub \/ sub' = [sub EXCEPT ![ptr[t]] = 0]
      BY <1>2 DEF UpdateOk
    <3>2. sub \in [Devs -> Nat] /\ [sub EXCEPT ![ptr[t]] = 0] \in [Devs -> Nat]
      OBVIOUS
    <3> QED BY <3>1, <3>2
  <2>2. HeapType'
    BY <1>2, <2>3, <2>4 DEF UpdateOk
  <2> QED BY <1>2, <2>2 DEF UpdateOk, PcType
<1>8. CASE UpdateBlank(t)
  <2>1. Lease(pkt[t].age) \in Nat
    BY LeaseType
  <2>2. ptr[t] \in Nat
    OBVIOUS
  <2>3. HeapType'
    BY <1>8, <2>1, <2>2 DEF UpdateBlank
  <2> QED BY SMTT(30), <1>8, <2>3 DEF UpdateBlank, PcType
<1>3. CASE UpdateFails(t)
  BY <1>3 DEF UpdateFails, Free, PcType
<1>4. CASE CreateOk(t)
  <2>1. Lease(pkt[t].age) \in Nat
    BY LeaseType
  <2>4. alloc' \in 0..MaxDevs /\ devs' \subseteq 1..alloc' /\ UNCHANGED <<blank, sub, now>>
    BY <1>4 DEF CreateOk
  <2>5. exp' \in [Devs -> Nat]
    BY <1>4, <2>1 DEF CreateOk
  <2>6. name' \in [Devs -> Udns \cup {None}] /\ \A d \in devs' : name'[d] \in Udns
    BY <1>4 DEF CreateOk
  <2>2. HeapType'
    BY <2>4, <2>5, <2>6
  <2>3. (ThreadType /\ LocalType /\ FlagType)'
    BY SMTT(30), <1>4 DEF CreateOk, PcType
  <2> QED BY <2>2, <2>3
<1>5. CASE CreateFails(t)
  BY <1>5 DEF CreateFails, PcType
<1>6. CASE AddSignal(t)
  <2>1. PICK l \in {"idle", "notify"} :
          /\ SignalCond([pc EXCEPT ![t] = l])
          /\ l = "notify" => UNCHANGED pkt
    BY <1>6 DEF AddSignal
  <2>2. PcType(pc') /\ pc'[t] = l
    BY <2>1, SignalMoves
  <2>3. \A s \in Threads : s # t /\ pc'[s] \in Carries => pc[s] = pc'[s]
    BY <2>1, SignalMoves
  <2>4. NoPacket \in Packets
    OBVIOUS
  <2>5. /\ pkt' \in [Threads -> Packets] /\ ptr' \in [Threads -> Devs \cup {Nil}]
        /\ UNCHANGED <<nxt, timer>>
    <3>1. CASE UNCHANGED <<pkt, ptr>>
      BY <1>6, <3>1 DEF AddSignal
    <3>2. CASE pkt' = [pkt EXCEPT ![t] = NoPacket] /\ ptr' = [ptr EXCEPT ![t] = Nil]
      BY <1>6, <2>4, <3>2 DEF AddSignal
    <3> QED BY <1>6, <3>1, <3>2 DEF AddSignal
  <2>6. \A s \in Threads : pc'[s] \in Carries => pkt'[s].udn \in Udns
    BY <1>6, <2>1, <2>2, <2>3 DEF AddSignal
  <2>7. LocalType'
    BY <2>5, <2>6
  <2> QED BY <1>6, <2>2, <2>7 DEF AddSignal
<1>7. CASE AddNotify(t)
  BY <1>7 DEF AddNotify, PcType
<1> QED BY <1>1, <1>2, <1>3, <1>4, <1>5, <1>6, <1>7, <1>8 DEF ReceiverStep

LEMMA RemoveType ==
  ASSUME TypeOK, NEW t \in Threads, RemoveStep(t)
  PROVE  TypeOK'
<1> USE ThreadsAre, ValueAssumption
    DEF TypeOK, HeapType, ThreadType, LocalType, FlagType, Goto, heap, locals, timer, flags
<1> USE DEF Packets, NoPacket, Carries, ReceiverPcs, ExpirerPcs, AppPcs, Devs, Nil
<1>1. /\ t \in Receivers => Back(t) = "idle"
      /\ t \in Expirers => Back(t) = "back"
      /\ t = App => Back(t) = "ipBack"
      /\ t \in Receivers \cup Expirers \cup {App}
  BY ThreadAssumption DEF Back, Threads
<1>2. ASSUME RemoveReturns(t), UNCHANGED <<nxt, timer>>
      PROVE  PcType(pc') /\ LocalType'
  <2>1. PcType(pc')
    BY <1>1, <1>2 DEF RemoveReturns, PcType
  <2>2. LocalType'
    BY <1>1, <1>2 DEF RemoveReturns, PcType
  <2> QED BY <2>1, <2>2
<1>3. CASE RemoveLookup(t)
  <2>1. PICK d \in Devs \cup {Nil} :
          \/ d = Nil /\ RemoveReturns(t) /\ UNCHANGED heap
          \/ d # Nil /\ RemoveReturns(t) /\ Free(d)
          \/ ptr' = [ptr EXCEPT ![t] = d] /\ Goto(t, "rmNotify") /\ UNCHANGED <<pkt, heap>>
    BY <1>3 DEF RemoveLookup
  <2>2. UNCHANGED heap \/ Free(d)
    BY <2>1
  <2>5. HeapType'
    <3>1. CASE UNCHANGED heap
      BY <1>3, <3>1 DEF RemoveLookup
    <3>2. CASE Free(d)
      BY <1>3, <3>2 DEF RemoveLookup, Free
    <3> QED BY <2>2, <3>1, <3>2
  <2>6. FlagType'
    BY <1>3 DEF RemoveLookup
  <2>3. ASSUME Goto(t, "rmNotify"), ptr' = [ptr EXCEPT ![t] = d], UNCHANGED pkt
        PROVE  ThreadType' /\ LocalType'
    BY <1>1, <1>3, <2>3 DEF RemoveLookup, PcType
  <2>4. ASSUME RemoveReturns(t)
        PROVE  ThreadType' /\ LocalType'
    BY <1>2, <1>3, <2>4 DEF RemoveLookup
  <2> QED BY <2>1, <2>3, <2>4, <2>5, <2>6
<1>4. CASE RemoveNotify(t)
  BY SMTT(30), <1>1, <1>4 DEF RemoveNotify, PcType
<1>5. CASE RemoveDelete(t)
  <2>1. HeapType' /\ FlagType'
    BY <1>5 DEF RemoveDelete, Free
  <2>2. ThreadType' /\ LocalType'
    BY <1>2, <1>5 DEF RemoveDelete
  <2> QED BY <2>1, <2>2
<1> QED BY <1>3, <1>4, <1>5 DEF RemoveStep

LEMMA ExpirerType ==
  ASSUME TypeOK, NEW e \in Expirers, ExpirerStep(e)
  PROVE  TypeOK'
<1> USE ThreadsAre, ValueAssumption
    DEF TypeOK, HeapType, ThreadType, LocalType, FlagType, Goto, heap, locals, timer, flags
<1> USE DEF Packets, Carries, ExpirerPcs, Devs, Nil
<1>0. ASSUME NEW d \in Devs, NEW bound \in Nat, CheckService(e, d, bound)
      PROVE  sub' \in [Devs -> Nat] /\ due' \in [Expirers -> Nat]
  <2>1. PICK s \in {0, now + SubAge, sub[d]} :
          /\ sub' = [sub EXCEPT ![d] = s]
          /\ due' = [due EXCEPT ![e] = IF s # 0 /\ s < bound THEN s ELSE bound]
    BY ZenonT(30), <1>0 DEF CheckService
  <2>2. s \in Nat
    OBVIOUS
  <2> QED BY <2>1, <2>2
<1>1. CASE ExpirerTop(e)
  <2>1. PICK l \in {"lock", "off"} : Goto(e, l)
    BY <1>1 DEF ExpirerTop
  <2>2. PcType(pc') /\ \A s \in Threads : pc'[s] \in Carries => pc'[s] = pc[s]
    BY <2>1, GotoMoves
  <2>3. /\ curr' \in [Expirers -> Nat] /\ due' \in [Expirers -> Nat]
        /\ until' \in [Expirers -> Nat]
    <3>1. PICK c \in Nat : /\ curr' = [curr EXCEPT ![e] = c]
                           /\ due' = [due EXCEPT ![e] = 0]
                           /\ until' = [until EXCEPT ![e] = 0]
      BY <1>1 DEF ExpirerTop
    <3> QED BY <3>1
  <2> QED BY <1>1, <2>2, <2>3 DEF ExpirerTop
<1>2. CASE ExpirerLock(e)
  <2>1. PICK n \in Devs \cup {Nil} : nxt' = [nxt EXCEPT ![e] = n]
    BY <1>2 DEF ExpirerLock
  <2>2. PcType(pc') /\ \A s \in Threads : pc'[s] \in Carries => pc'[s] = pc[s]
    <3>1. Goto(e, "scan")
      BY <1>2 DEF ExpirerLock
    <3> QED BY <3>1, QuietMoves
  <2> QED BY <1>2, <2>1, <2>2 DEF ExpirerLock
<1>3. CASE ScanKeep(e)
  <2>1. PICK n \in Devs \cup {Nil} : nxt' = [nxt EXCEPT ![e] = n]
    BY <1>3 DEF ScanKeep
  <2>2. PICK bound \in Nat : CheckService(e, nxt[e], bound)
    BY <1>3 DEF ScanKeep
  <2>3. sub' \in [Devs -> Nat] /\ due' \in [Expirers -> Nat]
    BY <1>0, <1>3, <2>2 DEF ScanKeep
  <2> QED BY <1>3, <2>1, <2>2, <2>3 DEF ScanKeep
<1>4. CASE ScanExpired(e)
  <2>1. PICK n \in Devs \cup {Nil} : nxt' = [nxt EXCEPT ![e] = n]
    BY <1>4 DEF ScanExpired
  <2>2. PcType(pc') /\ \A s \in Threads : pc'[s] \in Carries => pc'[s] = pc[s]
    <3>1. Goto(e, "read")
      BY <1>4 DEF ScanExpired
    <3> QED BY <3>1, QuietMoves
  <2> QED BY <1>4, <2>1, <2>2 DEF ScanExpired
<1>5. CASE ReadPacket(e, "read")
  <2>1. [udn |-> name[ptr[e]], age |-> 0] \in Packets /\ name[ptr[e]] \in Udns
    BY <1>5 DEF ReadPacket
  <2>2. PcType(pc') /\ \A s \in Threads : s # e => pc'[s] = pc[s]
    BY <1>5, GotoMoves DEF ReadPacket
  <2> QED BY <1>5, <2>1, <2>2 DEF ReadPacket
<1>6. CASE ScanResume(e)
  <2>1. HeapType' /\ due' \in [Expirers -> Nat]
    <3>1. CASE UNCHANGED <<heap, timer>>
      BY <1>6, <3>1 DEF ScanResume
    <3>2. CASE nxt[e] \in devs /\ CheckService(e, nxt[e], due[e])
      <4>1. nxt[e] \in Devs /\ due[e] \in Nat
        BY <3>2
      <4>2. sub' \in [Devs -> Nat] /\ due' \in [Expirers -> Nat]
        BY <1>0, <3>2, <4>1
      <4>3. UNCHANGED <<devs, alloc, name, blank, exp, now>>
        BY <1>6 DEF ScanResume
      <4> QED BY <4>2, <4>3
    <3> QED BY <1>6, <3>1, <3>2 DEF ScanResume
  <2>2. PcType(pc') /\ \A s \in Threads : pc'[s] \in Carries => pc'[s] = pc[s]
    <3>1. Goto(e, "scan")
      BY <1>6 DEF ScanResume
    <3> QED BY <3>1, QuietMoves
  <2>3. PICK n \in Devs \cup {Nil} : nxt' = [nxt EXCEPT ![e] = n]
    BY <1>6 DEF ScanResume
  <2> QED BY <1>6, <2>1, <2>2, <2>3 DEF ScanResume
<1>7. CASE ScanEnd(e)
  BY <1>7 DEF ScanEnd, PcType
<1>8. CASE PlanSleep(e)
  <2>1. PICK l \in {"sleep", "off"} : Goto(e, l)
    BY <1>8 DEF PlanSleep
  <2>2. PcType(pc') /\ \A s \in Threads : pc'[s] \in Carries => pc'[s] = pc[s]
    BY <2>1, GotoMoves
  <2>3. /\ curr' \in [Expirers -> Nat] /\ due' \in [Expirers -> Nat]
        /\ until' \in [Expirers -> Nat]
    <3>1. PICK c \in {0, curr[e]}, d \in {0, due[e]}, u \in {0, due[e], until[e]} :
            /\ curr' = [curr EXCEPT ![e] = c]
            /\ due' = [due EXCEPT ![e] = d]
            /\ until' = [until EXCEPT ![e] = u]
      BY <1>8 DEF PlanSleep
    <3>2. c \in Nat /\ d \in Nat /\ u \in Nat
      OBVIOUS
    <3> QED BY <3>1, <3>2
  <2> QED BY <1>8, <2>2, <2>3 DEF PlanSleep
<1>9. CASE CondWait(e)
  BY <1>9 DEF CondWait, PcType
<1>10. CASE Timeout(e)
  BY <1>10 DEF Timeout, PcType
<1> QED BY <1>1, <1>2, <1>3, <1>4, <1>5, <1>6, <1>7, <1>8, <1>9, <1>10 DEF ExpirerStep

LEMMA AppType ==
  ASSUME TypeOK, StopExpirer \/ StopStep \/ IpChanged \/ IpStep
  PROVE  TypeOK'
<1> USE ThreadsAre, ValueAssumption
    DEF TypeOK, HeapType, ThreadType, LocalType, FlagType, Goto, heap, locals, timer, flags
<1> USE DEF Packets, Carries, AppPcs, Devs, Nil
<1>1. CASE StopExpirer
  <2>1. calls' \in Nat
    BY <1>1 DEF StopExpirer
  <2>2. PICK l \in {"stopSignal", "stopServers"} : Goto(App, l)
    BY <1>1 DEF StopExpirer
  <2>3. PcType(pc') /\ \A s \in Threads : pc'[s] \in Carries => pc'[s] = pc[s]
    BY <2>2, GotoMoves
  <2> QED BY <1>1, <2>1, <2>3 DEF StopExpirer
<1>2. CASE StopSignal
  <2>1. SignalCond([pc EXCEPT ![App] = "stopServers"])
    BY <1>2 DEF StopSignal
  <2>2. PcType(pc') /\ \A t \in Threads : pc'[t] \in Carries => pc'[t] = pc[t]
    BY <2>1, SignalMoves
  <2> QED BY <1>2, <2>2 DEF StopSignal
<1>3. CASE StopServers
  BY <1>3 DEF StopServers, PcType
<1>4. CASE WalkFrom("stopLock", "stopScan") \/ WalkFrom("ipLock", "ipScan")
  <2>1. PICK n \in Devs \cup {Nil} : nxt' = [nxt EXCEPT ![App] = n]
    BY <1>4 DEF WalkFrom
  <2>2. PICK l \in {"stopScan", "ipScan"} : Goto(App, l)
    BY <1>4 DEF WalkFrom
  <2>3. PcType(pc') /\ \A s \in Threads : pc'[s] \in Carries => pc'[s] = pc[s]
    BY <2>2, GotoMoves
  <2> QED BY <1>4, <2>1, <2>3 DEF WalkFrom
<1>5. CASE StopRelease
  BY <1>5 DEF StopRelease, PcType
<1>17. CASE StopSkip
  BY SMTT(30), <1>17 DEF StopSkip
<1>6. CASE StopNotify
  BY <1>6 DEF StopNotify, PcType
<1>7. CASE StopRelock
  <2>1. PICK n \in Devs \cup {Nil} : nxt' = [nxt EXCEPT ![App] = n]
    BY <1>7 DEF StopRelock
  <2> QED BY <1>7, <2>1 DEF StopRelock, PcType
<1>8. CASE StopClear
  BY <1>8 DEF StopClear, PcType
<1>9. CASE StartThread
  <2>2. PcType(pc') /\ \A s \in Threads : pc'[s] \in Carries => pc'[s] = pc[s]
    <3>1. CASE Goto(App, "startServers")
      BY <3>1 DEF PcType
    <3>2. ASSUME NEW e \in Expirers,
                 pc' = [pc EXCEPT ![App] = "startServers", ![e] = "started"]
          PROVE  PcType(pc') /\ \A s \in Threads : pc'[s] \in Carries => pc'[s] = pc[s]
      BY SMTT(30), <3>2 DEF PcType, ExpirerPcs
    <3> QED BY <1>9, <3>1, <3>2 DEF StartThread
  <2> QED BY <1>9, <2>2 DEF StartThread
<1>10. CASE StartServers
  BY <1>10 DEF StartServers, PcType
<1>11. CASE IpChanged
  <2>1. calls' \in Nat
    BY <1>11 DEF IpChanged
  <2>2. PcType(pc') /\ \A s \in Threads : pc'[s] \in Carries => pc'[s] = pc[s]
    BY ZenonT(30), <1>11, GotoMoves DEF IpChanged
  <2> QED BY <1>11, <2>1, <2>2 DEF IpChanged
<1>12. CASE IpKeep
  BY SMTT(30), <1>12 DEF IpKeep
<1>13. CASE IpGone
  BY SMTT(30), <1>13 DEF IpGone, PcType
<1>14. CASE ReadPacket(App, "ipRead")
  <2>1. [udn |-> name[ptr[App]], age |-> 0] \in Packets /\ name[ptr[App]] \in Udns
    BY <1>14 DEF ReadPacket
  <2> QED BY <1>14, <2>1 DEF ReadPacket, PcType
<1>15. CASE IpResume
  BY <1>15 DEF IpResume, PcType
<1>16. CASE IpEnd
  BY <1>16 DEF IpEnd, PcType
<1> QED
  BY <1>1, <1>2, <1>3, <1>4, <1>5, <1>6, <1>7, <1>8, <1>9, <1>10, <1>11, <1>12, <1>13,
     <1>14, <1>15, <1>16, <1>17 DEF StopStep, IpStep

LEMMA NextType == TypeOK /\ [Next]_vars => TypeOK'
<1> SUFFICES ASSUME TypeOK, [Next]_vars PROVE TypeOK'
    OBVIOUS
<1> USE ThreadsAre, ValueAssumption
<1> USE DEF HeapType, ThreadType, LocalType, FlagType, Goto, heap, locals, timer, flags
<1>1. ASSUME NEW t \in Receivers, NEW u \in Udns, AliveArrives(t, u) PROVE TypeOK'
  <2>1. PICK a \in Ages : pkt' = [pkt EXCEPT ![t] = [udn |-> u, age |-> a]]
    BY <1>1 DEF AliveArrives
  <2>2. [udn |-> u, age |-> a] \in Packets
    BY DEF Packets
  <2> QED BY <1>1, <2>1, <2>2 DEF TypeOK, AliveArrives, PcType, ReceiverPcs
<1>2. ASSUME NEW t \in Notifiers, NEW u \in Udns, ByebyeArrives(t, u) PROVE TypeOK'
  <2>1. [udn |-> u, age |-> 0] \in Packets
    BY DEF Packets
  <2> QED BY <1>2, <2>1 DEF TypeOK, ByebyeArrives, PcType, ReceiverPcs
<1>3. ASSUME NEW t \in Threads, UseFreed(t) PROVE TypeOK'
  BY <1>3 DEF TypeOK, UseFreed
<1>4. ASSUME NEW d \in Devs, Subscribe(d) PROVE TypeOK'
  <2>1. PcType(pc') /\ \A t \in Threads : pc'[t] \in Carries => pc'[t] = pc[t]
    BY <1>4, SignalCondMoves DEF TypeOK, Subscribe, Carries
  <2>2. sub' \in [Devs -> Nat]
    BY <1>4 DEF TypeOK, Subscribe
  <2> QED BY <1>4, <2>1, <2>2 DEF TypeOK, Subscribe
<1>5. CASE Tick
  BY <1>5 DEF TypeOK, Tick
<1>6. CASE UNCHANGED vars
  BY <1>6 DEF TypeOK, vars, PcType
<1> QED
  BY <1>1, <1>2, <1>3, <1>4, <1>5, <1>6, AddType, RemoveType, ExpirerType, AppType
  DEF Next, AtRest, Crashed

\* No execution of the control point takes a variable out of its type.
THEOREM TypeCorrect == Spec => []TypeOK
BY InitType, NextType, PTL DEF Spec
-----------------------------------------------------------------------------
(* What the control point's mutex protects.                                *)

\* The places where a thread owns the mutex.
HoldingPcs == {"create", "update", "signal", "scan", "stopScan", "ipScan"}

MutexHeld == \A t \in Threads : pc[t] \in HoldingPcs => mutex = t

IInv == TypeOK /\ MutexHeld /\ LockedPointersValid /\ UniqueUdn /\ blank \subseteq devs

\* A step of thread t that respects the mutex: no other thread comes to hold it
\* or has its locals changed, and the device list changes only if no other
\* thread holds it.
Respects(t) ==
  /\ \A s \in Threads \ {t} :
       /\ pc'[s] = pc[s] \/ pc'[s] \in {"awake", "started"}
       /\ pkt'[s] = pkt[s] /\ ptr'[s] = ptr[s] /\ nxt'[s] = nxt[s]
  /\ \/ mutex' = mutex /\ (pc'[t] \in HoldingPcs => pc[t] \in HoldingPcs)
     \/ mutex = None /\ mutex' = t
     \/ pc[t] \in HoldingPcs /\ mutex' = None /\ pc'[t] \notin HoldingPcs
  /\ UNCHANGED <<devs, blank, name>> \/ mutex = None \/ pc[t] \in HoldingPcs
  /\ blank' \subseteq devs'

LEMMA RespectfulStep ==
  ASSUME IInv, TypeOK', NEW t \in Threads, Respects(t), PointersValid(t)', UniqueUdn'
  PROVE  IInv'
<1> USE DEF IInv, MutexHeld
<1>1. MutexHeld'
  BY ThreadsAre DEF Respects, HoldingPcs
<1>2. ASSUME NEW s \in Threads, s # t PROVE PointersValid(s)'
  <2>1. CASE pc'[s] \notin HoldingPcs
    BY <2>1 DEF PointersValid, HoldingPcs
  <2>2. CASE pc[s] \in HoldingPcs /\ pc'[s] = pc[s]
    <3>1. UNCHANGED <<devs, blank, name>>
      BY <1>2, <2>2, ThreadsAre DEF Respects
    <3>2. pkt'[s] = pkt[s] /\ ptr'[s] = ptr[s] /\ nxt'[s] = nxt[s]
      BY <1>2 DEF Respects
    <3> QED BY <2>2, <3>1, <3>2 DEF LockedPointersValid, PointersValid, Cached, Named
  <2> QED BY <1>2, <2>1, <2>2 DEF Respects, HoldingPcs
<1> QED BY <1>1, <1>2 DEF LockedPointersValid, Respects

\* Taking UDNs out of the cache keeps the others apart.
LEMMA UniqueShrinks ==
  ASSUME UniqueUdn, Named' \subseteq Named, UNCHANGED name
  PROVE  UniqueUdn'
BY DEF UniqueUdn

LEMMA AddKeeps ==
  ASSUME IInv, TypeOK', NEW t \in Receivers, ReceiverStep(t)
  PROVE  IInv'
<1> USE ThreadsAre DEF IInv, TypeOK, Goto, heap, locals, timer, HoldingPcs
<1> USE DEF ThreadType, PcType, LocalType, Nil
<1>1. CASE AddLookup(t)
  <2>1. Respects(t) /\ UniqueUdn'
    BY <1>1, UniqueShrinks DEF Named, AddLookup, Respects
  <2>2. PICK d \in Devs \cup {Nil} :
          /\ IsLookup(d, pkt[t].udn)
          /\ ptr' = [ptr EXCEPT ![t] = d]
          /\ pc' = [pc EXCEPT ![t] = IF d = Nil THEN "create" ELSE "update"]
    BY <1>1 DEF AddLookup
  <2>3. UNCHANGED <<pkt, devs, blank, name>> /\ Nil \notin devs
    BY <1>1 DEF AddLookup, HeapType
  <2>4. PointersValid(t)'
    BY <2>2, <2>3 DEF PointersValid, IsLookup, Cached, Named
  <2> QED BY <2>1, <2>4, RespectfulStep
<1>2. CASE UpdateOk(t)
  <2>1. Respects(t) /\ UniqueUdn'
    BY <1>2, UniqueShrinks DEF Named, UpdateOk, Respects
  <2>2. PointersValid(t)'
    BY <1>2 DEF UpdateOk, LockedPointersValid, PointersValid
  <2> QED BY <2>1, <2>2, RespectfulStep
<1>8. CASE UpdateBlank(t)
  <2>1. Respects(t) /\ UniqueUdn'
    BY <1>8, UniqueShrinks DEF Named, UpdateBlank, LockedPointersValid, PointersValid, Respects
  <2>2. PointersValid(t)'
    BY <1>8 DEF UpdateBlank, LockedPointersValid, PointersValid
  <2> QED BY <2>1, <2>2, RespectfulStep
<1>3. CASE UpdateFails(t)
  <2>1. Respects(t) /\ UniqueUdn'
    BY <1>3, UniqueShrinks DEF Named, UpdateFails, Free, Respects
  <2>2. PointersValid(t)'
    BY <1>3 DEF UpdateFails, PointersValid
  <2> QED BY <2>1, <2>2, RespectfulStep
<1>4. CASE CreateOk(t)
  <2>1. alloc + 1 \notin devs /\ alloc + 1 \in Devs /\ \A x \in devs : x \in Devs
    BY <1>4, ValueAssumption DEF CreateOk, HeapType, Devs
  <2>2. Respects(t)
    BY <1>4 DEF CreateOk, Respects
  <2>3. /\ devs' = devs \cup {alloc + 1} /\ blank' = blank
        /\ name'[alloc + 1] = pkt[t].udn /\ \A x \in devs : name'[x] = name[x]
    BY <1>4, <2>1 DEF CreateOk, HeapType
  <2>4. ~Cached(pkt[t].udn)
    BY <1>4 DEF CreateOk, LockedPointersValid, PointersValid
  <2>5. UniqueUdn'
    BY <2>1, <2>3, <2>4 DEF UniqueUdn, Cached, Named
  <2>6. PointersValid(t)'
    BY <1>4, <2>3 DEF CreateOk, PointersValid
  <2> QED BY <2>2, <2>5, <2>6, RespectfulStep
<1>5. CASE CreateFails(t)
  <2>1. Respects(t) /\ UniqueUdn'
    BY <1>5, UniqueShrinks DEF Named, CreateFails, Respects
  <2>2. PointersValid(t)'
    BY <1>5 DEF CreateFails, PointersValid
  <2> QED BY <2>1, <2>2, RespectfulStep
<1>6. CASE AddSignal(t)
  <2>1. PICK l \in {"idle", "notify"} : SignalCond([pc EXCEPT ![t] = l])
    BY <1>6 DEF AddSignal
  <2>2. pc'[t] = l /\ \A s \in Threads \ {t} : pc'[s] = pc[s] \/ pc'[s] = "awake"
    <3>1. l \in ReceiverPcs
      BY DEF ReceiverPcs
    <3> QED BY <2>1, <3>1, SignalMoves
  <2>3. Respects(t) /\ UniqueUdn'
    BY <1>6, <2>2, UniqueShrinks DEF Named, AddSignal, Respects
  <2>4. PointersValid(t)'
    BY <2>2 DEF PointersValid
  <2> QED BY <2>3, <2>4, RespectfulStep
<1>7. CASE AddNotify(t)
  <2>1. Respects(t) /\ UniqueUdn'
    BY <1>7, UniqueShrinks DEF Named, AddNotify, Respects
  <2>2. PointersValid(t)'
    BY <1>7 DEF AddNotify, PointersValid
  <2> QED BY <2>1, <2>2, RespectfulStep
<1> QED BY <1>1, <1>2, <1>3, <1>4, <1>5, <1>6, <1>7, <1>8 DEF ReceiverStep
LEMMA RemoveKeeps ==
  ASSUME IInv, TypeOK', NEW t \in Threads, RemoveStep(t)
  PROVE  IInv'
<1> USE ThreadsAre DEF IInv, TypeOK, Goto, heap, locals, timer, HoldingPcs
<1> USE DEF ThreadType, PcType, LocalType, Nil
<1>1. Back(t) \in {"idle", "back", "ipBack"}
  BY ThreadAssumption DEF Back, Threads
<1>2. CASE RemoveLookup(t)
  <2>1. PICK d \in Devs \cup {Nil} :
          \/ RemoveReturns(t) /\ UNCHANGED heap
          \/ RemoveReturns(t) /\ Free(d)
          \/ ptr' = [ptr EXCEPT ![t] = d] /\ Goto(t, "rmNotify") /\ UNCHANGED <<pkt, heap>>
    BY <1>2 DEF RemoveLookup
  <2>2. Named' \subseteq Named /\ UNCHANGED name
    BY <2>1 DEF Free, Named
  <2>3. pc' = [pc EXCEPT ![t] = Back(t)] \/ pc' = [pc EXCEPT ![t] = "rmNotify"]
    BY <2>1 DEF RemoveReturns
  <2>6. UniqueUdn'
    BY <2>2, UniqueShrinks
  <2>7. blank' \subseteq devs'
    BY <2>1 DEF Free
  <2>8. \A s \in Threads \ {t} : /\ pc'[s] = pc[s] /\ pkt'[s] = pkt[s]
                               /\ ptr'[s] = ptr[s] /\ nxt'[s] = nxt[s]
    BY <1>2, <2>1, <2>3 DEF RemoveLookup, RemoveReturns
  <2>4. Respects(t) /\ UniqueUdn'
    BY <1>1, <1>2, <2>3, <2>6, <2>7, <2>8 DEF RemoveLookup, Respects
  <2>5. PointersValid(t)'
    BY <1>1, <2>3 DEF PointersValid
  <2> QED BY <2>4, <2>5, RespectfulStep
<1>3. CASE RemoveNotify(t)
  <2>1. Respects(t) /\ UniqueUdn'
    BY <1>3, UniqueShrinks DEF Named, RemoveNotify, Respects
  <2>2. PointersValid(t)'
    BY <1>3 DEF RemoveNotify, PointersValid
  <2> QED BY <2>1, <2>2, RespectfulStep
<1>4. CASE RemoveDelete(t)
  <2>1. Respects(t) /\ UniqueUdn'
    BY <1>1, <1>4, UniqueShrinks DEF Named, RemoveDelete, RemoveReturns, Free, Respects
  <2>2. PointersValid(t)'
    BY <1>1, <1>4 DEF RemoveDelete, RemoveReturns, PointersValid
  <2> QED BY <2>1, <2>2, RespectfulStep
<1> QED BY <1>2, <1>3, <1>4 DEF RemoveStep

LEMMA ExpirerKeeps ==
  ASSUME IInv, TypeOK', NEW e \in Expirers, ExpirerStep(e)
  PROVE  IInv'
<1> USE ThreadsAre DEF IInv, TypeOK, Goto, heap, locals, timer, HoldingPcs
<1> USE DEF ThreadType, PcType, LocalType, Nil
<1>1. CASE ExpirerTop(e)
  <2>1. Respects(e) /\ UniqueUdn'
    BY <1>1, UniqueShrinks DEF Named, ExpirerTop, Respects
  <2>2. PointersValid(e)'
    BY <1>1 DEF ExpirerTop, PointersValid
  <2> QED BY <2>1, <2>2, RespectfulStep
<1>2. CASE ExpirerLock(e)
  <2>1. Respects(e) /\ UniqueUdn'
    BY <1>2, UniqueShrinks DEF Named, ExpirerLock, Respects
  <2>2. PointersValid(e)'
    BY <1>2 DEF ExpirerLock, IsNext, PointersValid
  <2> QED BY <2>1, <2>2, RespectfulStep
<1>3. CASE ScanKeep(e)
  <2>1. Respects(e) /\ UniqueUdn'
    BY <1>3, UniqueShrinks DEF Named, ScanKeep, Respects
  <2>2. PointersValid(e)'
    BY <1>3 DEF ScanKeep, IsNext, PointersValid
  <2> QED BY <2>1, <2>2, RespectfulStep
<1>4. CASE ScanExpired(e)
  <2>1. Respects(e) /\ UniqueUdn'
    BY <1>4, UniqueShrinks DEF Named, ScanExpired, Respects
  <2>2. PointersValid(e)'
    BY <1>4 DEF ScanExpired, PointersValid
  <2> QED BY <2>1, <2>2, RespectfulStep
<1>5. CASE ReadPacket(e, "read")
  <2>1. Respects(e) /\ UniqueUdn'
    BY <1>5, UniqueShrinks DEF Named, ReadPacket, Respects
  <2>2. PointersValid(e)'
    BY <1>5 DEF ReadPacket, PointersValid
  <2> QED BY <2>1, <2>2, RespectfulStep
<1>6. CASE ScanResume(e)
  <2>1. Respects(e) /\ UniqueUdn'
    BY <1>6, UniqueShrinks DEF Named, ScanResume, Respects
  <2>2. PointersValid(e)'
    BY <1>6 DEF ScanResume, IsNext, PointersValid
  <2> QED BY <2>1, <2>2, RespectfulStep
<1>7. CASE ScanEnd(e)
  <2>1. Respects(e) /\ UniqueUdn'
    BY <1>7, UniqueShrinks DEF Named, ScanEnd, Respects
  <2>2. PointersValid(e)'
    BY <1>7 DEF ScanEnd, PointersValid
  <2> QED BY <2>1, <2>2, RespectfulStep
<1>8. CASE PlanSleep(e)
  <2>1. Respects(e) /\ UniqueUdn'
    BY <1>8, UniqueShrinks DEF Named, PlanSleep, Respects
  <2>2. PointersValid(e)'
    BY <1>8 DEF PlanSleep, PointersValid
  <2> QED BY <2>1, <2>2, RespectfulStep
<1>9. CASE CondWait(e)
  <2>1. Respects(e) /\ UniqueUdn'
    BY <1>9, UniqueShrinks DEF Named, CondWait, Respects
  <2>2. PointersValid(e)'
    BY <1>9 DEF CondWait, PointersValid
  <2> QED BY <2>1, <2>2, RespectfulStep
<1>10. CASE Timeout(e)
  <2>1. Respects(e) /\ UniqueUdn'
    BY <1>10, UniqueShrinks DEF Named, Timeout, Respects
  <2>2. PointersValid(e)'
    BY <1>10 DEF Timeout, PointersValid
  <2> QED BY <2>1, <2>2, RespectfulStep
<1> QED BY <1>1, <1>2, <1>3, <1>4, <1>5, <1>6, <1>7, <1>8, <1>9, <1>10 DEF ExpirerStep

LEMMA AppKeeps ==
  ASSUME IInv, TypeOK', StopExpirer \/ StopStep \/ IpChanged \/ IpStep
  PROVE  IInv'
<1> USE ThreadsAre DEF IInv, TypeOK, Goto, heap, locals, timer, HoldingPcs
<1> USE DEF ThreadType, PcType, LocalType, Nil
<1>1. CASE StopExpirer
  <2>1. Respects(App) /\ UniqueUdn'
    BY <1>1, UniqueShrinks DEF Named, StopExpirer, Respects
  <2>2. PointersValid(App)'
    BY <1>1 DEF StopExpirer, PointersValid
  <2> QED BY <2>1, <2>2, RespectfulStep
<1>2. CASE StopSignal
  <2>1. pc'[App] = "stopServers" /\ \A s \in Threads \ {App} : pc'[s] = pc[s] \/ pc'[s] = "awake"
    <3>1. SignalCond([pc EXCEPT ![App] = "stopServers"])
      BY <1>2 DEF StopSignal
    <3>2. "stopServers" \in AppPcs
      BY DEF AppPcs
    <3>3. PcType(pc) /\ App \notin Receivers
      OBVIOUS
    <3> HIDE DEF IInv, TypeOK, ThreadType, PcType, LocalType
    <3> QED BY <3>1, <3>2, <3>3, SignalMoves
  <2>2. Respects(App) /\ UniqueUdn'
    BY <1>2, <2>1, UniqueShrinks DEF Named, StopSignal, Respects
  <2>3. PointersValid(App)'
    BY <2>1 DEF PointersValid
  <2> QED BY <2>2, <2>3, RespectfulStep
<1>3. CASE StopServers
  <2>1. Respects(App) /\ UniqueUdn'
    BY <1>3, UniqueShrinks DEF Named, StopServers, Respects
  <2>2. PointersValid(App)'
    BY <1>3 DEF StopServers, PointersValid
  <2> QED BY <2>1, <2>2, RespectfulStep
<1>4. CASE WalkFrom("stopLock", "stopScan") \/ WalkFrom("ipLock", "ipScan")
  <2>1. PICK l \in {"stopScan", "ipScan"}, n \in Devs \cup {Nil} :
          Goto(App, l) /\ IsNext(n, Nil) /\ nxt' = [nxt EXCEPT ![App] = n]
    BY <1>4 DEF WalkFrom
  <2>2. Respects(App) /\ UniqueUdn'
    BY <1>4, <2>1, UniqueShrinks DEF Named, WalkFrom, Respects
  <2>3. PointersValid(App)'
    BY <1>4, <2>1 DEF WalkFrom, IsNext, PointersValid
  <2> QED BY <2>2, <2>3, RespectfulStep
<1>5. CASE StopRelease
  <2>1. Respects(App) /\ UniqueUdn'
    BY <1>5, UniqueShrinks DEF Named, StopRelease, Respects
  <2>2. PointersValid(App)'
    BY <1>5 DEF StopRelease, PointersValid
  <2> QED BY <2>1, <2>2, RespectfulStep
<1>17. CASE StopSkip
  <2>1. Respects(App) /\ UniqueUdn'
    BY <1>17, UniqueShrinks DEF Named, StopSkip, Respects
  <2>2. PointersValid(App)'
    BY <1>17 DEF StopSkip, IsNext, PointersValid
  <2> QED BY <2>1, <2>2, RespectfulStep
<1>6. CASE StopNotify
  <2>1. Respects(App) /\ UniqueUdn'
    BY <1>6, UniqueShrinks DEF Named, StopNotify, Respects
  <2>2. PointersValid(App)'
    BY <1>6 DEF StopNotify, PointersValid
  <2> QED BY <2>1, <2>2, RespectfulStep
<1>7. CASE StopRelock
  <2>1. Respects(App) /\ UniqueUdn'
    BY <1>7, UniqueShrinks DEF Named, StopRelock, Respects, IsNext
  <2>2. PointersValid(App)'
    BY <1>7 DEF StopRelock, PointersValid, IsNext
  <2> QED BY <2>1, <2>2, RespectfulStep
<1>8. CASE StopClear
  <2>1. Respects(App) /\ UniqueUdn'
    BY <1>8, UniqueShrinks DEF Named, StopClear, Respects
  <2>2. PointersValid(App)'
    BY <1>8 DEF StopClear, PointersValid
  <2> QED BY <2>1, <2>2, RespectfulStep
<1>9. CASE StartThread
  <2>1. /\ pc'[App] = "startServers"
        /\ \A s \in Threads \ {App} : pc'[s] = pc[s] \/ pc'[s] = "started"
    BY <1>9 DEF StartThread
  <2>2. Respects(App) /\ UniqueUdn'
    BY <1>9, <2>1, UniqueShrinks DEF Named, StartThread, Respects
  <2>3. PointersValid(App)'
    BY <2>1 DEF PointersValid
  <2> QED BY <2>2, <2>3, RespectfulStep
<1>10. CASE StartServers
  <2>1. Respects(App) /\ UniqueUdn'
    BY <1>10, UniqueShrinks DEF Named, StartServers, Respects
  <2>2. PointersValid(App)'
    BY <1>10 DEF StartServers, PointersValid
  <2> QED BY <2>1, <2>2, RespectfulStep
<1>11. CASE IpChanged
  <2>1. Respects(App) /\ UniqueUdn'
    BY <1>11, UniqueShrinks DEF Named, IpChanged, Respects
  <2>2. PointersValid(App)'
    BY <1>11 DEF IpChanged, PointersValid
  <2> QED BY <2>1, <2>2, RespectfulStep
<1>12. CASE IpKeep
  <2>1. Respects(App) /\ UniqueUdn'
    BY <1>12, UniqueShrinks DEF Named, IpKeep, Respects, IsNext
  <2>2. PointersValid(App)'
    BY <1>12 DEF IpKeep, PointersValid, IsNext
  <2> QED BY <2>1, <2>2, RespectfulStep
<1>13. CASE IpGone
  <2>1. Respects(App) /\ UniqueUdn'
    BY <1>13, UniqueShrinks DEF Named, IpGone, Respects
  <2>2. PointersValid(App)'
    BY <1>13 DEF IpGone, PointersValid
  <2> QED BY <2>1, <2>2, RespectfulStep
<1>14. CASE ReadPacket(App, "ipRead")
  <2>1. Respects(App) /\ UniqueUdn'
    BY <1>14, UniqueShrinks DEF Named, ReadPacket, Respects
  <2>2. PointersValid(App)'
    BY <1>14 DEF ReadPacket, PointersValid
  <2> QED BY <2>1, <2>2, RespectfulStep
<1>15. CASE IpResume
  <2>1. Respects(App) /\ UniqueUdn'
    BY <1>15, UniqueShrinks DEF Named, IpResume, Respects
  <2>2. PointersValid(App)'
    BY <1>15 DEF IpResume, PointersValid
  <2> QED BY <2>1, <2>2, RespectfulStep
<1>16. CASE IpEnd
  <2>1. Respects(App) /\ UniqueUdn'
    BY <1>16, UniqueShrinks DEF Named, IpEnd, Respects
  <2>2. PointersValid(App)'
    BY <1>16 DEF IpEnd, PointersValid
  <2> QED BY <2>1, <2>2, RespectfulStep
<1> QED
  BY <1>1, <1>2, <1>3, <1>4, <1>5, <1>6, <1>7, <1>8, <1>9, <1>10, <1>11, <1>12, <1>13,
     <1>14, <1>15, <1>16, <1>17 DEF StopStep, IpStep

LEMMA InitIInv == Init => IInv
<1> SUFFICES ASSUME Init PROVE IInv
    OBVIOUS
<1>1. MutexHeld /\ LockedPointersValid
  BY DEF Init, MutexHeld, HoldingPcs, LockedPointersValid, PointersValid
<1>2. UniqueUdn /\ blank \subseteq devs
  BY DEF Init, UniqueUdn, Named
<1> QED BY <1>1, <1>2, InitType DEF IInv

LEMMA NextIInv == IInv /\ [Next]_vars => IInv'
<1> SUFFICES ASSUME IInv, [Next]_vars PROVE IInv'
    OBVIOUS
<1>0. TypeOK'
  BY NextType DEF IInv
<1> USE ThreadsAre, <1>0 DEF Goto, heap, locals, timer, HoldingPcs
<1> USE DEF TypeOK, ThreadType, PcType, LocalType
<1>1. ASSUME NEW t \in Receivers, NEW u \in Udns, AliveArrives(t, u) PROVE IInv'
  <2>1. Respects(t) /\ UniqueUdn'
    BY <1>1, UniqueShrinks DEF Named, IInv, AliveArrives, Respects
  <2>2. PointersValid(t)'
    BY <1>1 DEF AliveArrives, PointersValid
  <2> QED BY <2>1, <2>2, RespectfulStep
<1>2. ASSUME NEW t \in Notifiers, NEW u \in Udns, ByebyeArrives(t, u) PROVE IInv'
  <2>1. Respects(t) /\ UniqueUdn'
    BY <1>2, UniqueShrinks DEF Named, IInv, ByebyeArrives, Respects
  <2>2. PointersValid(t)'
    BY <1>2 DEF ByebyeArrives, PointersValid
  <2> QED BY <2>1, <2>2, RespectfulStep
<1>3. ASSUME NEW t \in Threads, UseFreed(t) PROVE IInv'
  <2>1. Respects(t) /\ UniqueUdn'
    BY <1>3, UniqueShrinks DEF Named, IInv, UseFreed, Respects
  <2>2. PointersValid(t)'
    BY <1>3 DEF UseFreed, IInv, LockedPointersValid, PointersValid, Cached, Named
  <2> QED BY <2>1, <2>2, RespectfulStep
<1>4. ASSUME NEW d \in Devs, Subscribe(d) PROVE IInv'
  <2>1. pc'[App] = "idle" /\ \A s \in Threads \ {App} : pc'[s] = pc[s] \/ pc'[s] = "awake"
    BY <1>4 DEF Subscribe, SignalCond
  <2>2. Respects(App) /\ UniqueUdn'
    BY <1>4, <2>1, UniqueShrinks DEF Named, IInv, Subscribe, Respects
  <2>3. PointersValid(App)'
    BY <2>1 DEF PointersValid
  <2> QED BY <2>2, <2>3, RespectfulStep
<1>5. CASE Tick \/ UNCHANGED vars
  BY <1>5 DEF Tick, vars, IInv, MutexHeld, LockedPointersValid, PointersValid, Cached, Named,
              UniqueUdn
<1> QED
  BY <1>1, <1>2, <1>3, <1>4, <1>5, AddKeeps, RemoveKeeps, ExpirerKeeps, AppKeeps
  DEF Next, AtRest, Crashed

LEMMA Invariance == Spec => []IInv
BY InitIInv, NextIInv, PTL DEF Spec

\* The pointers and failed lookups of a thread that holds the mutex stay good,
\* however the receivers, the expiration thread, stop and ipchanged interleave.
THEOREM LockProtectsPointers == Spec => []LockedPointersValid
BY Invariance, PTL DEF IInv

\* Two devices of one UDN are never in the cache together.
THEOREM OneDevicePerUdn == Spec => []UniqueUdn
BY Invariance, PTL DEF IInv

-----------------------------------------------------------------------------
(* What the listener was told about a cached device.                       *)

\* The device that a thread is about to report or has reported: its address has been
\* allocated and carries the UDN of the packet, even when the device is freed by now.
NamesPacket(t) ==
  pc[t] \in {"notify", "rmNotify", "rmDelete"} =>
    ptr[t] \in 1..alloc /\ name[ptr[t]] = pkt[t].udn

\* With a listener and devices that stay where they are: every device can be looked up.
AInv ==
  Listening /\ ~Moving =>
    /\ blank = {}
    /\ \A t \in Threads : NamesPacket(t)
    /\ CachedIsAnnounced

AnnouncedBy(t, d) ==
  \/ t \in Receivers /\ pc[t] \in {"signal", "notify"} /\ ptr[t] = d
  \/ pc[t] = "rmDelete" /\ pkt[t].udn = name[d]
  \/ t = App /\ pc[t] \in {"stopNotify", "stopRelock", "stopScan"}

Announced(d) == view[name[d]] \/ \E t \in Threads : AnnouncedBy(t, d)

LEMMA AnnouncedParts ==
  ASSUME Listening, ~Moving, ~fault, AInv, NEW d \in Named
  PROVE  Announced(d)
<1>1. App \in Threads /\ Receivers \subseteq Threads
  BY ThreadsAre
<1> QED BY <1>1 DEF AInv, CachedIsAnnounced, Announced, AnnouncedBy

LEMMA AnnouncedParts2 ==
  ASSUME blank' = {}, \A t \in Threads : NamesPacket(t)', \A d \in Named' : Announced(d)'
  PROVE  AInv'
<1>1. ASSUME NEW d \in Named'
      PROVE  \/ view'[name'[d]]
             \/ \E t \in Receivers : pc'[t] \in {"signal", "notify"} /\ ptr'[t] = d
             \/ \E t \in Threads : pc'[t] = "rmDelete" /\ pkt'[t].udn = name'[d]
             \/ pc'[App] \in {"stopNotify", "stopRelock", "stopScan"}
  BY <1>1 DEF Announced, AnnouncedBy
<1> QED BY <1>1 DEF AInv, CachedIsAnnounced

\* A step of thread t: another one may be woken or started, no more.
Alone(t) ==
  \A s \in Threads \ {t} :
    /\ pc'[s] = pc[s] \/ (pc[s] \in {"off", "waiting"} /\ pc'[s] \in {"started", "awake"})
    /\ pkt'[s] = pkt[s] /\ ptr'[s] = ptr[s]

\* An address keeps its name.
NamesStay ==
  /\ alloc \in Nat /\ alloc' \in Nat /\ alloc <= alloc'
  /\ \A d \in 1..alloc : name'[d] = name[d]

\* A step of t keeps AInv if every device of the cache is announced after it, or was in
\* the cache before, not because of t, and the listener is told nothing about it.
LEMMA AnnouncedStep ==
  ASSUME Listening, ~Moving, ~fault, TypeOK, AInv, NEW t \in Threads, Alone(t), NamesStay,
         NamesPacket(t)', blank' = {},
         \A d \in Named' :
           \/ Announced(d)'
           \/ /\ d \in Named /\ view'[name[d]] = view[name[d]]
              /\ AnnouncedBy(t, d) => AnnouncedBy(t, d)'
  PROVE  AInv'
<1>1. ASSUME NEW s \in Threads, s # t PROVE NamesPacket(s)'
  <2>1. CASE pc'[s] \notin {"notify", "rmNotify", "rmDelete"}
    BY <2>1 DEF NamesPacket
  <2>2. CASE pc'[s] \in {"notify", "rmNotify", "rmDelete"}
    <3>1. pc'[s] = pc[s] /\ pkt'[s] = pkt[s] /\ ptr'[s] = ptr[s]
      BY <1>1, <2>2 DEF Alone
    <3>2. ptr[s] \in 1..alloc /\ name[ptr[s]] = pkt[s].udn
      BY <2>2, <3>1 DEF AInv, NamesPacket
    <3> QED BY <3>1, <3>2 DEF NamesPacket, NamesStay
  <2> QED BY <2>1, <2>2
<1>2. ASSUME NEW d \in Named', d \in Named, view'[name[d]] = view[name[d]],
             AnnouncedBy(t, d) => AnnouncedBy(t, d)'
      PROVE  Announced(d)'
  <2>1. name'[d] = name[d]
    BY <1>2 DEF NamesStay, TypeOK, HeapType, Named
  <2>2. view[name[d]] \/ \E s \in Threads : AnnouncedBy(s, d)
    BY <1>2, AnnouncedParts DEF Announced
  <2>3. ASSUME NEW s \in Threads, s # t, AnnouncedBy(s, d) PROVE AnnouncedBy(s, d)'
    BY <2>1, <2>3 DEF Alone, AnnouncedBy
  <2> QED BY <1>2, <2>1, <2>2, <2>3 DEF Announced
<1> QED BY <1>1, <1>2, AnnouncedParts2

\* A step of t that is about no announcement.
LEMMA SilentStep ==
  ASSUME Listening, ~Moving, ~fault, TypeOK, AInv, NEW t \in Threads, Alone(t),
         UNCHANGED <<name, alloc, view>>, devs' \subseteq devs, blank' = {},
         pc'[t] \notin {"notify", "rmNotify", "rmDelete"},
         pc[t] \notin {"signal", "notify", "rmDelete", "stopNotify", "stopRelock", "stopScan"}
  PROVE  AInv'
<1>1. NamesStay /\ NamesPacket(t)'
  BY DEF NamesStay, NamesPacket, TypeOK, HeapType
<1>2. ASSUME NEW d \in Named'
      PROVE  d \in Named /\ view'[name[d]] = view[name[d]] /\ ~AnnouncedBy(t, d)
  BY DEF Named, AnnouncedBy, AInv
<1> QED BY <1>1, <1>2, AnnouncedStep

LEMMA AddAnnounces ==
  ASSUME Listening, ~Moving, ~fault, IInv, AInv, NEW t \in Receivers, ReceiverStep(t)
  PROVE  AInv'
<1> USE ThreadsAre DEF IInv, TypeOK, Goto, heap, locals, timer
<1> USE DEF ThreadType, PcType, LocalType
<1>0. blank = {}
  BY DEF AInv
<1>1. CASE AddLookup(t)
  BY <1>0, <1>1, SilentStep DEF AddLookup, Alone
<1>2. CASE UpdateOk(t)
  <2>1. /\ pc[t] = "update" /\ pc' = [pc EXCEPT ![t] = "signal"]
        /\ UNCHANGED <<name, alloc, view, devs, blank, pkt, ptr>>
    BY <1>2 DEF UpdateOk
  <2> QED BY <1>0, <2>1, SilentStep DEF Alone
<1>3. CASE CreateFails(t)
  BY <1>0, <1>3, SilentStep DEF CreateFails, Alone
<1>4. CASE CreateOk(t)
  <2>1. /\ pc[t] = "create" /\ pc' = [pc EXCEPT ![t] = "signal"]
        /\ alloc' = alloc + 1 /\ devs' = devs \cup {alloc + 1} /\ blank' = {}
        /\ name' = [name EXCEPT ![alloc + 1] = pkt[t].udn]
        /\ ptr' = [ptr EXCEPT ![t] = alloc + 1]
        /\ UNCHANGED <<pkt, view>>
    BY <1>0, <1>4 DEF CreateOk
  <2>2. Alone(t) /\ NamesPacket(t)'
    BY <2>1 DEF Alone, NamesPacket
  <2>3. NamesStay
    BY <2>1 DEF NamesStay, HeapType
  <2>4. ASSUME NEW d \in Named'
        PROVE  AnnouncedBy(t, d)' \/ (d \in Named /\ ~AnnouncedBy(t, d))
    BY <1>0, <2>1 DEF Named, AnnouncedBy
  <2> QED BY <2>1, <2>2, <2>3, <2>4, AnnouncedStep DEF Announced
<1>5. CASE AddSignal(t)
  <2>1. SignalCond([pc EXCEPT ![t] = "notify"]) /\ pc[t] = "signal"
        /\ UNCHANGED <<name, alloc, view, devs, blank, pkt, ptr>>
    BY <1>5 DEF AddSignal
  <2>2. /\ pc'[t] = "notify"
        /\ \A s \in Threads \ {t} :
             pc'[s] = pc[s] \/ (pc[s] = "waiting" /\ pc'[s] = "awake")
    BY <2>1 DEF SignalCond
  <2>3. Alone(t) /\ NamesStay
    BY <2>1, <2>2 DEF Alone, NamesStay, HeapType
  <2>4. NamesPacket(t)'
    BY <2>1, <2>2 DEF LockedPointersValid, PointersValid, NamesPacket, HeapType
  <2>5. ASSUME NEW d \in Named'
        PROVE  d \in Named /\ (AnnouncedBy(t, d) => AnnouncedBy(t, d)')
    BY <2>1, <2>2 DEF AnnouncedBy, Named
  <2> QED BY <1>0, <2>1, <2>3, <2>4, <2>5, AnnouncedStep
<1>6. CASE AddNotify(t)
  <2>1. /\ pc[t] = "notify" /\ pc' = [pc EXCEPT ![t] = "idle"]
        /\ view' = [view EXCEPT ![pkt[t].udn] = TRUE]
        /\ pkt' = [pkt EXCEPT ![t] = NoPacket] /\ ptr' = [ptr EXCEPT ![t] = Nil]
        /\ UNCHANGED <<name, alloc, devs, blank>>
    BY <1>6 DEF AddNotify
  <2>2. Alone(t) /\ NamesPacket(t)' /\ NamesStay
    BY <2>1 DEF Alone, NamesPacket, NamesStay, HeapType
  <2>3. name[ptr[t]] = pkt[t].udn
    BY <2>1 DEF AInv, NamesPacket
  <2>4. ASSUME NEW d \in Named'
        PROVE  \/ view'[name'[d]]
               \/ d \in Named /\ view'[name[d]] = view[name[d]] /\ ~AnnouncedBy(t, d)
    <3>1. d \in Named /\ name'[d] = name[d] /\ name[d] \in Udns
      BY <2>1 DEF Named, HeapType
    <3>2. CASE name[d] = pkt[t].udn
      BY <2>1, <3>1, <3>2 DEF FlagType
    <3>3. CASE name[d] # pkt[t].udn
      BY <2>1, <2>3, <3>1, <3>3 DEF FlagType, AnnouncedBy
    <3> QED BY <3>2, <3>3
  <2> QED BY <1>0, <2>1, <2>2, <2>4, AnnouncedStep DEF Announced
<1> QED
  BY <1>1, <1>2, <1>3, <1>4, <1>5, <1>6 DEF ReceiverStep, UpdateBlank, UpdateFails

LEMMA RemoveAnnounces ==
  ASSUME Listening, ~Moving, ~fault, IInv, AInv, NEW t \in Threads, RemoveStep(t)
  PROVE  AInv'
<1> USE ThreadsAre DEF IInv, TypeOK, Goto, heap, locals, timer
<1> USE DEF ThreadType, PcType, LocalType
<1>0. blank = {} /\ Named = devs
  BY DEF AInv, Named
<1>1. Back(t) \in {"idle", "back", "ipBack"}
  BY ThreadAssumption DEF Back, Threads
<1>2. CASE RemoveLookup(t)
  <2>1. PICK d \in Devs \cup {Nil} :
          /\ IsLookup(d, pkt[t].udn)
          /\ \/ RemoveReturns(t) /\ UNCHANGED heap
             \/ /\ d # Nil /\ ptr' = [ptr EXCEPT ![t] = d] /\ Goto(t, "rmNotify")
                /\ UNCHANGED <<pkt, heap>>
    BY <1>2 DEF RemoveLookup
  <2>2. CASE RemoveReturns(t) /\ UNCHANGED heap
    <3>1. pc[t] = "remove" /\ view' = view
      BY <1>2 DEF RemoveLookup
    <3>2. Alone(t)
      BY <2>2 DEF RemoveReturns, Alone
    <3>3. pc'[t] = Back(t)
      BY <2>2 DEF RemoveReturns
    <3> QED BY <1>0, <1>1, <2>2, <3>1, <3>2, <3>3, SilentStep
  <2>3. CASE d # Nil /\ ptr' = [ptr EXCEPT ![t] = d] /\ Goto(t, "rmNotify") /\ UNCHANGED <<pkt, heap>>
    <3>1. pc[t] = "remove" /\ view' = view /\ d \in devs /\ name[d] = pkt[t].udn
      BY <1>2, <2>1, <2>3 DEF RemoveLookup, IsLookup, Named
    <3>2. Alone(t) /\ NamesStay
      BY <2>3 DEF Alone, NamesStay, HeapType
    <3>3. NamesPacket(t)'
      BY <2>3, <3>1 DEF NamesPacket, HeapType
    <3>4. ASSUME NEW x \in Named' PROVE x \in Named /\ ~AnnouncedBy(t, x)
      BY <2>3, <3>1 DEF Named, AnnouncedBy
    <3> QED BY <1>0, <2>3, <3>1, <3>2, <3>3, <3>4, AnnouncedStep
  <2> QED BY <2>1, <2>2, <2>3
<1>3. CASE RemoveNotify(t)
  <2>1. /\ pc[t] = "rmNotify" /\ pc' = [pc EXCEPT ![t] = "rmDelete"]
        /\ view' = [view EXCEPT ![pkt[t].udn] = FALSE]
        /\ UNCHANGED <<name, alloc, devs, blank, pkt, ptr>>
    BY <1>3 DEF RemoveNotify
  <2>2. Alone(t) /\ NamesPacket(t)' /\ NamesStay
    BY <2>1 DEF Alone, NamesPacket, NamesStay, HeapType, AInv
  <2>3. ASSUME NEW d \in Named'
        PROVE  \/ AnnouncedBy(t, d)'
               \/ d \in Named /\ view'[name[d]] = view[name[d]] /\ ~AnnouncedBy(t, d)
    <3>1. d \in Named /\ name'[d] = name[d] /\ name[d] \in Udns
      BY <2>1 DEF Named, HeapType
    <3> QED BY <2>1, <3>1 DEF FlagType, AnnouncedBy
  <2> QED BY <1>0, <2>1, <2>2, <2>3, AnnouncedStep DEF Announced
<1>4. CASE RemoveDelete(t)
  <2>1. /\ pc[t] = "rmDelete" /\ pc' = [pc EXCEPT ![t] = Back(t)]
        /\ ptr[t] \in devs /\ devs' = devs \ {ptr[t]} /\ blank' = {}
        /\ pkt' = [pkt EXCEPT ![t] = NoPacket] /\ ptr' = [ptr EXCEPT ![t] = Nil]
        /\ UNCHANGED <<name, alloc, view>>
    BY <1>0, <1>4 DEF RemoveDelete, RemoveReturns, Free
  <2>2. Alone(t) /\ NamesPacket(t)' /\ NamesStay
    BY <1>1, <2>1 DEF Alone, NamesPacket, NamesStay, HeapType
  <2>3. name[ptr[t]] = pkt[t].udn
    BY <2>1 DEF AInv, NamesPacket
  <2>4. ASSUME NEW d \in Named' PROVE d \in Named /\ ~AnnouncedBy(t, d)
    BY <1>0, <2>1, <2>3 DEF Named, UniqueUdn, AnnouncedBy
  <2> QED BY <2>1, <2>2, <2>4, AnnouncedStep
<1> QED BY <1>2, <1>3, <1>4 DEF RemoveStep

LEMMA ExpirerAnnounces ==
  ASSUME Listening, ~Moving, ~fault, IInv, AInv, NEW e \in Expirers, ExpirerStep(e)
  PROVE  AInv'
<1> USE ThreadsAre DEF IInv, TypeOK, Goto, heap, locals, timer
<1> USE DEF ThreadType, PcType, LocalType
<1>1. UNCHANGED <<name, alloc, devs, blank, view>>
  BY DEF ExpirerStep, ExpirerTop, ExpirerLock, ScanKeep, ScanExpired, ReadPacket, ScanResume,
     ScanEnd, PlanSleep, CondWait, Timeout
<1>2. pc[e] \in {"started", "awake", "lock", "scan", "read", "back", "plan", "sleep", "waiting"}
  BY DEF ExpirerStep, ExpirerTop, ExpirerLock, ScanKeep, ScanExpired, ReadPacket, ScanResume,
     ScanEnd, PlanSleep, CondWait, Timeout
<1>3. PICK l \in {"lock", "off", "scan", "read", "remove", "plan", "sleep", "waiting", "awake"} :
        (pc' = pc /\ l = pc[e]) \/ pc' = [pc EXCEPT ![e] = l]
  BY DEF ExpirerStep, ExpirerTop, ExpirerLock, ScanKeep, ScanExpired, ReadPacket, ScanResume,
     ScanEnd, PlanSleep, CondWait, Timeout
<1>4. \A s \in Threads \ {e} : pkt'[s] = pkt[s] /\ ptr'[s] = ptr[s]
  BY DEF ExpirerStep, ExpirerTop, ExpirerLock, ScanKeep, ScanExpired, ReadPacket, ScanResume,
     ScanEnd, PlanSleep, CondWait, Timeout
<1>5. Alone(e) /\ pc'[e] = l
  BY <1>3, <1>4 DEF Alone
<1>6. blank' = {}
  BY <1>1 DEF AInv
<1> QED BY <1>1, <1>2, <1>5, <1>6, SilentStep

LEMMA AppAnnounces ==
  ASSUME Listening, ~Moving, ~fault, IInv, AInv, StopExpirer \/ StopStep \/ IpChanged \/ IpStep
  PROVE  AInv'
<1> USE ThreadsAre DEF IInv, TypeOK, Goto, heap, locals, timer, flags
<1> USE DEF ThreadType, PcType, LocalType
<1>0. blank = {}
  BY DEF AInv
<1>1. CASE StopExpirer \/ StopServers \/ StartServers \/ IpChanged \/ IpKeep \/ IpGone
           \/ IpResume \/ IpEnd \/ ReadPacket(App, "ipRead")
           \/ WalkFrom("stopLock", "stopScan") \/ WalkFrom("ipLock", "ipScan")
  <2>1. UNCHANGED <<name, alloc, devs, blank, view>>
    BY <1>1 DEF StopExpirer, StopServers, StartServers, IpChanged, IpKeep, IpGone, IpResume,
       IpEnd, ReadPacket, WalkFrom
  <2>2. pc[App] \in {"idle", "stopServers", "startServers", "ipScan", "ipBack", "ipRead",
                     "stopLock", "ipLock"}
    BY <1>1 DEF StopExpirer, StopServers, StartServers, IpChanged, IpKeep, IpGone, IpResume,
       IpEnd, ReadPacket, WalkFrom
  <2>3. PICK l \in {"stopSignal", "stopServers", "stopLock", "idle", "ipLock", "ipScan",
                    "ipRead", "remove", "stopScan"} :
          (pc' = pc /\ l = pc[App]) \/ pc' = [pc EXCEPT ![App] = l]
    BY <1>1 DEF StopExpirer, StopServers, StartServers, IpChanged, IpKeep, IpGone, IpResume,
       IpEnd, ReadPacket, WalkFrom
  <2>4. \A s \in Threads \ {App} : pkt'[s] = pkt[s] /\ ptr'[s] = ptr[s]
    BY <1>1 DEF StopExpirer, StopServers, StartServers, IpChanged, IpKeep, IpGone, IpResume,
       IpEnd, ReadPacket, WalkFrom
  <2>5. Alone(App) /\ pc'[App] = l
    BY <2>3, <2>4 DEF Alone
  <2> QED BY <1>0, <2>1, <2>2, <2>5, SilentStep
<1>2. CASE StopSignal
  <2>1. /\ pc[App] = "stopSignal" /\ SignalCond([pc EXCEPT ![App] = "stopServers"])
        /\ UNCHANGED <<name, alloc, devs, blank, view, pkt, ptr>>
    BY <1>2 DEF StopSignal
  <2>2. Alone(App) /\ pc'[App] = "stopServers"
    BY <2>1 DEF Alone, SignalCond
  <2> QED BY <1>0, <2>1, <2>2, SilentStep
<1>3. CASE StartThread
  <2>1. pc[App] = "startThread" /\ UNCHANGED <<name, alloc, devs, blank, view, pkt, ptr>>
    BY <1>3 DEF StartThread
  <2>2. Alone(App) /\ pc'[App] = "startServers"
    BY <1>3, <2>1 DEF StartThread, Alone
  <2> QED BY <1>0, <2>1, <2>2, SilentStep
<1>4. CASE StopRelease \/ StopSkip \/ StopRelock
  <2>1. /\ pc'[App] \in {"stopNotify", "stopRelock", "stopScan"}
        /\ \A s \in Threads \ {App} : pc'[s] = pc[s] /\ pkt'[s] = pkt[s] /\ ptr'[s] = ptr[s]
        /\ UNCHANGED <<name, alloc, devs, blank, view>>
    BY <1>4 DEF StopRelease, StopSkip, StopRelock
  <2>2. Alone(App) /\ NamesPacket(App)' /\ NamesStay
    BY <2>1 DEF Alone, NamesPacket, NamesStay, HeapType
  <2>3. ASSUME NEW d \in Named' PROVE AnnouncedBy(App, d)'
    BY <2>1 DEF AnnouncedBy
  <2> QED BY <1>0, <2>1, <2>2, <2>3, AnnouncedStep DEF Announced
<1>5. CASE StopNotify
  <2>1. /\ pc' = [pc EXCEPT ![App] = "stopRelock"]
        /\ UNCHANGED <<name, alloc, devs, blank, pkt, ptr>>
    BY <1>5 DEF StopNotify
  <2>2. Alone(App) /\ NamesPacket(App)' /\ NamesStay
    BY <2>1 DEF Alone, NamesPacket, NamesStay, HeapType
  <2>3. ASSUME NEW d \in Named' PROVE AnnouncedBy(App, d)'
    BY <2>1 DEF AnnouncedBy
  <2> QED BY <1>0, <2>1, <2>2, <2>3, AnnouncedStep DEF Announced
<1>6. CASE StopClear
  <2>1. /\ pc'[App] \in {"startThread", "idle"}
        /\ \A s \in Threads \ {App} : pc'[s] = pc[s]
        /\ devs' = {} /\ blank' = {}
        /\ UNCHANGED <<name, alloc, pkt, ptr>>
    BY <1>6 DEF StopClear
  <2>2. Alone(App) /\ NamesPacket(App)' /\ NamesStay
    BY <2>1 DEF Alone, NamesPacket, NamesStay, HeapType
  <2>3. Named' = {}
    BY <2>1 DEF Named
  <2> QED BY <2>1, <2>2, <2>3, AnnouncedStep
<1> QED BY <1>1, <1>2, <1>3, <1>4, <1>5, <1>6 DEF StopStep, IpStep

LEMMA NextAInv == IInv /\ AInv /\ [Next]_vars => AInv'
<1> SUFFICES ASSUME IInv, AInv, [Next]_vars PROVE AInv'
    OBVIOUS
<1>0. CASE ~(Listening /\ ~Moving)
  BY <1>0 DEF AInv
<1>1. CASE UNCHANGED vars
  BY <1>1 DEF vars, heap, locals, AInv, NamesPacket, CachedIsAnnounced, Named
<1>2. CASE Listening /\ ~Moving /\ ~fault
  <2> USE <1>2, ThreadsAre DEF TypeOK, Goto, heap, locals, timer, flags
  <2> USE DEF ThreadType, PcType, LocalType
  <2>0. blank = {} /\ TypeOK
    BY DEF AInv, IInv
  <2>1. ASSUME NEW t \in Receivers, NEW u \in Udns, AliveArrives(t, u) PROVE AInv'
    BY <2>0, <2>1, SilentStep DEF AliveArrives, Alone
  <2>2. ASSUME NEW t \in Notifiers, NEW u \in Udns, ByebyeArrives(t, u) PROVE AInv'
    BY <2>0, <2>2, SilentStep DEF ByebyeArrives, Alone
  <2>3. ASSUME NEW t \in Threads, UseFreed(t) PROVE AInv'
    BY <2>3 DEF UseFreed, AInv, NamesPacket, CachedIsAnnounced
  <2>4. ASSUME NEW d \in Devs, Subscribe(d) PROVE AInv'
    <3>1. /\ pc[App] = "idle" /\ pc'[App] = "idle"
          /\ UNCHANGED <<name, alloc, devs, blank, view, pkt, ptr>>
      BY <2>0, <2>4 DEF Subscribe, SignalCond
    <3>2. Alone(App)
      BY <2>0, <2>4, <3>1 DEF Subscribe, SignalCond, Alone
    <3> QED BY <2>0, <3>1, <3>2, SilentStep
  <2>5. CASE Tick
    BY <2>5 DEF Tick, AInv, NamesPacket, CachedIsAnnounced, Named
  <2> QED
    BY <1>1, <2>1, <2>2, <2>3, <2>4, <2>5, AddAnnounces, RemoveAnnounces, ExpirerAnnounces,
       AppAnnounces
    DEF Next, AtRest, Crashed
<1>3. CASE fault
  BY <1>1, <1>3 DEF Next, Crashed
<1> QED BY <1>0, <1>1, <1>2, <1>3

\* No finished sequence of callbacks leaves a cached device hidden from the application:
\* the receivers announce what they add and a Removed is followed by the deletion, for
\* any number of receivers and devices that stay where they are.
THEOREM CacheIsAnnounced == Spec => []CachedIsAnnounced
<1>1. Init => AInv
  <2>1. Init => Named = {} /\ blank = {}
    BY DEF Init, Named
  <2>2. Init => \A t \in Threads : NamesPacket(t)
    BY DEF Init, NamesPacket
  <2> QED BY <2>1, <2>2 DEF AInv, CachedIsAnnounced
<1>2. AInv => CachedIsAnnounced
  BY DEF AInv, CachedIsAnnounced
<1> QED BY Invariance, NextAInv, <1>1, <1>2, PTL DEF Spec

=============================================================================
