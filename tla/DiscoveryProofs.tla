--------------------------- MODULE DiscoveryProofs ---------------------------
(***************************************************************************)
(* Proofs about Discovery, for every lease, wait and number of starts that *)
(* satisfy TimeAssumption: the device's announcements overlap, and what a  *)
(* stopped device has announced runs out.                                  *)
(*                                                                         *)
(* The argument: an advertiser that sleeps wakes up early enough to        *)
(* announce before the lease in force ends (Covered), since it sleeps at   *)
(* most half a lease and a wait; the history variable stopAt bounds what   *)
(* an advertiser a stop has missed may still do (After).                   *)
(***************************************************************************)
EXTENDS Discovery, TLAPS

Half == Lease \div 2
Live == {"top", "sleep", "announce"}

\* No thread oversleeps, and none sleeps longer than it may.
Clock ==
  \A i \in Advertisers :
    /\ adv[i] = "sleep" => now <= wake[i] /\ wake[i] <= now + Half
    /\ adv[i] = "announce" => now <= wake[i] /\ wake[i] <= now + MaxWait

LeaseInv == expires <= now + Lease /\ (known => now <= expires)

\* What the application's step says of the flag and of the last advertiser.
Control ==
  /\ flag => /\ serving /\ app \in {"idle", "byebye", "stop"}
             /\ starts \in Advertisers /\ adv[starts] \in Live
  /\ app = "open" => ~serving
  /\ app \in {"announce", "thread"} => serving

\* The last advertiser announces in time.
Covered ==
  /\ adv[starts] = "top" => now + Half + MaxWait <= expires
  /\ adv[starts] = "sleep" => wake[starts] + MaxWait <= expires
  /\ adv[starts] = "announce" => wake[starts] <= expires

Fresh ==
  /\ app = "thread" /\ ~missed => known /\ expires = now + Lease
  /\ app = "idle" /\ flag /\ ~missed => known /\ Covered

\* What a stop has left.
After ==
  ~serving =>
    /\ known => expires <= stopAt + MaxWait + Lease
    /\ \A i \in Advertisers :
         /\ adv[i] = "top" => now <= stopAt + MaxWait
         /\ adv[i] = "sleep" => wake[i] <= stopAt + Half
         /\ adv[i] = "announce" => wake[i] <= stopAt + MaxWait

IInv == TypeOK /\ Clock /\ LeaseInv /\ Control /\ Fresh /\ After

LEMMA Times ==
  /\ Lease \in Nat /\ MaxWait \in Nat /\ StopWait \in Nat /\ MaxStarts \in Nat
  /\ Half \in Nat /\ Half + MaxWait <= Lease
  /\ \A d \in Interval : d \in Nat /\ d <= Half
<1>1. Lease \in Nat /\ MaxWait \in Nat /\ StopWait \in Nat /\ MaxStarts \in Nat
  BY TimeAssumption
<1>2. (Lease \div 2) \in Nat /\ (Lease \div 4) \in Nat
  BY <1>1, SMT
<1>3. Half \in Nat /\ Half + MaxWait <= Lease
  BY <1>2, TimeAssumption DEF Half
<1>4. \A d \in Interval : d \in Nat /\ d <= Half
  BY <1>2 DEF Interval, Half
<1> QED BY <1>1, <1>3, <1>4

LEMMA InitIInv == Init => IInv
<1> SUFFICES ASSUME Init PROVE IInv
  OBVIOUS
<1>1. TypeOK
  <2>1. adv \in [Advertisers -> {"none", "top", "sleep", "announce", "end"}]
        /\ wake \in [Advertisers -> Nat]
    BY DEF Init
  <2>2. starts \in 0..MaxStarts
    BY Times DEF Init
  <2> QED BY <2>1, <2>2 DEF Init, TypeOK
<1>2. Clock /\ LeaseInv /\ Control /\ Fresh /\ After
  BY Times DEF Init, Clock, LeaseInv, Control, Fresh, After
<1> QED BY <1>1, <1>2 DEF IInv

LEMMA StartIInv ==
  ASSUME IInv, Start
  PROVE  IInv'
<1>0. TypeOK /\ Clock /\ LeaseInv /\ Control /\ Fresh /\ After
  BY DEF IInv
<1>1. TypeOK'
  BY <1>0, Times DEF Start, Call, TypeOK, call, threads, cp
<1>2. Clock'
  BY <1>0, Times DEF Start, Call, Clock, TypeOK, call, threads, cp
<1>3. LeaseInv'
  BY <1>0, Times DEF Start, Call, LeaseInv, TypeOK, call, threads, cp
<1>4. Control'
  BY <1>0, Times DEF Start, Call, Control, Live, TypeOK, call, threads, cp
<1>5. Fresh'
  BY <1>0, Times DEF Start, Call, Fresh, Covered, TypeOK, Clock, LeaseInv, Control, call, threads, cp
<1>6. After'
  BY <1>0, Times DEF Start, Call, After, TypeOK, Clock, LeaseInv, Control, call, threads, cp
<1> QED BY <1>1, <1>2, <1>3, <1>4, <1>5, <1>6 DEF IInv

LEMMA StopIInv ==
  ASSUME IInv, Stop
  PROVE  IInv'
<1>0. TypeOK /\ Clock /\ LeaseInv /\ Control /\ Fresh /\ After
  BY DEF IInv
<1>1. TypeOK'
  <2>1. until' \in Nat
    BY <1>0, Times DEF Stop, Call, TypeOK
  <2>2. app' = "byebye" /\ restart' = FALSE
    BY DEF Stop, Call
  <2> QED BY <1>0, <2>1, <2>2 DEF Stop, Call, TypeOK, threads, cp
<1>2. Clock'
  BY <1>0, Times DEF Stop, Call, Clock, TypeOK, call, threads, cp
<1>3. LeaseInv'
  BY <1>0, Times DEF Stop, Call, LeaseInv, TypeOK, call, threads, cp
<1>4. Control'
  BY <1>0, Times DEF Stop, Call, Control, Live, TypeOK, call, threads, cp
<1>5. Fresh'
  BY <1>0, Times DEF Stop, Call, Fresh, Covered, TypeOK, Clock, LeaseInv, Control, call, threads, cp
<1>6. After'
  BY <1>0, Times DEF Stop, Call, After, TypeOK, Clock, LeaseInv, Control, call, threads, cp
<1> QED BY <1>1, <1>2, <1>3, <1>4, <1>5, <1>6 DEF IInv

LEMMA ByebyeIInv ==
  ASSUME IInv, Byebye
  PROVE  IInv'
<1>0. TypeOK /\ Clock /\ LeaseInv /\ Control /\ Fresh /\ After
  BY DEF IInv
<1>1. TypeOK'
  BY <1>0, Times DEF Byebye, TypeOK, call, threads, cp
<1>2. Clock'
  BY <1>0, Times DEF Byebye, Clock, TypeOK, call, threads, cp
<1>3. LeaseInv'
  <2>1. known' => known
    BY DEF Byebye
  <2>2. expires' = expires /\ now' = now
    BY DEF Byebye
  <2> QED BY <1>0, <2>1, <2>2 DEF LeaseInv
<1>4. Control'
  BY <1>0, Times DEF Byebye, Control, Live, TypeOK, call, threads, cp
<1>5. Fresh'
  BY <1>0, Times DEF Byebye, Fresh, Covered, TypeOK, Clock, LeaseInv, Control, call, threads, cp
<1>6. After'
  BY <1>0, Times DEF Byebye, After, TypeOK, Clock, LeaseInv, Control, call, threads, cp
<1> QED BY <1>1, <1>2, <1>3, <1>4, <1>5, <1>6 DEF IInv

LEMMA StopAdvertiserIInv ==
  ASSUME IInv, StopAdvertiser
  PROVE  IInv'
<1>0. TypeOK /\ Clock /\ LeaseInv /\ Control /\ Fresh /\ After
  BY DEF IInv
<1>1. TypeOK'
  <2>1. until' \in Nat
    BY <1>0, Times DEF StopAdvertiser, TypeOK
  <2>2. app' = "close" /\ flag' = FALSE
    BY DEF StopAdvertiser
  <2> QED BY <1>0, <2>1, <2>2 DEF StopAdvertiser, TypeOK, cp
<1>2. Clock'
  BY <1>0, Times DEF StopAdvertiser, Clock, TypeOK, call, threads, cp
<1>3. LeaseInv'
  BY <1>0, Times DEF StopAdvertiser, LeaseInv, TypeOK, call, threads, cp
<1>4. Control'
  BY <1>0, Times DEF StopAdvertiser, Control, Live, TypeOK, call, threads, cp
<1>5. Fresh'
  BY <1>0, Times DEF StopAdvertiser, Fresh, Covered, TypeOK, Clock, LeaseInv, Control, call, threads, cp
<1>6. After'
  BY <1>0, Times DEF StopAdvertiser, After, TypeOK, Clock, LeaseInv, Control, call, threads, cp
<1> QED BY <1>1, <1>2, <1>3, <1>4, <1>5, <1>6 DEF IInv

LEMMA CloseServersIInv ==
  ASSUME IInv, CloseServers
  PROVE  IInv'
<1>0. TypeOK /\ Clock /\ LeaseInv /\ Control /\ Fresh /\ After
  BY DEF IInv
<1>1. TypeOK'
  BY <1>0, Times DEF CloseServers, TypeOK, call, threads, cp
<1>2. Clock'
  BY <1>0, Times DEF CloseServers, Clock, TypeOK, call, threads, cp
<1>3. LeaseInv'
  BY <1>0, Times DEF CloseServers, LeaseInv, TypeOK, call, threads, cp
<1>4. Control'
  BY <1>0, Times DEF CloseServers, Control, Live, TypeOK, call, threads, cp
<1>5. Fresh'
  BY <1>0, Times DEF CloseServers, Fresh, Covered, TypeOK, Clock, LeaseInv, Control, call, threads, cp
<1>6. After'
  BY <1>0, Times DEF CloseServers, After, TypeOK, Clock, LeaseInv, Control, call, threads, cp
<1> QED BY <1>1, <1>2, <1>3, <1>4, <1>5, <1>6 DEF IInv

LEMMA OpenServersIInv ==
  ASSUME IInv, OpenServers
  PROVE  IInv'
<1>0. TypeOK /\ Clock /\ LeaseInv /\ Control /\ Fresh /\ After
  BY DEF IInv
<1>1. TypeOK'
  BY <1>0, Times DEF OpenServers, TypeOK, call, threads, cp
<1>2. Clock'
  BY <1>0, Times DEF OpenServers, Clock, TypeOK, call, threads, cp
<1>3. LeaseInv'
  BY <1>0, Times DEF OpenServers, LeaseInv, TypeOK, call, threads, cp
<1>4. Control'
  BY <1>0, Times DEF OpenServers, Control, Live, TypeOK, call, threads, cp
<1>5. Fresh'
  BY <1>0, Times DEF OpenServers, Fresh, Covered, TypeOK, Clock, LeaseInv, Control, call, threads, cp
<1>6. After'
  BY <1>0, Times DEF OpenServers, After, TypeOK, Clock, LeaseInv, Control, call, threads, cp
<1> QED BY <1>1, <1>2, <1>3, <1>4, <1>5, <1>6 DEF IInv

LEMMA FirstAnnounceIInv ==
  ASSUME IInv, FirstAnnounce
  PROVE  IInv'
<1>0. TypeOK /\ Clock /\ LeaseInv /\ Control /\ Fresh /\ After
  BY DEF IInv
<1>1. TypeOK'
  <2>1. known' \in BOOLEAN /\ expires' \in Nat /\ missed' \in BOOLEAN
    <3>1. CASE Heard
      <4>1. now \in Nat /\ now + Lease \in Nat
        BY <1>0, Times DEF TypeOK
      <4> QED BY <3>1, <4>1 DEF Heard
    <3>2. CASE Lost
      BY <3>2, <1>0 DEF Lost, TypeOK
    <3> QED BY <3>1, <3>2 DEF FirstAnnounce, Alive
  <2>2. app' = "thread"
    BY DEF FirstAnnounce
  <2> QED BY <1>0, <2>1, <2>2 DEF FirstAnnounce, TypeOK, call, threads
<1>2. Clock'
  BY <1>0, Times DEF FirstAnnounce, Alive, Heard, Lost, Clock, TypeOK, call, threads, cp
<1>3. LeaseInv'
  BY <1>0, Times DEF FirstAnnounce, Alive, Heard, Lost, LeaseInv, TypeOK, call, threads, cp
<1>4. Control'
  BY <1>0, Times DEF FirstAnnounce, Alive, Heard, Lost, Control, Live, TypeOK, call, threads, cp
<1>5. Fresh'
  BY <1>0, Times DEF FirstAnnounce, Alive, Heard, Lost, Fresh, Covered, TypeOK, Clock, LeaseInv, Control, call, threads, cp
<1>6. After'
  BY <1>0, Times DEF FirstAnnounce, Alive, Heard, Lost, After, TypeOK, Clock, LeaseInv, Control, call, threads, cp
<1> QED BY <1>1, <1>2, <1>3, <1>4, <1>5, <1>6 DEF IInv

LEMMA StartAdvertiserIInv ==
  ASSUME IInv, StartAdvertiser
  PROVE  IInv'
<1>0. TypeOK /\ Clock /\ LeaseInv /\ Control /\ Fresh /\ After
  BY DEF IInv
<1>1. TypeOK'
  <2>1. starts' \in 0..MaxStarts
    BY <1>0, Times DEF StartAdvertiser, TypeOK
  <2>2. adv' \in [Advertisers -> {"none", "top", "sleep", "announce", "end"}]
    BY <1>0 DEF StartAdvertiser, TypeOK
  <2>3. app' = "idle" /\ flag' = TRUE
    BY DEF StartAdvertiser
  <2> QED BY <1>0, <2>1, <2>2, <2>3 DEF StartAdvertiser, TypeOK, cp
<1>2. Clock'
  BY <1>0, Times DEF StartAdvertiser, Clock, TypeOK, call, threads, cp
<1>3. LeaseInv'
  BY <1>0, Times DEF StartAdvertiser, LeaseInv, TypeOK, call, threads, cp
<1>4. Control'
  <2>1. starts' \in Advertisers /\ adv'[starts'] = "top"
    BY <1>0, Times DEF StartAdvertiser, TypeOK, Advertisers
  <2> QED BY <1>0, <2>1 DEF StartAdvertiser, Control, Live
<1>5. Fresh'
  <2>1. starts' \in Advertisers /\ adv'[starts'] = "top"
    BY <1>0, Times DEF StartAdvertiser, TypeOK, Advertisers
  <2>2. ~missed => known /\ expires = now + Lease
    BY <1>0 DEF StartAdvertiser, Fresh
  <2>3. app' = "idle" /\ UNCHANGED <<cp, now>>
    BY DEF StartAdvertiser
  <2>4. now \in Nat
    BY <1>0 DEF TypeOK
  <2> QED BY <2>1, <2>2, <2>3, <2>4, Times DEF Fresh, Covered, cp
<1>6. After'
  BY <1>0, Times DEF StartAdvertiser, After, TypeOK, Clock, LeaseInv, Control, call, threads, cp
<1> QED BY <1>1, <1>2, <1>3, <1>4, <1>5, <1>6 DEF IInv

LEMMA StartAdvertiserFailsIInv ==
  ASSUME IInv, StartAdvertiserFails
  PROVE  IInv'
<1>0. TypeOK /\ Clock /\ LeaseInv /\ Control /\ Fresh /\ After
  BY DEF IInv
<1>1. TypeOK'
  BY <1>0, Times DEF StartAdvertiserFails, TypeOK, call, threads, cp
<1>2. Clock'
  BY <1>0, Times DEF StartAdvertiserFails, Clock, TypeOK, call, threads, cp
<1>3. LeaseInv'
  BY <1>0, Times DEF StartAdvertiserFails, LeaseInv, TypeOK, call, threads, cp
<1>4. Control'
  BY <1>0, Times DEF StartAdvertiserFails, Control, Live, TypeOK, call, threads, cp
<1>5. Fresh'
  BY <1>0, Times DEF StartAdvertiserFails, Fresh, Covered, TypeOK, Clock, LeaseInv, Control, call, threads, cp
<1>6. After'
  BY <1>0, Times DEF StartAdvertiserFails, After, TypeOK, Clock, LeaseInv, Control, call, threads, cp
<1> QED BY <1>1, <1>2, <1>3, <1>4, <1>5, <1>6 DEF IInv

LEMMA SleepIInv ==
  ASSUME IInv, NEW i \in Advertisers, Sleep(i)
  PROVE  IInv'
<1>0. TypeOK /\ Clock /\ LeaseInv /\ Control /\ Fresh /\ After
  BY DEF IInv
<1>1. TypeOK'
  BY <1>0, Times DEF Sleep, TypeOK, call, threads, cp
<1>2. Clock'
  BY <1>0, Times DEF Sleep, Clock, TypeOK, call, threads, cp
<1>3. LeaseInv'
  BY <1>0, Times DEF Sleep, LeaseInv, TypeOK, call, threads, cp
<1>4. Control'
  BY <1>0, Times DEF Sleep, Control, Live, TypeOK, call, threads, cp
<1>5. Fresh'
  BY <1>0, Times DEF Sleep, Fresh, Covered, TypeOK, Clock, LeaseInv, Control, call, threads, cp
<1>6. After'
  BY <1>0, Times DEF Sleep, After, TypeOK, Clock, LeaseInv, Control, call, threads, cp
<1> QED BY <1>1, <1>2, <1>3, <1>4, <1>5, <1>6 DEF IInv

LEMMA WakeIInv ==
  ASSUME IInv, NEW i \in Advertisers, Wake(i)
  PROVE  IInv'
<1>0. TypeOK /\ Clock /\ LeaseInv /\ Control /\ Fresh /\ After
  BY DEF IInv
<1>1. TypeOK'
  BY <1>0, Times DEF Wake, TypeOK, call, threads, cp
<1>2. Clock'
  BY <1>0, Times DEF Wake, Clock, TypeOK, call, threads, cp
<1>3. LeaseInv'
  BY <1>0, Times DEF Wake, LeaseInv, TypeOK, call, threads, cp
<1>4. Control'
  BY <1>0, Times DEF Wake, Control, Live, TypeOK, call, threads, cp
<1>5. Fresh'
  BY <1>0, Times DEF Wake, Fresh, Covered, TypeOK, Clock, LeaseInv, Control, call, threads, cp
<1>6. After'
  BY <1>0, Times DEF Wake, After, TypeOK, Clock, LeaseInv, Control, call, threads, cp
<1> QED BY <1>1, <1>2, <1>3, <1>4, <1>5, <1>6 DEF IInv

LEMMA AnnounceIInv ==
  ASSUME IInv, NEW i \in Advertisers, Announce(i)
  PROVE  IInv'
<1>0. TypeOK /\ Clock /\ LeaseInv /\ Control /\ Fresh /\ After
  BY DEF IInv
<1>1. TypeOK'
  <2>1. known' \in BOOLEAN /\ expires' \in Nat /\ missed' \in BOOLEAN
    <3>1. CASE Heard
      <4>1. now \in Nat /\ now + Lease \in Nat
        BY <1>0, Times DEF TypeOK
      <4> QED BY <3>1, <4>1 DEF Heard
    <3>2. CASE Lost
      BY <3>2, <1>0 DEF Lost, TypeOK
    <3> QED BY <3>1, <3>2 DEF Announce, Alive
  <2>2. app' = app
    BY DEF Announce, call
  <2>3. adv' \in [Advertisers -> {"none", "top", "sleep", "announce", "end"}]
    BY <1>0 DEF Announce, TypeOK
  <2> QED BY <1>0, <2>1, <2>2, <2>3 DEF Announce, TypeOK, call, threads
<1>2. Clock'
  BY <1>0, Times DEF Announce, Alive, Heard, Lost, Clock, TypeOK, call, threads, cp
<1>3. LeaseInv'
  BY <1>0, Times DEF Announce, Alive, Heard, Lost, LeaseInv, TypeOK, call, threads, cp
<1>4. Control'
  BY <1>0, Times DEF Announce, Alive, Heard, Lost, Control, Live, TypeOK, call, threads, cp
<1>5. Fresh'
  BY <1>0, Times DEF Announce, Alive, Heard, Lost, Fresh, Covered, TypeOK, Clock, LeaseInv, Control, call, threads, cp
<1>6. After'
  BY <1>0, Times DEF Announce, Alive, Heard, Lost, After, TypeOK, Clock, LeaseInv, Control, call, threads, cp
<1> QED BY <1>1, <1>2, <1>3, <1>4, <1>5, <1>6 DEF IInv

LEMMA EndIInv ==
  ASSUME IInv, NEW i \in Advertisers, End(i)
  PROVE  IInv'
<1>0. TypeOK /\ Clock /\ LeaseInv /\ Control /\ Fresh /\ After
  BY DEF IInv
<1>1. TypeOK'
  BY <1>0, Times DEF End, TypeOK, call, threads, cp
<1>2. Clock'
  BY <1>0, Times DEF End, Clock, TypeOK, call, threads, cp
<1>3. LeaseInv'
  BY <1>0, Times DEF End, LeaseInv, TypeOK, call, threads, cp
<1>4. Control'
  BY <1>0, Times DEF End, Control, Live, TypeOK, call, threads, cp
<1>5. Fresh'
  BY <1>0, Times DEF End, Fresh, Covered, TypeOK, Clock, LeaseInv, Control, call, threads, cp
<1>6. After'
  BY <1>0, Times DEF End, After, TypeOK, Clock, LeaseInv, Control, call, threads, cp
<1> QED BY <1>1, <1>2, <1>3, <1>4, <1>5, <1>6 DEF IInv

LEMMA TickIInv ==
  ASSUME IInv, Tick
  PROVE  IInv'
<1>0. TypeOK /\ Clock /\ LeaseInv /\ Control /\ Fresh /\ After
  BY DEF IInv
<1>1. TypeOK'
  BY <1>0, Times DEF Tick, TypeOK, call, threads, cp
<1>2. Clock'
  BY <1>0, Times DEF Tick, Clock, TypeOK, call, threads, cp
<1>3. LeaseInv'
  <2>1. known' => now + 1 <= expires
    BY DEF Tick
  <2>2. now' = now + 1 /\ expires' = expires
    BY DEF Tick
  <2> QED BY <1>0, <2>1, <2>2, Times DEF LeaseInv, TypeOK
<1>4. Control'
  BY <1>0, Times DEF Tick, Control, Live, TypeOK, call, threads, cp
<1>5. Fresh'
  <2>1. UNCHANGED <<app, flag, starts, adv, wake, expires, missed>> /\ app # "thread"
    BY DEF Tick, call, threads
  <2>2. SUFFICES ASSUME app = "idle", flag, ~missed PROVE known' /\ Covered'
    BY <2>1 DEF Fresh
  <2>3. starts \in Advertisers /\ adv[starts] \in Live /\ known /\ Covered
    BY <1>0, <2>2 DEF Control, Fresh
  <2>4. adv[starts] # "top" /\ now < wake[starts]
    BY <2>3 DEF Tick, Live
  <2>5. now + 1 <= expires
    BY <1>0, <2>3, <2>4, Times DEF Covered, Live, TypeOK
  <2>6. known'
    BY <2>3, <2>5 DEF Tick
  <2>7. Covered'
    BY <2>1, <2>3, <2>4 DEF Covered
  <2> QED BY <2>6, <2>7
<1>6. After'
  BY <1>0, Times DEF Tick, After, TypeOK, Clock, LeaseInv, Control, call, threads, cp
<1> QED BY <1>1, <1>2, <1>3, <1>4, <1>5, <1>6 DEF IInv

LEMMA StutterIInv ==
  ASSUME IInv, UNCHANGED vars
  PROVE  IInv'
<1>0. TypeOK /\ Clock /\ LeaseInv /\ Control /\ Fresh /\ After
  BY DEF IInv
<1>1. TypeOK'
  BY <1>0, Times DEF vars, TypeOK, call, threads, cp
<1>2. Clock'
  BY <1>0, Times DEF vars, Clock, TypeOK, call, threads, cp
<1>3. LeaseInv'
  BY <1>0, Times DEF vars, LeaseInv, TypeOK, call, threads, cp
<1>4. Control'
  BY <1>0, Times DEF vars, Control, Live, TypeOK, call, threads, cp
<1>5. Fresh'
  BY <1>0, Times DEF vars, Fresh, Covered, TypeOK, Clock, LeaseInv, Control, call, threads, cp
<1>6. After'
  BY <1>0, Times DEF vars, After, TypeOK, Clock, LeaseInv, Control, call, threads, cp
<1> QED BY <1>1, <1>2, <1>3, <1>4, <1>5, <1>6 DEF IInv

LEMMA NextIInv == IInv /\ [Next]_vars => IInv'
<1> SUFFICES ASSUME IInv, [Next]_vars PROVE IInv'
  OBVIOUS
<1>1. CASE Start
  BY <1>1, StartIInv
<1>2. CASE Stop
  BY <1>2, StopIInv
<1>3. CASE Byebye
  BY <1>3, ByebyeIInv
<1>4. CASE StopAdvertiser
  BY <1>4, StopAdvertiserIInv
<1>5. CASE CloseServers
  BY <1>5, CloseServersIInv
<1>6. CASE OpenServers
  BY <1>6, OpenServersIInv
<1>8. CASE FirstAnnounce
  BY <1>8, FirstAnnounceIInv
<1>9. CASE StartAdvertiser
  BY <1>9, StartAdvertiserIInv
<1>10. CASE StartAdvertiserFails
  BY <1>10, StartAdvertiserFailsIInv
<1>11. CASE Tick
  BY <1>11, TickIInv
<1>12. ASSUME NEW i \in Advertisers, Sleep(i) PROVE IInv'
  BY <1>12, SleepIInv
<1>13. ASSUME NEW i \in Advertisers, Wake(i) PROVE IInv'
  BY <1>13, WakeIInv
<1>14. ASSUME NEW i \in Advertisers, Announce(i) PROVE IInv'
  BY <1>14, AnnounceIInv
<1>15. ASSUME NEW i \in Advertisers, End(i) PROVE IInv'
  BY <1>15, EndIInv
<1>16. CASE UNCHANGED vars
  BY <1>16, StutterIInv
<1> QED
  BY <1>1, <1>2, <1>3, <1>4, <1>5, <1>6, <1>8, <1>9, <1>10, <1>11, <1>12, <1>13, <1>14, <1>15, <1>16
  DEF Next, AppNext, AdvNext

\* The inductive invariant holds in every state.
THEOREM Invariance == Spec => []IInv
<1>1. Init => IInv
  BY InitIInv
<1>2. IInv /\ [Next]_vars => IInv'
  BY NextIInv
<1> QED BY <1>1, <1>2, PTL DEF Spec

\* The state keeps its types.
THEOREM Types == Spec => []TypeOK
<1>1. IInv => TypeOK
  BY DEF IInv
<1> QED BY <1>1, Invariance, PTL

\* A running device whose last announcement was received is known, for every lease: the
\* advertiser's interval, half a lease and a wait at most, is short enough.
THEOREM Known == Spec => []KnownWhileRunning
<1>1. IInv => KnownWhileRunning
  BY DEF IInv, Fresh, KnownWhileRunning
<1> QED BY <1>1, Invariance, PTL

\* A stopped device is forgotten one lease and one wait after its stop at the latest.
THEOREM Forgotten == Spec => []ForgottenAfterStop
<1>1. IInv => ForgottenAfterStop
  <2> SUFFICES ASSUME IInv, ~serving, now > stopAt + MaxWait + Lease, known PROVE FALSE
    BY DEF ForgottenAfterStop
  <2>1. expires <= stopAt + MaxWait + Lease
    BY DEF IInv, After
  <2>2. now <= expires
    BY DEF IInv, LeaseInv
  <2> QED BY <2>1, <2>2, Times DEF IInv, TypeOK
<1> QED BY <1>1, Invariance, PTL

\* A stop ends the advertisers, also those that slept through earlier stops.
THEOREM Ended == Spec => []AdvertisersEnd
<1>1. IInv => AdvertisersEnd
  <2> SUFFICES ASSUME IInv, ~serving, now > stopAt + (Lease \div 2) + MaxWait,
                      NEW i \in Advertisers
               PROVE  adv[i] \in {"none", "end"}
    BY DEF AdvertisersEnd
  <2>1. adv[i] \in {"none", "top", "sleep", "announce", "end"} /\ wake[i] \in Nat
        /\ now \in Nat /\ stopAt \in Nat
    BY DEF IInv, TypeOK
  <2>2. adv[i] # "top"
    BY <2>1, Times DEF IInv, After, Half
  <2>3. adv[i] # "sleep"
    BY <2>1, Times DEF IInv, After, Clock, Half
  <2>4. adv[i] # "announce"
    BY <2>1, Times DEF IInv, After, Clock, Half
  <2> QED BY <2>1, <2>2, <2>3, <2>4
<1> QED BY <1>1, Invariance, PTL

=============================================================================
