------------------------------ MODULE Discovery ------------------------------
(***************************************************************************)
(* What a control point is told of a device: the device announces itself   *)
(* when it is started, its advertiser threads announce it again within     *)
(* half its lease, a stop says byebye, and an announcement counts until    *)
(* the lease it carries has run out.                                       *)
(*                                                                         *)
(* An announcement (all its datagrams, on all interfaces) is delivered at  *)
(* once or lost.  There is one CgThread object for all advertisers: a      *)
(* start clears what the last stop has told a thread that still sleeps.    *)
(* Time is counted in ticks; a step that does not sleep takes no time, so  *)
(* that time passes only when every thread sleeps.                         *)
(***************************************************************************)
EXTENDS Integers

CONSTANTS
  Lease,      \* lease time of the device
  MaxWait,    \* the longest random wait before a notification
  StopWait,   \* the sleep of cg_thread_stop
  MaxStarts,  \* bound: advertiser threads ever started
  MaxTime     \* bound: the clock stops here

ASSUME TimeAssumption ==
  /\ Lease \in Nat \ {0} /\ MaxWait \in Nat /\ StopWait \in Nat
  /\ (Lease \div 2) + MaxWait <= Lease
  /\ MaxStarts \in Nat /\ MaxTime \in Nat

VARIABLES
  app,      \* what the application's call of start or stop is doing
  restart,  \* the stop was called by start
  until,    \* when its sleep ends
  flag,     \* runnableFlag of the advertiser thread object
  starts,   \* advertiser threads started so far
  adv,      \* what each of them does
  wake,     \* when its sleep ends
  serving,  \* the servers are open since a start
  known,    \* an announcement is in force at the control point
  expires,  \* end of the lease it carried
  missed,   \* the last announcement was lost
  stopAt,   \* history: when the servers were closed last
  now

call == <<app, restart, until>>
threads == <<flag, starts, adv, wake>>
cp == <<known, expires, missed>>
vars == <<call, threads, serving, cp, stopAt, now>>

Advertisers == 1..MaxStarts

Init ==
  /\ app = "idle" /\ restart = FALSE /\ until = 0
  /\ flag = FALSE /\ starts = 0
  /\ adv = [i \in Advertisers |-> "none"] /\ wake = [i \in Advertisers |-> 0]
  /\ serving = FALSE /\ known = FALSE /\ expires = 0 /\ missed = FALSE
  /\ stopAt = 0 /\ now = 0

-----------------------------------------------------------------------------
(* What a notification does at the control point.                          *)

\* What is heard is the announcement: whether a description is found behind its location
\* (in this build it is not: a streaming server answers there) is not part of it.
Heard == known' = TRUE /\ expires' = now + Lease /\ missed' = FALSE
Lost == missed' = TRUE /\ UNCHANGED <<known, expires>>
Alive == Heard \/ Lost

-----------------------------------------------------------------------------
(* The application.                                                        *)

Call(again) ==
  /\ app = "idle"
  /\ app' = "byebye" /\ restart' = again
  /\ until' \in now..(now + MaxWait)
  /\ UNCHANGED <<threads, serving, cp, stopAt, now>>

Start == starts < MaxStarts /\ Call(TRUE)
Stop == Call(FALSE)

\* The byebye comes first, whether the device runs or not.
Byebye ==
  /\ app = "byebye" /\ now >= until
  /\ app' = "stop"
  /\ known' \in {FALSE, known}
  /\ UNCHANGED <<restart, until, threads, serving, expires, missed, stopAt, now>>

\* Mutant of StopAdvertiser: the thread object is thought to be stopped already.
StopAdvertiserSkips ==
  /\ app = "stop"
  /\ app' = "close" /\ UNCHANGED flag
  /\ until' = now
  /\ UNCHANGED <<restart, starts, adv, wake, serving, cp, stopAt, now>>

StopAdvertiser ==
  /\ app = "stop"
  /\ app' = "close" /\ flag' = FALSE
  /\ until' = IF flag THEN now + StopWait ELSE now
  /\ UNCHANGED <<restart, starts, adv, wake, serving, cp, stopAt, now>>

CloseServers ==
  /\ app = "close" /\ now >= until
  /\ app' = IF restart THEN "open" ELSE "idle"
  /\ serving' = FALSE /\ stopAt' = now
  /\ UNCHANGED <<restart, until, threads, cp, now>>

OpenServers ==
  /\ app = "open"
  /\ app' = "announce" /\ serving' = TRUE
  /\ until' \in now..(now + MaxWait)
  /\ UNCHANGED <<restart, threads, cp, stopAt, now>>

FirstAnnounce ==
  /\ app = "announce" /\ now >= until
  /\ app' = "thread"
  /\ Alive
  /\ UNCHANGED <<restart, until, threads, serving, stopAt, now>>

StartAdvertiser ==
  /\ app = "thread" /\ starts < MaxStarts
  /\ app' = "idle" /\ flag' = TRUE
  /\ starts' = starts + 1
  /\ adv' = [adv EXCEPT ![starts + 1] = "top"]
  /\ UNCHANGED <<restart, until, wake, serving, cp, stopAt, now>>

\* No thread: start returns TRUE all the same.
StartAdvertiserFails ==
  /\ app = "thread"
  /\ app' = "idle" /\ flag' = FALSE
  /\ UNCHANGED <<restart, until, starts, adv, wake, serving, cp, stopAt, now>>

-----------------------------------------------------------------------------
(* Advertiser i.                                                           *)

\* Mutants of Interval: half the lease is added to half a lease; taken from a quarter.
IntervalLate == (Lease \div 2)..Lease
IntervalEarly == ((Lease \div 4) - Lease)..(Lease \div 2)

Interval == (Lease \div 4)..(Lease \div 2)

Sleep(i) ==
  /\ adv[i] = "top" /\ flag
  /\ adv' = [adv EXCEPT ![i] = "sleep"]
  /\ \E d \in Interval : wake' = [wake EXCEPT ![i] = now + d]
  /\ UNCHANGED <<call, flag, starts, serving, cp, stopAt, now>>

\* Mutant of Wake: the flag is not looked at again after the sleep.
WakeBlind(i) ==
  /\ adv[i] = "sleep" /\ now >= wake[i]
  /\ adv' = [adv EXCEPT ![i] = "announce"]
  /\ \E d \in 0..MaxWait : wake' = [wake EXCEPT ![i] = now + d]
  /\ UNCHANGED <<call, flag, starts, serving, cp, stopAt, now>>

Wake(i) ==
  /\ adv[i] = "sleep" /\ now >= wake[i] /\ flag
  /\ adv' = [adv EXCEPT ![i] = "announce"]
  /\ \E d \in 0..MaxWait : wake' = [wake EXCEPT ![i] = now + d]
  /\ UNCHANGED <<call, flag, starts, serving, cp, stopAt, now>>

Announce(i) ==
  /\ adv[i] = "announce" /\ now >= wake[i]
  /\ adv' = [adv EXCEPT ![i] = "top"]
  /\ Alive
  /\ UNCHANGED <<call, flag, starts, wake, serving, stopAt, now>>

End(i) ==
  /\ adv[i] = "top" \/ (adv[i] = "sleep" /\ now >= wake[i])
  /\ ~flag
  /\ adv' = [adv EXCEPT ![i] = "end"]
  /\ UNCHANGED <<call, flag, starts, wake, serving, cp, stopAt, now>>

-----------------------------------------------------------------------------

\* Every thread sleeps and has still to sleep.
Tick ==
  /\ now < MaxTime
  /\ app \notin {"stop", "open", "thread"}
  /\ app # "idle" => now < until
  /\ \A i \in Advertisers :
       adv[i] # "top" /\ (adv[i] \in {"sleep", "announce"} => now < wake[i])
  /\ now' = now + 1
  /\ known' = (known /\ now + 1 <= expires)
  /\ UNCHANGED <<call, threads, serving, expires, missed, stopAt>>

AppNext ==
  \/ Start \/ Stop \/ Byebye \/ StopAdvertiser \/ CloseServers \/ OpenServers
  \/ FirstAnnounce \/ StartAdvertiser \/ StartAdvertiserFails

AdvNext(i) == Sleep(i) \/ Wake(i) \/ Announce(i) \/ End(i)

Next == AppNext \/ Tick \/ \E i \in Advertisers : AdvNext(i)

Spec == Init /\ [][Next]_vars

-----------------------------------------------------------------------------
(* Properties.                                                             *)

TypeOK ==
  /\ app \in {"idle", "byebye", "stop", "close", "open", "announce", "thread"}
  /\ restart \in BOOLEAN /\ until \in Nat
  /\ flag \in BOOLEAN /\ starts \in 0..MaxStarts
  /\ adv \in [Advertisers -> {"none", "top", "sleep", "announce", "end"}]
  /\ wake \in [Advertisers -> Nat]
  /\ serving \in BOOLEAN
  /\ known \in BOOLEAN /\ expires \in Nat /\ missed \in BOOLEAN
  /\ stopAt \in Nat /\ now \in Nat

\* While a device runs and its last announcement was received, the lease of an announcement
\* is in force: an advertiser renews it before it has run out, also when older advertisers
\* still sleep or the device has been stopped and started in between.
KnownWhileRunning == app = "idle" /\ flag /\ ~missed => known

\* No announcement of a stopped device stays in force, even if the byebye was lost or an
\* advertiser that had already looked at its flag announced the device after it: one
\* lease and one wait after the stop the last one has run out.
ForgottenAfterStop == ~serving /\ now > stopAt + MaxWait + Lease => ~known

\* A stop ends all advertisers, the ones earlier stops have missed included, within the
\* longest sleep of an advertiser.
AdvertisersEnd ==
  ~serving /\ now > stopAt + (Lease \div 2) + MaxWait =>
    \A i \in Advertisers : adv[i] \in {"none", "end"}

=============================================================================
