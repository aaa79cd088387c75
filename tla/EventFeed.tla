----------------------------- MODULE EventFeed -----------------------------
(***************************************************************************)
(* What GENA eventing promises a control point: the events of the          *)
(* subscription it holds are taken one by one in the order in which they   *)
(* are sent, and the device counts an event as delivered only after the    *)
(* control point has taken it.  A device may go on sending to a            *)
(* subscription nobody holds any more.                                     *)
(***************************************************************************)
EXTENDS Naturals

CONSTANT Sids  \* subscriptions; 0 is none of them

VARIABLES
  holder,   \* the subscription the control point holds, 0 if none
  acked,    \* events of each subscription the device counts as delivered
  taken     \* events of each subscription the control point has taken

vars == <<holder, acked, taken>>

Init ==
  /\ holder = 0
  /\ acked = [s \in Sids |-> 0]
  /\ taken = [s \in Sids |-> 0]

\* Nothing has been sent to a subscription before the control point holds it.
Subscribe(s) ==
  /\ holder = 0 /\ acked[s] = 0 /\ taken[s] = 0
  /\ holder' = s
  /\ UNCHANGED <<acked, taken>>

Leave ==
  /\ holder # 0
  /\ holder' = 0
  /\ UNCHANGED <<acked, taken>>

Take ==
  /\ holder # 0 /\ taken[holder] = acked[holder]
  /\ taken' = [taken EXCEPT ![holder] = @ + 1]
  /\ UNCHANGED <<holder, acked>>

Acknowledge ==
  /\ holder # 0 /\ taken[holder] = acked[holder] + 1
  /\ acked' = [acked EXCEPT ![holder] = @ + 1]
  /\ UNCHANGED <<holder, taken>>

\* How the device counts events of a subscription nobody holds is its own affair.
Miscount(s) ==
  /\ s # holder
  /\ acked' = [acked EXCEPT ![s] = acked'[s]]
  /\ UNCHANGED <<holder, taken>>

Next == Leave \/ Take \/ Acknowledge \/ \E s \in Sids : Subscribe(s) \/ Miscount(s)

Spec == Init /\ [][Next]_vars
=============================================================================
