--------------------------- MODULE MCControlPoint ---------------------------
(* Small instances of ControlPoint for TLC. *)
EXTENDS ControlPoint, TLC

CONSTANT Keeper  \* a device that keeps announcing itself

\* For the runs of invariants, which name neither a device nor a thread.
Symmetry == Permutations(Udns) \cup Permutations(Expirers)

\* The announcements of Keeper keep coming and keep refreshing it.
KeeperSpec ==
  /\ FairSpec
  /\ \A t \in Receivers :
       /\ SF_vars(~fault /\ AliveArrives(t, Keeper))
       /\ SF_vars(~fault /\ pkt[t].udn = Keeper /\ UpdateOk(t))

Overdue(d) == d \in Named /\ exp[d] # 0 /\ exp[d] <= now

\* A device whose lease is over, if it still has its UDN, leaves the cache or is
\* refreshed, as long as a cached device keeps announcing itself and so keeps
\* waking the expiration thread (whose own timed waits can miss it).
ExpiredRemoved ==
  \A d \in Devs :
    (runnable /\ Overdue(d)) ~> (~Overdue(d) \/ ~Cached(Keeper) \/ ~serving \/ fault)

Lapsing(d) == d \in devs /\ sub[d] # 0 /\ sub[d] <= now

\* A subscription whose renewal is due is renewed or given up while the control
\* point runs, again as long as a cached device keeps announcing itself.
SubscriptionRenewed ==
  \A d \in Devs :
    (runnable /\ Lapsing(d)) ~> (~Lapsing(d) \/ ~Cached(Keeper) \/ ~serving \/ fault)
=============================================================================
