----------------------------- MODULE RemoteCall -----------------------------
(***************************************************************************)
(* What a caller may rely on when it posts a request to a peer: the peer   *)
(* executes it at most Max times, possibly after the caller has given up,  *)
(* and a caller that is told of a success knows that it was executed       *)
(* before.  A failure says nothing.                                        *)
(***************************************************************************)
EXTENDS Naturals

CONSTANT Max  \* executions one call may cause

VARIABLES
  executed,  \* how often the peer has executed the request
  result     \* what the caller knows: "none" (not returned), "ok" or "failed"

Init == executed = 0 /\ result = "none"

Execute ==
  /\ executed < Max
  /\ executed' = executed + 1
  /\ UNCHANGED result

Succeed ==
  /\ result = "none" /\ executed > 0
  /\ result' = "ok"
  /\ UNCHANGED executed

Fail ==
  /\ result = "none"
  /\ result' = "failed"
  /\ UNCHANGED executed

Next == Execute \/ Succeed \/ Fail

Spec == Init /\ [][Next]_<<executed, result>>

=============================================================================
