------------------------------- MODULE Transit -------------------------------
(***************************************************************************)
(* What is on its way between the chains, whatever the home chain runs on, *)
(* and what the mirrors have counted: conservation, in the shared decimals *)
(* every chain agrees on.                                                  *)
(***************************************************************************)
EXTENDS SwapRequest, Functions

SharedOf(packets, t) == SumFunction([p \in packets |-> IF p.t = t THEN p.sd ELSE 0])

(* A cancelled order's packet has had its amount restored on the mirror.   *)
Restored(p) == p.id # 0 /\ requests[p.m][p.id].status = "CANCELLED"

(* The orders whose value is on the wire.                                  *)
Flying == {p \in orders : ~Restored(p)}

InFlight(t) == SharedOf(Flying, t) + SharedOf(returns, t)

(* What the mirrors hold; OutShared and InShared: what their tokens counted. *)
AbroadShared(t) ==
  SumFunction([m \in Mirrors |-> ToShared(SumFunction(mirrorToken[m][t].bal), MirrorQuantum[m][t])])

OutShared(t) ==
  SumFunction([m \in Mirrors |-> ToShared(mirrorToken[m][t].out, MirrorQuantum[m][t])])

InShared(t) ==
  SumFunction([m \in Mirrors |-> ToShared(mirrorToken[m][t].in, MirrorQuantum[m][t])])

=============================================================================
