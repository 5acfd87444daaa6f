----------------------------- MODULE CrossStock -----------------------------
(***************************************************************************)
(* The system: a SwapRequest on every mirror chain, the SwapRelay on the   *)
(* home chain, the OFTs and LayerZero between them.  Every step is a       *)
(* transaction on one chain, and the chains' transactions interleave.      *)
(***************************************************************************)
EXTENDS Transit, SwapRelay

vars == <<mirrorVars, homeVars>>

Init == MirrorInit /\ HomeInit

MirrorStep == MirrorNext /\ UNCHANGED homeVars

HomeStep == HomeNext /\ UNCHANGED requestVars

Next == MirrorStep \/ HomeStep

Spec == Init /\ [][Next]_vars

TypeOK == MirrorTypeOK /\ HomeTypeOK

-----------------------------------------------------------------------------
(* Where an order's value is.                                              *)

Holds(packets, m, id) == {p \in packets : p.m = m /\ p.id = id}

(* Packets that may still be executed on the home chain.                   *)
Alive == {p \in orders : ~Dead(p.m, p.t, p.nonce)}

(* The places that hold value of request id of mirror m, on its way.       *)
Places(m, id) ==
  {pl \in {"alive", "queue", "stranded", "returns", "composing"} :
     CASE pl = "alive"     -> Holds(Alive, m, id) # {}
       [] pl = "queue"     -> Holds(queue, m, id) # {}
       [] pl = "stranded"  -> stranded[m][id].amount > 0
       [] pl = "returns"   -> Holds(returns, m, id) # {}
       [] pl = "composing" -> Holds(composing, m, id) # {}}

(***************************************************************************)
(* An order's value is never in two places, nor twice in one: no handler   *)
(* answers an order again (a compose run twice, a retry of a strand that   *)
(* was claimed), and once a request is filled, refunded or cancelled       *)
(* nothing more is on its way for it.                                      *)
(***************************************************************************)
ValueInOnePlace ==
  \A m \in Mirrors, id \in Ids :
    /\ Cardinality(Places(m, id)) <= 1
    /\ \A packets \in {orders, queue, returns, composing} :
         Cardinality(Holds(packets, m, id)) <= 1
    /\ requests[m][id].status \in {"FILLED", "REFUNDED", "CANCELLED"}
         => Places(m, id) = {}

(***************************************************************************)
(* Kill, then notify (cancelStuckInbound): when a cancellation is under    *)
(* way or applied, the message it is about is still unexecuted and can     *)
(* never be executed, so restoring the input does not pay it twice.        *)
(***************************************************************************)
CancelledNeverExecutes ==
  /\ \A n \in notices : n.status = "CANCELLED" =>
       /\ Dead(n.m, n.t, n.lzNonce)
       /\ \E p \in orders : p.m = n.m /\ p.t = n.t /\ p.nonce = n.lzNonce
  /\ \A m \in Mirrors, id \in Ids : requests[m][id].status = "CANCELLED" =>
       \E p \in Holds(orders, m, id) :
         /\ p.t = TokenIn(requests[m][id].dir)
         /\ p.nonce = requests[m][id].lzNonce
         /\ Dead(m, p.t, p.nonce)

(***************************************************************************)
(* A path and a nonce name one order: requestIdByNonce, which a            *)
(* cancellation is resolved by, never points at another request than the   *)
(* one the message in flight carries, and at none for a plain transfer.    *)
(***************************************************************************)
NonceNamesOrder ==
  \A p \in orders : \A i \in RequestsByNonce(p.m, p.t, p.nonce) : p.id = i

(***************************************************************************)
(* The user's floor survives two changes of decimals, the bridge's         *)
(* rounding and the dust the relay keeps: a filled request delivered at    *)
(* least minAmountOut, and never nothing.                                  *)
(***************************************************************************)
FloorHonoured ==
  \A m \in Mirrors, id \in Ids : requests[m][id].status = "FILLED" =>
    /\ requests[m][id].amountOut >= requests[m][id].minAmountOut
    /\ requests[m][id].amountOut > 0

(***************************************************************************)
(* What the relay holds as stranded can always cross later: a whole unit   *)
(* was bridged in, the venue's floor is at least one unit of the proceeds, *)
(* and strands that add up are of whole units.  No user is left with dust  *)
(* that only claimStranded could pay out.                                  *)
(***************************************************************************)
StrandsCanCross ==
  \A m \in Mirrors, id \in Ids :
    stranded[m][id].amount > 0 =>
      stranded[m][id].amount >= HomeQuantum[stranded[m][id].token]

-----------------------------------------------------------------------------
(* Conservation, in the shared decimals every chain agrees on.             *)

NetFlow(t) ==
  ToShared(homeToken[t].out, HomeQuantum[t]) - ToShared(homeToken[t].in, HomeQuantum[t])
  + OutShared(t) - InShared(t)

(***************************************************************************)
(* OmniToken's counters: what was counted out and not in is exactly what   *)
(* is in flight, for an asset every chain burns and mints; for an adapted  *)
(* one the lockbox holds what is abroad and in flight.                     *)
(***************************************************************************)
FlowIsInFlight ==
  \A t \in Tokens :
    IF t \in Adapted
    THEN homeToken[t].bal[Vault]
           = ToLocal(AbroadShared(t) + InFlight(t), HomeQuantum[t])
    ELSE NetFlow(t) = InFlight(t)

QueuedInputs(t) == SumFunction([p \in queue |-> IF p.t = t THEN InputOf(p) ELSE 0])

StrandedAmounts(t) ==
  SumFunction([k \in Mirrors \X Ids |->
    IF stranded[k[1]][k[2]].token = t THEN stranded[k[1]][k[2]].amount ELSE 0])

(***************************************************************************)
(* What the relay holds of an asset is the dust it recorded, the strands   *)
(* it owes in that asset and the orders it has not run: neither a strand   *)
(* recorded in the wrong asset nor a dust sweep can reach users' tokens.   *)
(***************************************************************************)
RelayHoldsItsDebts ==
  \A t \in Tokens :
    homeToken[t].bal[Contract]
      = dustAccrued[t] + QueuedInputs(t) + StrandedAmounts(t)

=============================================================================
