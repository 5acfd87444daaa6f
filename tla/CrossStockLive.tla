--------------------------- MODULE CrossStockLive ---------------------------
(***************************************************************************)
(* What must eventually happen.  LayerZero's executor and DVNs (relayer.ts *)
(* on a local network) deliver what is sent; retryReturn is open to        *)
(* anybody and somebody calls it at a quote the attached native pays for;  *)
(* the operator's calls are fair only where packets may be lost.  Users, owners,     *)
(* the pool and the quotes owe nothing.                                    *)
(***************************************************************************)
EXTENDS CrossStock

BesideOrders == <<mirrorToken, outNonce, returns, backNonce, composing, notices,
                  noticeNonce, relayVars, requestVars>>

Attesting == \E p \in orders : Verify(p) /\ UNCHANGED BesideOrders

Receiving == \E p \in orders : ReceiveOrder(p) /\ UNCHANGED BesideOrders

Executing == \E p \in queue : ExecuteOrder(p) /\ UNCHANGED requestVars

Returning ==
  \E p \in returns : ReceiveReturn(p) /\ UNCHANGED <<requestVars, homeVars>>

Closing == Settling /\ UNCHANGED homeVars

Retrying ==
  \E m \in Mirrors, id \in Ids, v \in FundAmounts \cup {0} :
    RetrySent(m, id, v) /\ UNCHANGED requestVars

Funding == \E v \in FundAmounts : FundNative(v) /\ UNCHANGED requestVars

Cancelling ==
  \E p \in orders : CancelStuckInbound(p, FALSE) /\ UNCHANGED requestVars

(* What is attested is delivered, and what is delivered is handed on.      *)
Delivery ==
  /\ WF_vars(Receiving)
  /\ WF_vars(Executing)
  /\ WF_vars(Returning)
  /\ WF_vars(Closing)
  /\ WF_vars(Retrying)

(* Every packet is attested sooner or later.                               *)
DeliveredSpec == Spec /\ WF_vars(Attesting) /\ Delivery

(* A packet may never be attested, but then the operator keeps the relay   *)
(* funded and cancels what can be cancelled.                               *)
Attended == WF_vars(Attesting) \/ (WF_vars(Funding) /\ SF_vars(Cancelling))

ClosingSpec == Spec /\ Delivery /\ Attended

(***************************************************************************)
(* Every order is closed: no request stays PENDING for ever, through any   *)
(* interleaving of deliveries, strands and retries, with a relay that runs *)
(* dry; and, where the operator acts, through messages that are lost.      *)
(***************************************************************************)
EveryOrderCloses ==
  \A m \in Mirrors, id \in Ids :
    requests[m][id].status = "PENDING" ~> requests[m][id].status # "PENDING"

(***************************************************************************)
(* README: fees wait in escrow, and are returned if the order is refunded, *)
(* cancelled or stranded.  An escrow is therefore always released.         *)
(***************************************************************************)
FeesReleased ==
  \A m \in Mirrors, id \in Ids :
    fees[m][id].state = "ESCROWED" ~> fees[m][id].state # "ESCROWED"

=============================================================================
