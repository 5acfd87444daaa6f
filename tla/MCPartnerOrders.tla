-------------------------- MODULE MCPartnerOrders --------------------------
(***************************************************************************)
(* A small instance: an EVM and a Solana mirror whose local units are a    *)
(* quarter of a shared unit and one, a home of halves; an order without a  *)
(* partner, and one through a partner on each machine.                     *)
(***************************************************************************)
EXTENDS PartnerOrders

CONSTANTS e, s, first, second

AnOrder(m, side, gross, via, keeps) ==
  [m |-> m, user |-> "alice", side |-> side, gross |-> gross, via |-> via,
   bps |-> IF via THEN 5 ELSE 0, keepsFee |-> keeps]

PlainBuy == AnOrder(e, "buy", 90, FALSE, TRUE)
SignedSell == AnOrder(e, "sell", 90, TRUE, FALSE)
CosignedBuy == AnOrder(s, "buy", 23, TRUE, FALSE)

(* A user with two orders at once, on one mirror or on two. *)
TwoOrders ==
  {[j \in {first, second} |-> IF j = first THEN x ELSE CosignedBuy] : x \in {PlainBuy, SignedSell}}
    \cup {[j \in {first, second} |-> SignedSell]}

Quanta == [m \in {e, s} |-> [t \in Tokens |-> IF m = e THEN 4 ELSE 1]]
HomeQuanta == [t \in Tokens |-> 2]

Open == [required |-> FALSE, platform |-> 10, signer |-> "old", max |-> 5, active |-> TRUE]
AtFirst == [m \in {e, s} |-> Open]
Later ==
  [m \in {e, s} |->
    {Open, [Open EXCEPT !.signer = "new"],
     [Open EXCEPT !.required = TRUE, !.platform = 20],
     [Open EXCEPT !.active = FALSE]}]

Deep == [t \in Tokens |-> 1000]
Shallow == [t \in Tokens |-> IF t = "base" THEN 700 ELSE 1400]

ThinMarket == {Shallow}

=============================================================================
