---------------------------- MODULE MCCrossStock ----------------------------
(***************************************************************************)
(* Small instances of CrossStock for TLC.                                  *)
(***************************************************************************)
EXTENDS CrossStock

CONSTANTS m1, u1, partner, platform

Mirror1 == {m1}

(* The chains differ in decimals: on the home chain a shared unit is two   *)
(* base units and three quote units; a mirror has its own.                 *)
QuantumHome == [base |-> 2, quote |-> 3]
QuantumMirror == [m \in Mirrors |-> [base |-> 3, quote |-> 2]]

Float == [base |-> 2, quote |-> 3]
Pool == [base |-> 20, quote |-> 20]

(* A buy whose input leaves dust and whose floor is no whole unit, and a   *)
(* sell.                                                                   *)
Buy == [user |-> u1, dir |-> "BUY", gross |-> 5, min |-> 4]
Sell == [user |-> u1, dir |-> "SELL", gross |-> 3, min |-> 0]

BuyAndSell == {Buy, Sell}
BaseAdapted == {"base"}

(* Terms for a deployment without partners.                                *)
NoTerms == [i \in {} |-> <<>>]
FreePlatform == [bps |-> 0, recipient |-> platform]
PaidPlatform == [bps |-> 1, recipient |-> platform]

=============================================================================
