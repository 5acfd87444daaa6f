---------------------------- MODULE MCRelayAdmin ----------------------------
(***************************************************************************)
(* Small instances of RelayAdmin: one EVM mirror, orders both ways, and    *)
(* decimals that leave dust at home.                                       *)
(***************************************************************************)
EXTENDS RelayAdmin

CONSTANTS m1, u1, platform

Mirror1 == {m1}
QuantumHome == [base |-> 2, quote |-> 3]
QuantumMirror == [m \in Mirrors |-> [base |-> 3, quote |-> 2]]
Float == [base |-> 2, quote |-> 3]
Pool == [base |-> 20, quote |-> 20]

Buy == [user |-> u1, dir |-> "BUY", gross |-> 5, min |-> 4]
Sell == [user |-> u1, dir |-> "SELL", gross |-> 3, min |-> 0]
BuyAndSell == {Buy, Sell}
BaseAdapted == {"base"}

NoTerms == [i \in {} |-> <<>>]
FreePlatform == [bps |-> 0, recipient |-> platform]

=============================================================================
