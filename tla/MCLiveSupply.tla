---------------------------- MODULE MCLiveSupply ----------------------------
(***************************************************************************)
(* An EVM mirror of a Solana home, measured while tokens move.             *)
(***************************************************************************)
EXTENDS LiveSupply

CONSTANTS m1, u1, platform

OneMirror == {m1}
OnlyM1 == <<m1>>
QuantumHome == [base |-> 2, quote |-> 3]
QuantumMirror == [m \in Mirrors |-> [base |-> 6, quote |-> 6]]
FinestOfAll == [base |-> 6, quote |-> 6]
Float == [base |-> 2, quote |-> 0]
Pool == [base |-> 20, quote |-> 20]
SellOnly == {[user |-> u1, dir |-> "SELL", gross |-> 7, min |-> 0]}
BaseAdapted == {"base"}
NoTerms == [i \in {} |-> <<>>]
FreePlatform == [bps |-> 0, recipient |-> platform]

=============================================================================
