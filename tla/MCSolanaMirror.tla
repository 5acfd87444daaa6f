--------------------------- MODULE MCSolanaMirror ---------------------------
(***************************************************************************)
(* A small instance of SolanaMirror: one user, one partner whose terms     *)
(* change, a buy and a sell that take the same nonce on their own paths.   *)
(***************************************************************************)
EXTENDS SolanaMirror

CONSTANTS s1, u1, partner, platform, key

Mirror1 == {s1}

Quantum == [m \in Mirrors |-> [base |-> 3, quote |-> 2]]
Float == [base |-> 1, quote |-> 6]

(* With FeeUnit = 7 a basis point of the buy is one unit; its net leaves   *)
(* dust.  The sell's fees round down to nothing.                           *)
Buy == [user |-> u1, dir |-> "BUY", gross |-> 7, min |-> 4]
Sell == [user |-> u1, dir |-> "SELL", gross |-> 3, min |-> 0]

SellOnly == {Sell}

Terms == [signer |-> key, recipient |-> partner, maxFee |-> 2, active |-> TRUE]
Moved == {Terms, [Terms EXCEPT !.recipient = platform]}

Signed ==
  {[trade |-> Buy, partner |-> 1, signer |-> key, feeBps |-> 2, tx |-> 1]}

PlatformPaid == {[bps |-> 1, recipient |-> platform]}

=============================================================================
