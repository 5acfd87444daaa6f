--------------------------- MODULE MCHomePromise ---------------------------
(***************************************************************************)
(* A small instance of SwapRequest facing the home chain's promise: one    *)
(* mirror, one partner, fees of both kinds, an owner who changes the terms.*)
(***************************************************************************)
EXTENDS HomePromise

CONSTANTS m1, u1, partner, platform, key, newKey

Mirror1 == {m1}

Quantum == [m \in Mirrors |-> [base |-> 3, quote |-> 2]]
Float == [base |-> 0, quote |-> 7]

(* With FeeUnit = 7 a basis point of the gross is one unit; without the    *)
(* platform's fee the net is no whole number of quanta, and leaves dust.   *)
Buy == [user |-> u1, dir |-> "BUY", gross |-> 7, min |-> 4]
Buys == {Buy}

Terms == [signer |-> key, recipient |-> partner, maxFee |-> 2, active |-> TRUE]
Registered == [i \in {1} |-> Terms]
Rotated == {[Terms EXCEPT !.signer = newKey, !.recipient = platform]}

Signed ==
  {[m |-> m1, trade |-> Buy, partner |-> 1, signer |-> k, feeBps |-> 2, nonce |-> 1] :
     k \in {key, newKey}}

PlatformPaid == [bps |-> 1, recipient |-> platform]
PlatformFree == {[bps |-> 0, recipient |-> platform]}
FirstNonce == {<<1, 1>>}

=============================================================================
