------------------------------ MODULE SwapMath ------------------------------
(***************************************************************************)
(* The arithmetic at the edges of the wire.  A chain keeps an asset in     *)
(* local decimals; the bridge carries whole multiples of its quantum q,    *)
(* counted in shared decimals.                                             *)
(***************************************************************************)
EXTENDS Integers

(* Shared decimals of a local amount, rounded down (what the OFT sends).   *)
ToShared(x, q) == x \div q

(* What a shared amount is worth in local decimals.                        *)
ToLocal(s, q) == s * q

(* The part of a local amount the OFT can carry.                           *)
RemoveDust(x, q) == ToLocal(ToShared(x, q), q)

(* Mutant: the floor rounds down like an amount.                           *)
FloorRoundedDown(x, q) == x \div q

(* A floor crosses rounded up: rounding down would accept one quantum less *)
(* than the user asked for.                                                *)
FloorToShared(x, q) == (x \div q) + (IF x % q = 0 THEN 0 ELSE 1)

(* Mutant: the floor is not raised to one bridgeable unit.                 *)
FloorUnraised(min, q, maxUint) ==
  IF min > maxUint \div q THEN maxUint ELSE ToLocal(min, q)

(* The floor the venue is given: the order's, saturated at the largest     *)
(* uint256, and never below one bridgeable unit.                           *)
VenueFloor(min, q, maxUint) ==
  LET local == IF min > maxUint \div q THEN maxUint ELSE ToLocal(min, q)
  IN  IF local < q THEN q ELSE local

(* A fee of bps parts in unit (10 000 in the code), rounded down.          *)
FeeOf(gross, bps, unit) == (gross * bps) \div unit

=============================================================================
