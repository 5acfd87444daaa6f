----------------------------- MODULE SwapTypes -----------------------------
(***************************************************************************)
(* What the two contracts put on the wire, and the sets their state ranges *)
(* over: SwapTypes.sol.  An order crosses as the composeMsg of an OFT send,*)
(* so the packet carries tokens and instruction together; a settlement     *)
(* comes back the same way; a notice (STRANDED, CANCELLED) carries no      *)
(* tokens.  Amounts on the wire are in shared decimals.                    *)
(***************************************************************************)
EXTENDS Integers, FiniteSets

CONSTANTS
  Mirrors,        \* the mirror chains; one SwapRequest each
  Users,          \* people who trade
  Recipients,     \* accounts that partner and platform fees are due to
  NoUser,         \* address(0)
  MaxRequests     \* bound: requests one mirror accepts

ASSUME MaxRequestsAssumption == MaxRequests \in Nat

ASSUME AccountsAssumption == NoUser \notin Users

Tokens == {"base", "quote"}

(* The request ids of a mirror, 1..MaxRequests; 0 names no request.        *)
Ids == 1..MaxRequests

Direction == {"BUY", "SELL"}

TokenIn(d) == IF d = "BUY" THEN "quote" ELSE "base"

TokenOut(d) == IF d = "BUY" THEN "base" ELSE "quote"

(* What an order travelling on OFT t asks for.                             *)
OtherToken(t) == IF t = "quote" THEN "base" ELSE "quote"

Status == {"NONE", "PENDING", "FILLED", "REFUNDED", "STRANDED", "CANCELLED"}

(* A request in one of these states will not change its status again.      *)
Terminal == {"FILLED", "REFUNDED", "STRANDED", "CANCELLED"}

(***************************************************************************)
(* mirror -> home.  t is the OFT the packet travels on: the direction is   *)
(* read off it, never off the payload.  nonce is the LayerZero nonce of    *)
(* the path (m, t).  id = 0 is a plain OFT transfer, without an order.     *)
(* min is the floor and sd the amount, both in shared decimals.            *)
(***************************************************************************)
OrderPacket ==
  [m : Mirrors, t : Tokens, nonce : Nat, id : Ids \cup {0},
   user : Users, sd : Nat, min : Nat]

(* home -> mirror, with the tokens: nonce is the one of the return path.   *)
ReturnPacket ==
  [m : Mirrors, t : Tokens, nonce : Nat, id : Ids, sd : Nat,
   status : {"FILLED", "REFUNDED"}]

(***************************************************************************)
(* home -> mirror, without tokens.  STRANDED names the request; CANCELLED  *)
(* names the killed message by its path t and its nonce there (lzNonce).   *)
(***************************************************************************)
Notice ==
  [m : Mirrors, nonce : Nat, status : {"STRANDED", "CANCELLED"},
   id : Ids \cup {0}, t : Tokens, lzNonce : Nat]

=============================================================================
