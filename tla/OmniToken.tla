----------------------------- MODULE OmniToken -----------------------------
(***************************************************************************)
(* One omnichain asset on one chain: the balances of an ERC-20 and, for a  *)
(* native OmniToken, the two flow counters of OmniToken.sol.  An asset that*)
(* already existed is locked in an OmniTokenAdapter (the Vault account)    *)
(* instead of burned.  Each operator returns the asset after the call; the *)
(* caller's guard is CanPay, since an ERC-20 reverts on a short balance.   *)
(***************************************************************************)
EXTENDS SwapTypes

(* The SwapRequest or SwapRelay of the chain; everybody else's holdings    *)
(* (the pool, the owner, holders who do not trade); the adapter's lockbox. *)
Contract == "contract"
World == "world"
Vault == "vault"

Accounts == Users \cup Recipients \cup {Contract, World, Vault}

(* Contracts do not trade, and World stands for those who do not.          *)
ASSUME NamesAssumption == {Contract, World, Vault} \cap Users = {}

Token == [bal : [Accounts -> Nat], out : Nat, in : Nat]

CanPay(k, a, x) == k.bal[a] >= x

Transfer(k, a, b, x) ==
  LET less == [k.bal EXCEPT ![a] = @ - x]
  IN  [k EXCEPT !.bal = [less EXCEPT ![b] = less[b] + x]]

(* OmniToken._debit: burn to leave this chain.                             *)
Burn(k, a, x) ==
  LET less == [k.bal EXCEPT ![a] = @ - x]
  IN  [k EXCEPT !.bal = less, !.out = @ + x]

(* OmniToken._credit: mint what arrived.                                   *)
Mint(k, a, x) ==
  LET more == [k.bal EXCEPT ![a] = @ + x]
  IN  [k EXCEPT !.bal = more, !.in = @ + x]

(* Mutant: a restored amount is minted as new supply.                      *)
RestoredAsSupply(k, a, x) ==
  LET more == [k.bal EXCEPT ![a] = @ + x]
  IN  [k EXCEPT !.bal = more]

(* OmniToken.recoveryCredit: an arrival, not new supply.                   *)
RecoveryCredit(k, a, x) == Mint(k, a, x)

(* OmniTokenAdapter: lock to leave this chain, unlock what came back.      *)
Lock(k, a, x) == Transfer(k, a, Vault, x)

Unlock(k, a, x) == Transfer(k, Vault, a, x)

=============================================================================
