----------------------------- MODULE HomeToken -----------------------------
(***************************************************************************)
(* The two assets on the home chain, whatever it runs on: a launched asset *)
(* is burned to leave it, an asset that existed before is locked behind an *)
(* adapter.  World stands for the pool and everybody who does not trade.   *)
(***************************************************************************)
EXTENDS Wire

CONSTANTS
  HomeQuantum,     \* local units of one shared unit on the home chain
  HomeFloat,       \* what the pool and the owner hold there, local units
  Adapted          \* the assets that existed before, behind an adapter

ASSUME HomeAssumption ==
  /\ HomeQuantum \in [Tokens -> Nat \ {0}]
  /\ HomeFloat \in [Tokens -> Nat]
  /\ Adapted \subseteq Tokens

VARIABLE homeToken \* [Tokens -> Token]

(* What the mirrors hold left the home chain before the model starts.      *)
AbroadAtStart(t) ==
  Cardinality(Mirrors) * Cardinality(Users) * MirrorFloat[t] * HomeQuantum[t]

HomeTokenAtStart ==
  [t \in Tokens |->
     [bal |-> [a \in Accounts |->
                 CASE a = World -> HomeFloat[t]
                   [] a = Vault /\ t \in Adapted -> AbroadAtStart(t)
                   [] OTHER -> 0],
      out |-> IF t \in Adapted THEN 0 ELSE AbroadAtStart(t),
      in  |-> 0]]

(* Mutant: an adapter that burns.                                          *)
HomeDebitBurns(k, t, a, x) == Burn(k, a, x)

(* The OFT handle of an asset on the home chain: the token or its adapter. *)
HomeDebit(k, t, a, x) == IF t \in Adapted THEN Lock(k, a, x) ELSE Burn(k, a, x)

HomeCredit(k, t, a, x) == IF t \in Adapted THEN Unlock(k, a, x) ELSE Mint(k, a, x)

=============================================================================
