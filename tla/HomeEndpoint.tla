---------------------------- MODULE HomeEndpoint ----------------------------
(***************************************************************************)
(* The home chain below the relay: the home OFTs, and the receiving side   *)
(* of its LayerZero endpoint on every path (m, t).  The endpoint is not in *)
(* the repository; it is modelled from what SwapRelay, LocalMessageLib and *)
(* relayer.ts ask of it.  lazy is the lazy inbound nonce, and verified the *)
(* nonces whose payload hash is stored.                                    *)
(***************************************************************************)
EXTENDS HomeToken

VARIABLES
  lazy,            \* [Mirrors -> [Tokens -> Nat]]
  verified,        \* [Mirrors -> [Tokens -> SUBSET Nat]]
  queue            \* order packets credited to the relay, awaiting lzCompose

endpointVars == <<lazy, verified, queue, homeToken>>

EndpointInit ==
  /\ lazy = [m \in Mirrors |-> [t \in Tokens |-> 0]]
  /\ verified = [m \in Mirrors |-> [t \in Tokens |-> {}]]
  /\ queue = {}
  /\ homeToken = HomeTokenAtStart

-----------------------------------------------------------------------------
(* A nonce above the lazy one may be verified, whatever came before it.    *)
Verifiable(m, t, n) == n > lazy[m][t] /\ n \notin verified[m][t]

(* A verified nonce executes once every nonce between is verified.         *)
Executable(m, t, n) ==
  /\ n \in verified[m][t]
  /\ (lazy[m][t] + 1)..n \subseteq verified[m][t]

(* Mutant: any nonce above the lazy one may be skipped, verified or not.   *)
SkippableVerified(m, t, n) == n > lazy[m][t]

(* skip asks for the nonce after the last of the unbroken verified ones.   *)
Skippable(m, t, n) ==
  /\ Verifiable(m, t, n)
  /\ (lazy[m][t] + 1)..(n - 1) \subseteq verified[m][t]

(* burn asks for a stored payload hash at or below the lazy nonce then.    *)
Burnable(m, t, n, lazyThen) == n \in verified[m][t] /\ n <= lazyThen

(* No nonce in this condition is executed or verified ever again.          *)
Dead(m, t, n) == n <= lazy[m][t] /\ n \notin verified[m][t]

(* The DVNs attest a packet (validatePacket on a local network).           *)
Verify(p) ==
  /\ p \in orders
  /\ Verifiable(p.m, p.t, p.nonce)
  /\ verified' = [verified EXCEPT ![p.m][p.t] = @ \cup {p.nonce}]
  /\ UNCHANGED <<orders, lazy, queue, homeToken>>

(***************************************************************************)
(* endpoint.lzReceive into the home OFT: the payload is cleared, the       *)
(* tokens are credited and, for an order, the compose is queued, in one    *)
(* transaction.                                                            *)
(***************************************************************************)
ReceiveOrder(p) ==
  LET amount   == ToLocal(p.sd, HomeQuantum[p.t])
      receiver == IF p.id = 0 THEN p.user ELSE Contract
  IN
  /\ p \in orders
  /\ Executable(p.m, p.t, p.nonce)
  /\ p.t \in Adapted => CanPay(homeToken[p.t], Vault, amount)
  /\ orders' = orders \ {p}
  /\ verified' = [verified EXCEPT ![p.m][p.t] = @ \ {p.nonce}]
  /\ lazy' = [lazy EXCEPT ![p.m][p.t] = IF p.nonce > @ THEN p.nonce ELSE @]
  /\ homeToken' = [homeToken EXCEPT ![p.t] = HomeCredit(@, p.t, receiver, amount)]
  /\ queue' = IF p.id = 0 THEN queue ELSE queue \cup {p}

EndpointTypeOK ==
  /\ lazy \in [Mirrors -> [Tokens -> Nat]]
  /\ verified \in [Mirrors -> [Tokens -> SUBSET Nat]]
  /\ queue \subseteq {p \in OrderPacket : p.id # 0}
  /\ homeToken \in [Tokens -> Token]

=============================================================================
