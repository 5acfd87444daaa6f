--------------------------- MODULE SolanaEndpoint ---------------------------
(***************************************************************************)
(* A Solana home chain below its relay: the OFTs, and the receiving side   *)
(* of LayerZero's endpoint program on every path (m, t).  The program is   *)
(* not in the repository; it is modelled from what swap_relay says of it,  *)
(* and what relay.ts and relay-admin.ts ask of it.  Unlike the EVM one it  *)
(* advances the inbound nonce when a message is verified, over every       *)
(* unbroken verified one, and keeps a payload hash in an account that      *)
(* init_verify must have created.                                          *)
(***************************************************************************)
EXTENDS HomeToken

VARIABLES
  inbound,         \* [Mirrors -> [Tokens -> Nat]]
  initialised,     \* payload-hash accounts created and still empty
  verified,        \* nonces whose payload hash is stored
  queue            \* composes the OFTs have queued for the relay

nonceVars == <<inbound, initialised, verified>>
endpointVars == <<nonceVars, queue, homeToken>>

(* The vendored OFT counts what leaves and what arrives, an adapter's too. *)
OftDebit(k, t, a, x) == [HomeDebit(k, t, a, x) EXCEPT !.out = k.out + x]
OftCredit(k, t, a, x) == [HomeCredit(k, t, a, x) EXCEPT !.in = k.in + x]

SolanaEndpointInit ==
  /\ inbound = [m \in Mirrors |-> [t \in Tokens |-> 0]]
  /\ initialised = [m \in Mirrors |-> [t \in Tokens |-> {}]]
  /\ verified = [m \in Mirrors |-> [t \in Tokens |-> {}]]
  /\ queue = {}
  /\ homeToken = [t \in Tokens |-> [HomeTokenAtStart[t] EXCEPT !.out = AbroadAtStart(t)]]

(* Nonces above from that need no more verification before a later one.    *)
Unbroken(from, done) ==
  {n \in (from + 1)..MaxNonce : (from + 1)..n \subseteq done}

(* The inbound nonce, once those are passed over.                          *)
Advanced(from, done) == from + Cardinality(Unbroken(from, done))

(* isVerifiable: whether init_verify would still be accepted for a nonce.  *)
IsVerifiable(m, t, n) ==
  n > inbound[m][t] /\ n \notin initialised[m][t] \cup verified[m][t]

(* Nothing can execute or verify such a nonce ever again.                  *)
Dead(m, t, n) == n <= inbound[m][t] /\ n \notin verified[m][t]

(* init_verify, open to anybody: the account of a message to come.         *)
InitVerify(m, t, n) ==
  /\ IsVerifiable(m, t, n)
  /\ initialised' = [initialised EXCEPT ![m][t] = @ \cup {n}]
  /\ UNCHANGED <<inbound, verified, queue, homeToken>>

(* verify: the DVNs (relay.ts on a local network) fill the account.        *)
Verify(p) ==
  LET done == verified[p.m][p.t] \cup {p.nonce} IN
  /\ p \in orders
  /\ p.nonce \in initialised[p.m][p.t]
  /\ initialised' = [initialised EXCEPT ![p.m][p.t] = @ \ {p.nonce}]
  /\ verified' = [verified EXCEPT ![p.m][p.t] = done]
  /\ inbound' = [inbound EXCEPT ![p.m][p.t] = Advanced(@, done)]
  /\ UNCHANGED <<queue, homeToken>>

(***************************************************************************)
(* lz_receive of the home OFT: it clears the message, credits the tokens   *)
(* and, for an order, queues the compose, in one transaction.              *)
(***************************************************************************)
ReceiveOrder(p) ==
  LET amount   == ToLocal(p.sd, HomeQuantum[p.t])
      receiver == IF p.id = 0 THEN p.user ELSE Contract
  IN
  /\ p \in orders
  /\ p.nonce \in verified[p.m][p.t] /\ p.nonce <= inbound[p.m][p.t]
  /\ p.t \in Adapted => CanPay(homeToken[p.t], Vault, amount)
  /\ orders' = orders \ {p}
  /\ verified' = [verified EXCEPT ![p.m][p.t] = @ \ {p.nonce}]
  /\ homeToken' = [homeToken EXCEPT ![p.t] = OftCredit(@, p.t, receiver, amount)]
  /\ queue' = IF p.id = 0 THEN queue ELSE queue \cup {p}
  /\ UNCHANGED <<inbound, initialised>>

(* Mutant: a skip that leaves the inbound nonce where it was.              *)
SkipInPlace(m, t, n) ==
  /\ n = inbound[m][t] + 1
  /\ n \in initialised[m][t]
  /\ initialised' = [initialised EXCEPT ![m][t] = @ \ {n}]
  /\ UNCHANGED <<inbound, verified>>

(* skip, of the next message to come: it can never be verified afterwards. *)
Skip(m, t, n) ==
  /\ n = inbound[m][t] + 1
  /\ n \in initialised[m][t]
  /\ initialised' = [initialised EXCEPT ![m][t] = @ \ {n}]
  /\ inbound' = [inbound EXCEPT ![m][t] = Advanced(n, verified[m][t])]
  /\ UNCHANGED verified

(* burn, of a verified message not executed yet.                           *)
BurnHash(m, t, n) ==
  /\ n <= inbound[m][t]
  /\ n \in verified[m][t]
  /\ verified' = [verified EXCEPT ![m][t] = @ \ {n}]
  /\ UNCHANGED <<inbound, initialised>>

SolanaEndpointTypeOK ==
  /\ inbound \in [Mirrors -> [Tokens -> Nat]]
  /\ initialised \in [Mirrors -> [Tokens -> SUBSET Nat]]
  /\ verified \in [Mirrors -> [Tokens -> SUBSET Nat]]
  /\ queue \subseteq {p \in OrderPacket : p.id # 0}
  /\ homeToken \in [Tokens -> Token]

=============================================================================
