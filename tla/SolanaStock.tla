---------------------------- MODULE SolanaStock ----------------------------
(***************************************************************************)
(* The system with its home on Solana: a SwapRequest on every EVM mirror,  *)
(* swap_relay behind the Solana endpoint at home.                          *)
(***************************************************************************)
EXTENDS SwapRequest, SolanaRelay, HomeAnswer, Functions

vars == <<mirrorVars, relayVars>>

Init == MirrorInit /\ SolanaRelayInit

Next ==
  \/ MirrorNext /\ UNCHANGED relayVars
  \/ SolanaHomeNext /\ UNCHANGED requestVars

TypeOK == MirrorTypeOK /\ SolanaRelayTypeOK

-----------------------------------------------------------------------------
(***************************************************************************)
(* strand_compose's reason: a mirror hears of every order, even when no    *)
(* return leg can be sent, and no request sits PENDING.                    *)
(***************************************************************************)
EveryOrderHeardOf ==
  \A m \in Mirrors, id \in Ids :
    requests[m][id].status = "PENDING" ~> requests[m][id].status # "PENDING"

Holds(packets, m, id) == {p \in packets : p.m = m /\ p.id = id}

(* Packets that may still be executed on the home chain.                   *)
Alive == {p \in orders : ~Dead(p.m, p.t, p.nonce)}

(***************************************************************************)
(* Kill, then notify: a message a CANCELLED notice speaks of, or whose     *)
(* order is CANCELLED, is unexecuted and can no longer be verified or      *)
(* executed, whichever of skip and burn killed it and whatever init_verify *)
(* created before.                                                         *)
(***************************************************************************)
KilledBeforeNotice ==
  /\ \A n \in notices : n.status = "CANCELLED" =>
       /\ Dead(n.m, n.t, n.lzNonce)
       /\ ~IsVerifiable(n.m, n.t, n.lzNonce)
       /\ n.lzNonce \notin initialised[n.m][n.t]
       /\ \E p \in orders : p.m = n.m /\ p.t = n.t /\ p.nonce = n.lzNonce
  /\ \A m \in Mirrors, id \in Ids : requests[m][id].status = "CANCELLED" =>
       \E p \in Holds(orders, m, id) : Dead(m, p.t, p.nonce)

QueuedInputs(t) == SumFunction([p \in queue |-> IF p.t = t THEN InputOf(p) ELSE 0])

StrandedAmounts(t) == SumFunction([s \in strandeds |-> IF s.mint = t THEN s.amount ELSE 0])

(* What the relay's token accounts hold beyond its debts.                  *)
Surplus(t) == homeToken[t].bal[Contract] - QueuedInputs(t) - StrandedAmounts(t)

(***************************************************************************)
(* The relay keeps what it owes: the inputs of queued composes and of      *)
(* Stranded accounts are always there, the rest is the dust of fills, less *)
(* than one bridgeable unit each, and no order is ever paid with it.       *)
(***************************************************************************)
DebtsAreKept == \A t \in Tokens : Surplus(t) >= 0

(* The promise allows what a pool may give, as it crosses, and one notice  *)
(* for each message of the two paths, which is killed or stranded once.    *)
ASSUME SolanaBoundsAssumption ==
  /\ \A out \in PoolOutputs, t \in Tokens :
       out >= HomeQuantum[t] => ToShared(out, HomeQuantum[t]) \in Outputs
  /\ 2 * MaxNonce <= NoticeLimit

(* The packet of a stranded request, as its mirror recorded it.            *)
PacketOf(s) ==
  LET r == requests[s.m][s.id] IN
  [m |-> s.m, t |-> s.mint, nonce |-> r.lzNonce, id |-> s.id,
   user |-> s.recipient, sd |-> s.amountSd,
   min |-> FloorToShared(r.minAmountOut, MirrorQuantum[s.m][TokenOut(r.dir)])]

(* On the wire and not killed, handed to the relay, or stranded there.     *)
StillOwed == Alive \cup queue \cup {PacketOf(s) : s \in strandeds}

Promise == INSTANCE HomePromise WITH orders <- StillOwed

(***************************************************************************)
(* Refinement: towards its mirrors a Solana home is the home chain an EVM  *)
(* home is, though it skips, burns, quotes and strands otherwise: one      *)
(* answer per order, worth the floor or the whole input, or none after a   *)
(* kill.                                                                   *)
(***************************************************************************)
SolanaKeepsPromise == Promise!PromiseSpec

=============================================================================
