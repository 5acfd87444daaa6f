---------------------------- MODULE SolanaRelay ----------------------------
(***************************************************************************)
(* The order executor of a Solana home chain, programs/swap_relay.  Where  *)
(* SwapRelay.sol tries and catches, this program cannot: it asks the pool  *)
(* for a quote before it touches it, an instruction whose return leg fails *)
(* reverts and leaves its compose queued, and stranding is an instruction  *)
(* of the admin's.  A message that is verified is burned, one that is not  *)
(* is skipped, never both.                                                 *)
(*                                                                         *)
(* Peers and routes are recorded (set_peer, set_return_route,              *)
(* set_notice_route, set_alt) before the first order, and a SwapRequest    *)
(* declares the direction of the OFT it sends through, so the two          *)
(* authentication branches of lz_compose are not taken.  What a return or  *)
(* a notice costs is paid by whoever submits the instruction and capped by *)
(* the peer's max_return_fee; above the cap the instruction reverts, as a  *)
(* disabled action does.                                                   *)
(***************************************************************************)
EXTENDS SolanaEndpoint

CONSTANTS
  PoolOutputs,     \* what the pool may quote for an order; 0: it cannot swap
  MaxU64,          \* the largest floor an order can name in local decimals
  AdminStrands,    \* whether the admin strands composes
  AdminCancels     \* whether the admin cancels messages

ASSUME SolanaRelayAssumption ==
  /\ PoolOutputs \subseteq Nat
  /\ MaxU64 \in Nat
  /\ AdminStrands \in BOOLEAN
  /\ AdminCancels \in BOOLEAN

(* No pool holds 2^64 - 1 units: a saturated floor is out of its reach.    *)
ASSUME SolanaPoolAssumption == \A out \in PoolOutputs : out < MaxU64

VARIABLE strandeds \* the Stranded accounts, keyed by mirror and request

relayVars == <<endpointVars, strandeds>>

Stranded ==
  [m : Mirrors, id : Ids, mint : Tokens, amount : Nat, amountSd : Nat,
   recipient : Users]

SolanaRelayInit == SolanaEndpointInit /\ strandeds = {}

(* An order's input, in local decimals: frame.amount_ld.                   *)
InputOf(p) == ToLocal(p.sd, HomeQuantum[p.t])

(* Mutant: the floor is dropped where the quote is compared with it.       *)
MinOutDropped(p) == HomeQuantum[OtherToken(p.t)]

(* min_out: saturated rather than overflowed, and at least what can cross. *)
MinOut(p) == VenueFloor(p.min, HomeQuantum[OtherToken(p.t)], MaxU64)

(***************************************************************************)
(* oft_send through the recorded route: whole quanta leave, and what they  *)
(* do not cover stays with the relay.                                      *)
(***************************************************************************)
OftSend(held, m, t, id, amount, status) ==
  /\ CanPay(held[t], Contract, amount)
  /\ homeToken' = [held EXCEPT ![t] =
       OftDebit(@, t, Contract, RemoveDust(amount, HomeQuantum[t]))]
  /\ SendReturn(m, t, id, ToShared(amount, HomeQuantum[t]), status)

(* clear_compose: the compose is consumed and cannot be replayed.          *)
ClearCompose(p) == p \in queue /\ queue' = queue \ {p}

RestUnchanged ==
  UNCHANGED <<mirrorToken, outNonce, orders, composing>>

(* swap_v2: the relay's input into the pool, its output to the relay.      *)
SwapV2(p, out) ==
  [homeToken EXCEPT
     ![p.t] = Transfer(@, Contract, World, InputOf(p)),
     ![OtherToken(p.t)] = Transfer(@, World, Contract, out)]

(* lz_compose, Decision::Fill: the quote clears the floor, and is swapped. *)
FillOrder(p, out) ==
  LET tOut == OtherToken(p.t) IN
  /\ ClearCompose(p)
  /\ out >= MinOut(p)
  /\ CanPay(homeToken[p.t], Contract, InputOf(p))
  /\ CanPay(homeToken[tOut], World, out)
  /\ OftSend(SwapV2(p, out), p.m, tOut, p.id, out, "FILLED")
  /\ RestUnchanged
  /\ UNCHANGED <<notices, noticeNonce, nonceVars, strandeds>>

(* lz_compose, Decision::Refund: the pool is not touched.                  *)
RefundOrder(p, out) ==
  /\ ClearCompose(p)
  /\ out < MinOut(p)
  /\ OftSend(homeToken, p.m, p.t, p.id, InputOf(p), "REFUNDED")
  /\ RestUnchanged
  /\ UNCHANGED <<notices, noticeNonce, nonceVars, strandeds>>

LzCompose(p) == \E out \in PoolOutputs : FillOrder(p, out) \/ RefundOrder(p, out)

(* Mutant: the notice is forgotten.                                        *)
NoNotice(m, status, id, t, lzNonce) == UNCHANGED <<notices, noticeNonce>>

(* send_notice: a message without tokens, through the notice route.        *)
SendNoticeTo(m, status, id, t, lzNonce) == SendNotice(m, status, id, t, lzNonce)

(* Mutant: the account names the asset the order asked for.                *)
StrandedAsOutput(p) ==
  [m |-> p.m, id |-> p.id, mint |-> OtherToken(p.t), amount |-> InputOf(p),
   amountSd |-> p.sd, recipient |-> p.user]

(* The Stranded account of an order: its input, untraded.                  *)
StrandedAccount(p) ==
  [m |-> p.m, id |-> p.id, mint |-> p.t, amount |-> InputOf(p),
   amountSd |-> p.sd, recipient |-> p.user]

(***************************************************************************)
(* strand_compose, by the admin: the compose is consumed, its input is     *)
(* held untraded under the request's own account, and the mirror is told,  *)
(* or nothing of it happens.                                               *)
(***************************************************************************)
StrandCompose(p) ==
  /\ AdminStrands
  /\ ClearCompose(p)
  /\ \A s \in strandeds : s.m # p.m \/ s.id # p.id
  /\ strandeds' = strandeds \cup {StrandedAccount(p)}
  /\ SendNoticeTo(p.m, "STRANDED", p.id, "base", 0)
  /\ RestUnchanged
  /\ UNCHANGED <<returns, backNonce, nonceVars, homeToken>>

(* The Stranded account is closed by the retry that empties it.            *)
Closed(s) == strandeds \ {s}

(* retry_return, by anybody: what was stranded goes home, as a refund.     *)
RetryReturn(s) ==
  /\ s \in strandeds
  /\ OftSend(homeToken, s.m, s.mint, s.id, s.amount, "REFUNDED")
  /\ strandeds' = Closed(s)
  /\ RestUnchanged
  /\ UNCHANGED <<notices, noticeNonce, nonceVars, queue>>

(***************************************************************************)
(* cancel_stuck_inbound, by the admin, for a packet some mirror has sent:  *)
(* killed, by burn if its payload hash is named, else by skip, and the     *)
(* mirror told, in one transaction.                                        *)
(***************************************************************************)
CancelStuckInbound(p, hash) ==
  /\ AdminCancels
  /\ p \in orders
  /\ IF hash THEN BurnHash(p.m, p.t, p.nonce) ELSE Skip(p.m, p.t, p.nonce)
  /\ SendNoticeTo(p.m, "CANCELLED", 0, p.t, p.nonce)
  /\ RestUnchanged
  /\ UNCHANGED <<returns, backNonce, queue, homeToken, strandeds>>

RelayUntouched ==
  UNCHANGED <<mirrorToken, outNonce, returns, backNonce, composing, notices,
              noticeNonce, strandeds>>

(* What the OFTs' messages go through, whatever the relay does.            *)
Delivering ==
  /\ \/ \E m \in Mirrors, t \in Tokens, n \in 1..MaxNonce :
          InitVerify(m, t, n) /\ UNCHANGED orders
     \/ \E p \in orders : Verify(p) /\ UNCHANGED orders
     \/ \E p \in orders : ReceiveOrder(p)
  /\ RelayUntouched

SolanaHomeNext ==
  \/ Delivering
  \/ \E p \in queue : LzCompose(p) \/ StrandCompose(p)
  \/ \E s \in strandeds : RetryReturn(s)
  \/ \E p \in orders, hash \in BOOLEAN : CancelStuckInbound(p, hash)

SolanaRelayTypeOK ==
  /\ SolanaEndpointTypeOK
  /\ strandeds \subseteq Stranded

=============================================================================
