----------------------------- MODULE SwapRelay -----------------------------
(***************************************************************************)
(* The contract of the home chain, SwapRelay.sol: it trades an order the   *)
(* endpoint hands it against the pool and returns the proceeds, or the     *)
(* input, to the mirror it came from; what cannot be returned it holds as  *)
(* stranded.  The relay and its mirrors are wired as peers from the start  *)
(* (module 05 of the deployment), and a SwapRequest declares the direction *)
(* of the OFT it sends through, so the two authentication branches of      *)
(* lzCompose are not taken.                                                *)
(*                                                                         *)
(* Native gas is counted in whole fees.  A fee quote is any element of     *)
(* ReturnQuotes or NoticeQuotes; a quote or a send that reverts takes the  *)
(* branch of a price nobody can pay, and is one above every balance.       *)
(***************************************************************************)
EXTENDS HomeEndpoint

CONSTANTS
  ComposeValue,    \* homeComposeValue: native delivered with each order
  InitialNative,
  MaxNative,       \* bound: native people fund the relay up to
  FundAmounts,     \* native amounts sent in by fundNative and retryReturn
  WithdrawAmounts, \* native amounts the owner withdraws
  ReturnQuotes,
  NoticeQuotes,
  PoolOutputs,     \* what the pool may give for an order; 0: router reverts
  Claimants,       \* users whose account is an EVM address
  MaxNotices,      \* bound: notices to one mirror, for retries that fail
  MaxUint,         \* the largest amount the venue's floor can name
  DustSwept        \* whether the owner sweeps dust

ASSUME RelayAssumption ==
  /\ ComposeValue \in Nat
  /\ InitialNative \in Nat
  /\ MaxNative \in Nat
  /\ FundAmounts \subseteq Nat
  /\ WithdrawAmounts \subseteq Nat
  /\ ReturnQuotes \subseteq Nat
  /\ NoticeQuotes \subseteq Nat
  /\ PoolOutputs \subseteq Nat
  /\ Claimants \subseteq Users
  /\ MaxNotices \in Nat
  /\ MaxUint \in Nat
  /\ DustSwept \in BOOLEAN

(* No pool holds 2^256 - 1 units of anything: a saturated floor is out of  *)
(* its reach.                                                              *)
ASSUME PoolAssumption == \A out \in PoolOutputs : out < MaxUint

VARIABLES
  native,          \* the relay's native balance
  stranded,        \* [Mirrors -> [Ids -> Stranded]]
  dustAccrued      \* [Tokens -> Nat]

relayVars == <<native, stranded, dustAccrued>>
homeVars == <<endpointVars, relayVars>>

Stranded == [amount : Nat, token : Tokens, beneficiary : Users \cup {NoUser}]

RelayInit ==
  /\ native = InitialNative
  /\ stranded = [m \in Mirrors |-> [i \in Ids |->
       [amount |-> 0, token |-> "base", beneficiary |-> NoUser]]]
  /\ dustAccrued = [t \in Tokens |-> 0]

HomeInit == EndpointInit /\ RelayInit

-----------------------------------------------------------------------------
(***************************************************************************)
(* The return leg.  r is what is to go back: mirror m, request id, asset t,*)
(* amount (local), beneficiary and settlement status.  held is the home    *)
(* assets, owed the stranded amounts and funds the native balance as they  *)
(* stand when the leg starts.                                              *)
(***************************************************************************)
(* Mutant: exactly one bridgeable unit is taken for dust.                  *)
SendableStrict(r, price, held, funds) ==
  /\ HomeQuantum[r.t] < r.amount
  /\ price <= funds
  /\ CanPay(held[r.t], Contract, r.amount)

(* Whether the leg can be sent for that price; otherwise it strands.       *)
Sendable(r, price, held, funds) ==
  /\ HomeQuantum[r.t] <= r.amount
  /\ price <= funds
  /\ CanPay(held[r.t], Contract, r.amount)

(* _returnToMirror, sent: the OFT takes whole quanta and the rest is dust. *)
ReturnSent(r, price, held, owed, funds) ==
  LET sent == RemoveDust(r.amount, HomeQuantum[r.t]) IN
  /\ Sendable(r, price, held, funds)
  /\ native' = funds - price
  /\ homeToken' = [held EXCEPT ![r.t] = HomeDebit(@, r.t, Contract, sent)]
  /\ dustAccrued' = [dustAccrued EXCEPT ![r.t] = @ + (r.amount - sent)]
  /\ SendReturn(r.m, r.t, r.id, ToShared(r.amount, HomeQuantum[r.t]), r.status)
  /\ stranded' = owed
  /\ UNCHANGED <<notices, noticeNonce>>

(***************************************************************************)
(* _returnToMirror, not sent: _strand adds the amount to what is owed, and *)
(* _notifyStranded tells the mirror if the balance still pays for that.    *)
(***************************************************************************)
ReturnStranded(r, price, notice, held, owed, funds) ==
  /\ ~Sendable(r, price, held, funds)
  /\ stranded' = [owed EXCEPT
       ![r.m][r.id] = [amount |-> @.amount + r.amount, token |-> r.t,
                       beneficiary |-> IF r.user # NoUser THEN r.user
                                       ELSE @.beneficiary]]
  /\ homeToken' = held
  /\ IF notice <= funds
     THEN /\ native' = funds - notice
          /\ SendNotice(r.m, "STRANDED", r.id, "base", 0)
     ELSE /\ native' = funds
          /\ UNCHANGED <<notices, noticeNonce>>
  /\ UNCHANGED <<dustAccrued, returns, backNonce>>

ReturnToMirror(r, held, owed, funds) ==
  \E price \in ReturnQuotes, notice \in NoticeQuotes :
    \/ ReturnSent(r, price, held, owed, funds)
    \/ ReturnStranded(r, price, notice, held, owed, funds)

-----------------------------------------------------------------------------
(* An order's input on the home chain, in local units.                     *)
InputOf(p) == ToLocal(p.sd, HomeQuantum[p.t])

(* The floor the router is given for order p.                              *)
FloorOf(p) == VenueFloor(p.min, HomeQuantum[OtherToken(p.t)], MaxUint)

(* The endpoint hands order p to lzCompose, with the native it paid for.   *)
Handed(p) ==
  /\ p \in queue
  /\ queue' = queue \ {p}
  /\ UNCHANGED <<mirrorToken, outNonce, orders, composing, lazy, verified>>

(* The pool meets the floor: the input is traded and the proceeds go back. *)
FillOrder(p, out) ==
  LET tOut   == OtherToken(p.t)
      traded == [homeToken EXCEPT
                   ![p.t] = Transfer(@, Contract, World, InputOf(p)),
                   ![tOut] = Transfer(@, World, Contract, out)]
  IN
  /\ Handed(p)
  /\ out >= FloorOf(p)
  /\ CanPay(homeToken[p.t], Contract, InputOf(p))
  /\ CanPay(homeToken[tOut], World, out)
  /\ ReturnToMirror([m |-> p.m, id |-> p.id, t |-> tOut, amount |-> out,
                     user |-> p.user, status |-> "FILLED"],
                    traded, stranded, native + ComposeValue)

(* The router reverts, for the floor or any other reason: _reject.         *)
RejectOrder(p, out) ==
  /\ Handed(p)
  /\ out < FloorOf(p)
  /\ ReturnToMirror([m |-> p.m, id |-> p.id, t |-> p.t, amount |-> InputOf(p),
                     user |-> p.user, status |-> "REFUNDED"],
                    homeToken, stranded, native + ComposeValue)

ExecuteOrder(p) == \E out \in PoolOutputs : FillOrder(p, out) \/ RejectOrder(p, out)

(* Mutant: the retry reports a fill.                                       *)
RetriedAsFill(m, id) ==
  [m |-> m, id |-> id, t |-> stranded[m][id].token,
   amount |-> stranded[m][id].amount, user |-> stranded[m][id].beneficiary,
   status |-> "FILLED"]

(***************************************************************************)
(* retryReturn, by anybody, with v native attached.  It is sent as a       *)
(* refund whatever the strand held.                                        *)
(***************************************************************************)
Retried(m, id) ==
  [m |-> m, id |-> id, t |-> stranded[m][id].token,
   amount |-> stranded[m][id].amount, user |-> stranded[m][id].beneficiary,
   status |-> "REFUNDED"]

(* Mutant: a retry or a claim leaves the strand on record.                 *)
StillStranded(m, id) == stranded

Cleared(m, id) == [stranded EXCEPT ![m][id].amount = 0]

RetrySent(m, id, v) ==
  /\ stranded[m][id].amount > 0
  /\ \E price \in ReturnQuotes :
       ReturnSent(Retried(m, id), price, homeToken, Cleared(m, id), native + v)
  /\ UNCHANGED <<mirrorToken, outNonce, orders, composing, lazy, verified, queue>>

RetryStranded(m, id, v) ==
  /\ stranded[m][id].amount > 0
  /\ noticeNonce[m] < MaxNotices
  /\ native + v <= MaxNative
  /\ \E price \in ReturnQuotes, notice \in NoticeQuotes :
       ReturnStranded(Retried(m, id), price, notice, homeToken, Cleared(m, id),
                      native + v)
  /\ UNCHANGED <<mirrorToken, outNonce, orders, composing, lazy, verified, queue>>

(* claimStranded, by anybody: paid to the owner here, and no notice sent.  *)
ClaimStranded(m, id) ==
  LET s == stranded[m][id] IN
  /\ s.amount > 0
  /\ s.beneficiary \in Claimants
  /\ CanPay(homeToken[s.token], Contract, s.amount)
  /\ stranded' = Cleared(m, id)
  /\ homeToken' = [homeToken EXCEPT ![s.token] =
                     Transfer(@, Contract, s.beneficiary, s.amount)]
  /\ UNCHANGED <<wireVars, lazy, verified, queue, native, dustAccrued>>

(***************************************************************************)
(* cancelStuckInbound, by the owner, for a packet some mirror has sent:    *)
(* skip, then burn if a payload hash was given, then the notice, in one    *)
(* transaction that reverts as a whole.                                    *)
(***************************************************************************)
CancelStuckInbound(p, hashGiven) ==
  /\ p \in orders
  /\ Skippable(p.m, p.t, p.nonce)
  /\ lazy' = [lazy EXCEPT ![p.m][p.t] = p.nonce]
  /\ hashGiven => Burnable(p.m, p.t, p.nonce, p.nonce)
  /\ verified' = [verified EXCEPT ![p.m][p.t] = IF hashGiven THEN @ \ {p.nonce} ELSE @]
  /\ \E price \in NoticeQuotes :
       /\ price <= native
       /\ native' = native - price
  /\ SendNotice(p.m, "CANCELLED", 0, p.t, p.nonce)
  /\ UNCHANGED <<mirrorToken, outNonce, orders, returns, backNonce, composing,
                 queue, homeToken, stranded, dustAccrued>>

FundNative(v) ==
  /\ native + v <= MaxNative
  /\ native' = native + v
  /\ UNCHANGED <<wireVars, endpointVars, stranded, dustAccrued>>

(* Mutant: more may be withdrawn than is there.                            *)
WithdrawUnchecked(v) ==
  /\ native' = native - v
  /\ UNCHANGED <<wireVars, endpointVars, stranded, dustAccrued>>

WithdrawNative(v) ==
  /\ v <= native
  /\ native' = native - v
  /\ UNCHANGED <<wireVars, endpointVars, stranded, dustAccrued>>

(* Mutant: sweepDust does not reset its counter.                           *)
SweepDustAgain(t) ==
  /\ DustSwept
  /\ CanPay(homeToken[t], Contract, dustAccrued[t])
  /\ homeToken' = [homeToken EXCEPT ![t] =
                     Transfer(@, Contract, World, dustAccrued[t])]
  /\ UNCHANGED <<wireVars, lazy, verified, queue, native, stranded, dustAccrued>>

(* sweepDust pays the owner what dustAccrued says.                         *)
SweepDust(t) ==
  /\ DustSwept
  /\ CanPay(homeToken[t], Contract, dustAccrued[t])
  /\ dustAccrued' = [dustAccrued EXCEPT ![t] = 0]
  /\ homeToken' = [homeToken EXCEPT ![t] =
                     Transfer(@, Contract, World, dustAccrued[t])]
  /\ UNCHANGED <<wireVars, lazy, verified, queue, native, stranded>>

Delivering ==
  \E p \in orders :
    /\ Verify(p) \/ ReceiveOrder(p)
    /\ UNCHANGED <<mirrorToken, outNonce, returns, backNonce, composing, notices,
                   noticeNonce, relayVars>>

Recovering ==
  \/ \E m \in Mirrors, id \in Ids, v \in FundAmounts \cup {0} :
       RetrySent(m, id, v) \/ RetryStranded(m, id, v)
  \/ \E m \in Mirrors, id \in Ids : ClaimStranded(m, id)
  \/ \E p \in orders, hashGiven \in BOOLEAN : CancelStuckInbound(p, hashGiven)

Operating ==
  \/ \E v \in FundAmounts : FundNative(v)
  \/ \E v \in WithdrawAmounts : WithdrawNative(v)
  \/ \E t \in Tokens : SweepDust(t)

HomeNext ==
  \/ Delivering
  \/ \E p \in queue : ExecuteOrder(p)
  \/ Recovering
  \/ Operating

RelayTypeOK ==
  /\ native \in Nat
  /\ stranded \in [Mirrors -> [Ids -> Stranded]]
  /\ dustAccrued \in [Tokens -> Nat]

HomeTypeOK == EndpointTypeOK /\ RelayTypeOK

=============================================================================
