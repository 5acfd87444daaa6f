---------------------------- MODULE SwapRequest ----------------------------
(***************************************************************************)
(* The contract of a mirror chain, SwapRequest.sol, one instance per       *)
(* mirror: it takes an order, escrows the fees, sends the rest to the home *)
(* chain and settles the request on what comes back.  Reverting calls are  *)
(* disabled actions.  Event emission, gas parameters and timestamps are    *)
(* left out; a partner's signature is membership in Authorizations.        *)
(***************************************************************************)
EXTENDS Wire

CONSTANTS
  Trades,           \* orders users may place: [user, dir, gross, min]
  PartnerIds,
  Signers,          \* keys partners sign with
  Authorizations,   \* what partners have signed: AuthorizationType
  PartnerTerms,     \* what the owner may pass to setPartner
  InitialPartner,   \* [PartnerIds -> PartnerTerms], registered at deployment
  PlatformTerms,    \* what the owner may pass to setPlatformFee
  InitialPlatform,
  PartnerOnly,      \* values partnerRequired may be given
  InvalidatedNonces,\* <<partner, nonce>> a signer may withdraw
  FeeUnit,          \* BPS, 10 000 in the code
  MaxPartnerFee,    \* MAX_PARTNER_FEE_BPS
  MaxPlatformFee,   \* MAX_PLATFORM_FEE_BPS
  TokenAccepts,     \* whether a token lets a returned fee through: BOOLEANs
  StrayAmounts,     \* tokens people send the contract by mistake
  SweepAmounts,     \* amounts the owner sweeps
  SweepWhileComposing \* whether the owner sweeps with settlements queued

PartnerType ==
  [signer : Signers, recipient : Recipients, maxFee : Nat, active : BOOLEAN]

PlatformType == [bps : Nat, recipient : Recipients]

TradeType == [user : Users, dir : Direction, gross : Nat, min : Nat]

AuthorizationType ==
  [m : Mirrors, trade : TradeType, partner : PartnerIds, signer : Signers,
   feeBps : Nat, nonce : Nat]

ASSUME RequestAssumption ==
  /\ Trades \subseteq TradeType
  /\ Authorizations \subseteq AuthorizationType
  /\ PartnerTerms \subseteq PartnerType
  /\ InitialPartner \in [PartnerIds -> PartnerType]
  /\ PlatformTerms \subseteq PlatformType
  /\ InitialPlatform \in PlatformType
  /\ PartnerOnly \subseteq BOOLEAN
  /\ InvalidatedNonces \subseteq PartnerIds \X Nat
  /\ FeeUnit \in Nat \ {0}
  /\ MaxPartnerFee \in Nat
  /\ MaxPlatformFee \in Nat
  /\ TokenAccepts \subseteq BOOLEAN
  /\ StrayAmounts \subseteq Nat
  /\ SweepAmounts \subseteq Nat
  /\ SweepWhileComposing \in BOOLEAN
  /\ 0 \notin PartnerIds

VARIABLES
  nextRequestId,
  requests,         \* [Mirrors -> [Ids -> Request]]
  fees,             \* [Mirrors -> [Ids -> FeeEscrow]]
  feesClaimable,    \* by mirror, token and account
  feesReserved,     \* by mirror and token
  nonceUsed,        \* by mirror: the <<partner, nonce>> spent
  partners,
  partnerRequired,
  platformFee

ledgerVars == <<nextRequestId, requests, fees, feesClaimable, feesReserved>>
adminVars == <<partners, partnerRequired, platformFee>>
requestVars == <<nextRequestId, requests, fees, feesClaimable, feesReserved,
                 nonceUsed, partners, partnerRequired, platformFee>>
mirrorVars == <<wireVars, requestVars>>

Request ==
  [user : Users \cup {NoUser}, dir : Direction, amountIn : Nat,
   minAmountOut : Nat, amountOut : Nat, status : Status, lzNonce : Nat]

FeeEscrow ==
  [partner : PartnerIds \cup {0},
   state : {"NONE", "ESCROWED", "PAID", "RETURNED"},
   partnerRecipient : Recipients \cup {NoUser},
   platformRecipient : Recipients \cup {NoUser},
   partnerFee : Nat, platformFee : Nat]

(* What a Solidity mapping holds before it is written.                     *)
EmptyRequest ==
  [user |-> NoUser, dir |-> "BUY", amountIn |-> 0, minAmountOut |-> 0,
   amountOut |-> 0, status |-> "NONE", lzNonce |-> 0]

EmptyEscrow ==
  [partner |-> 0, state |-> "NONE", partnerRecipient |-> NoUser,
   platformRecipient |-> NoUser, partnerFee |-> 0, platformFee |-> 0]

FeeAccounts == Users \cup Recipients

RequestInit ==
  /\ nextRequestId = [m \in Mirrors |-> 1]
  /\ requests = [m \in Mirrors |-> [i \in Ids |-> EmptyRequest]]
  /\ fees = [m \in Mirrors |-> [i \in Ids |-> EmptyEscrow]]
  /\ feesClaimable =
       [m \in Mirrors |-> [t \in Tokens |-> [a \in FeeAccounts |-> 0]]]
  /\ feesReserved = [m \in Mirrors |-> [t \in Tokens |-> 0]]
  /\ nonceUsed = [m \in Mirrors |-> {}]
  /\ partners = [m \in Mirrors |-> InitialPartner]
  /\ partnerRequired = [m \in Mirrors |-> FALSE]
  /\ platformFee = [m \in Mirrors |-> InitialPlatform]

MirrorInit == WireInit /\ RequestInit

-----------------------------------------------------------------------------
(* Submitting an order.                                                    *)

EscrowTotal(f) == f.partnerFee + f.platformFee

(***************************************************************************)
(* _escrowFees: both fees come off the gross input.  An order without fees *)
(* leaves its escrow record untouched.                                     *)
(***************************************************************************)
EscrowFees(m, id, t, escrow) ==
  IF EscrowTotal(escrow) = 0
  THEN UNCHANGED <<fees, feesReserved>>
  ELSE /\ fees' = [fees EXCEPT ![m][id] = escrow]
       /\ feesReserved' = [feesReserved EXCEPT ![m][t] = @ + EscrowTotal(escrow)]

(* _record: the request as it is written once the message is dispatched.   *)
NewRequest(trade, sent, lzNonce) ==
  [user |-> trade.user, dir |-> trade.dir, amountIn |-> sent,
   minAmountOut |-> trade.min, amountOut |-> 0, status |-> "PENDING",
   lzNonce |-> lzNonce]

(***************************************************************************)
(* _submit: pull the gross input, keep the fees, bridge what the OFT can   *)
(* carry of the rest and hand the dust back.  An input that would bridge   *)
(* as zero is refused: it could never settle.                              *)
(***************************************************************************)
Submit(m, trade, partner, feeBps, recipient) ==
  LET id     == nextRequestId[m]
      t      == TokenIn(trade.dir)
      q      == MirrorQuantum[m][t]
      qOut   == MirrorQuantum[m][TokenOut(trade.dir)]
      escrow == [partner |-> partner, state |-> "ESCROWED",
                 partnerRecipient |-> recipient,
                 platformRecipient |-> platformFee[m].recipient,
                 partnerFee |-> FeeOf(trade.gross, feeBps, FeeUnit),
                 platformFee |-> FeeOf(trade.gross, platformFee[m].bps, FeeUnit)]
      total  == EscrowTotal(escrow)
      net    == trade.gross - total
      sent   == RemoveDust(net, q)
      pulled == Transfer(mirrorToken[m][t], trade.user, Contract, trade.gross)
      burned == Burn(pulled, Contract, sent)
  IN
  /\ id \in Ids
  /\ total < trade.gross
  /\ sent > 0
  /\ CanPay(mirrorToken[m][t], trade.user, trade.gross)
  /\ mirrorToken' = [mirrorToken EXCEPT ![m][t] =
                       Transfer(burned, Contract, trade.user, net - sent)]
  /\ EscrowFees(m, id, t, escrow)
  /\ SendOrder(m, t, id, trade.user, ToShared(net, q), FloorToShared(trade.min, qOut))
  /\ requests' = [requests EXCEPT ![m][id] =
                    NewRequest(trade, sent, outNonce[m][t] + 1)]
  /\ nextRequestId' = [nextRequestId EXCEPT ![m] = @ + 1]
  /\ UNCHANGED <<feesClaimable, returns, backNonce, composing, notices,
                 noticeNonce, adminVars>>

(* buy and sell: open only while no partner is required.                   *)
SubmitOpen(m, trade) ==
  /\ ~partnerRequired[m]
  /\ Submit(m, trade, 0, 0, NoUser)
  /\ UNCHANGED nonceUsed

(***************************************************************************)
(* _authorize: the partner is active, charges no more than it may, its     *)
(* current signer signed exactly this order for this mirror, and the nonce *)
(* is fresh; the nonce is spent.  A deadline that has passed disables the  *)
(* action, as never taking it does.                                        *)
(***************************************************************************)
Authorize(auth) ==
  LET p == partners[auth.m][auth.partner] IN
  /\ p.active
  /\ auth.feeBps <= p.maxFee
  /\ auth.signer = p.signer
  /\ <<auth.partner, auth.nonce>> \notin nonceUsed[auth.m]
  /\ nonceUsed' = [nonceUsed EXCEPT ![auth.m] = @ \cup {<<auth.partner, auth.nonce>>}]

(* buyVia and sellVia: the user the partner named submits the order.       *)
SubmitVia(auth) ==
  /\ Authorize(auth)
  /\ Submit(auth.m, auth.trade, auth.partner, auth.feeBps,
            partners[auth.m][auth.partner].recipient)

-----------------------------------------------------------------------------
(* Settling a request.                                                     *)

(* Mutant: the last fee credited replaces what was there.                  *)
CreditReplaces(claim, a, x) == [claim EXCEPT ![a] = x]

Credit(claim, a, x) == [claim EXCEPT ![a] = @ + x]

(* Mutant: the partner's account is looked up when the order fills.        *)
EarnAtCurrentTerms(m, id) ==
  LET f == fees[m][id]
      t == TokenIn(requests[m][id].dir)
      toPartner == IF f.partnerFee > 0
                   THEN Credit(feesClaimable[m][t],
                               partners[m][f.partner].recipient, f.partnerFee)
                   ELSE feesClaimable[m][t]
  IN
  /\ UNCHANGED feesReserved
  /\ IF f.state # "ESCROWED"
     THEN UNCHANGED <<fees, feesClaimable>>
     ELSE /\ fees' = [fees EXCEPT ![m][id].state = "PAID"]
          /\ feesClaimable' = [feesClaimable EXCEPT ![m][t] =
               Credit(toPartner, f.platformRecipient, f.platformFee)]

(***************************************************************************)
(* _releaseFees with _earned: the fees accrue to the accounts fixed when   *)
(* the order was taken, and stay reserved until claimed.                   *)
(***************************************************************************)
EarnFees(m, id) ==
  LET f == fees[m][id]
      t == TokenIn(requests[m][id].dir)
      toPartner == IF f.partnerFee > 0
                   THEN Credit(feesClaimable[m][t], f.partnerRecipient, f.partnerFee)
                   ELSE feesClaimable[m][t]
  IN
  /\ UNCHANGED feesReserved
  /\ IF f.state # "ESCROWED"
     THEN UNCHANGED <<fees, feesClaimable>>
     ELSE /\ fees' = [fees EXCEPT ![m][id].state = "PAID"]
          /\ feesClaimable' = [feesClaimable EXCEPT ![m][t] =
               IF f.platformFee > 0
               THEN Credit(toPartner, f.platformRecipient, f.platformFee)
               ELSE toPartner]

(***************************************************************************)
(* _releaseFees without _earned: the fees go back to the user, out of the  *)
(* mirror's assets `held` as they stand after the settlement's own payment.*)
(* A transfer the token refuses, or the contract cannot cover, leaves them *)
(* claimable instead of undoing the settlement.                            *)
(***************************************************************************)
ReturnFees(m, id, held, accepted) ==
  LET f     == fees[m][id]
      u     == requests[m][id].user
      t     == TokenIn(requests[m][id].dir)
      total == EscrowTotal(f)
      paid  == accepted /\ CanPay(held[t], Contract, total)
  IN
  IF f.state # "ESCROWED"
  THEN /\ mirrorToken' = [mirrorToken EXCEPT ![m] = held]
       /\ UNCHANGED <<fees, feesClaimable, feesReserved>>
  ELSE /\ fees' = [fees EXCEPT ![m][id].state = "RETURNED"]
       /\ IF paid
          THEN /\ total <= feesReserved[m][t]
               /\ mirrorToken' = [mirrorToken EXCEPT ![m] =
                    [held EXCEPT ![t] = Transfer(@, Contract, u, total)]]
               /\ feesReserved' = [feesReserved EXCEPT ![m][t] = @ - total]
               /\ UNCHANGED feesClaimable
          ELSE /\ mirrorToken' = [mirrorToken EXCEPT ![m] = held]
               /\ feesClaimable' = [feesClaimable EXCEPT ![m][t] =
                                      Credit(@, u, total)]
               /\ UNCHANGED feesReserved

(* Mutant: the amount on the wire read as local decimals.                  *)
PaidShared(p) ==
  [mirrorToken[p.m] EXCEPT ![p.t] =
     Transfer(@, Contract, requests[p.m][p.id].user, p.sd)]

(* The mirror's assets once the settlement p has been paid to its user.    *)
PaidOut(p) ==
  [mirrorToken[p.m] EXCEPT ![p.t] =
     Transfer(@, Contract, requests[p.m][p.id].user,
              ToLocal(p.sd, MirrorQuantum[p.m][p.t]))]

(* The endpoint hands p to lzCompose, whose transfer the contract covers.  *)
Compose(p) ==
  /\ p \in composing
  /\ composing' = composing \ {p}
  /\ CanPay(mirrorToken[p.m][p.t], Contract, ToLocal(p.sd, MirrorQuantum[p.m][p.t]))
  /\ UNCHANGED <<outNonce, orders, returns, backNonce, notices, noticeNonce,
                 nextRequestId, nonceUsed, adminVars>>

(* lzCompose of a fill.                                                    *)
ComposeFill(p) ==
  /\ Compose(p)
  /\ requests[p.m][p.id].status = "PENDING"
  /\ p.status = "FILLED"
  /\ requests' = [requests EXCEPT
       ![p.m][p.id].status = "FILLED",
       ![p.m][p.id].amountOut = ToLocal(p.sd, MirrorQuantum[p.m][p.t])]
  /\ mirrorToken' = [mirrorToken EXCEPT ![p.m] = PaidOut(p)]
  /\ EarnFees(p.m, p.id)

(***************************************************************************)
(* lzCompose of a failure.  The user's token took the refund a moment ago, *)
(* so it takes the fees of the same asset.                                 *)
(***************************************************************************)
ComposeRefund(p, accepted) ==
  /\ Compose(p)
  /\ requests[p.m][p.id].status = "PENDING"
  /\ p.status # "FILLED"
  /\ p.t = TokenIn(requests[p.m][p.id].dir) => accepted
  /\ requests' = [requests EXCEPT ![p.m][p.id].status = "REFUNDED"]
  /\ ReturnFees(p.m, p.id, PaidOut(p), accepted)

(* lzCompose for a request already closed: the tokens are its user's.      *)
ComposeLate(p) ==
  /\ Compose(p)
  /\ requests[p.m][p.id].status # "PENDING"
  /\ mirrorToken' = [mirrorToken EXCEPT ![p.m] =
       IF requests[p.m][p.id].user # NoUser THEN PaidOut(p) ELSE @]
  /\ UNCHANGED <<requests, fees, feesClaimable, feesReserved>>

Settle(p) ==
  \/ ComposeFill(p)
  \/ \E accepted \in TokenAccepts : ComposeRefund(p, accepted)
  \/ ComposeLate(p)

(* Mutant: requestIdByNonce keyed by the nonce alone.                      *)
RequestsByNonceAlone(m, t, n) ==
  {i \in Ids : requests[m][i].status # "NONE" /\ requests[m][i].lzNonce = n}

(* The requests that left through OFT t with nonce n: requestIdByNonce.    *)
RequestsByNonce(m, t, n) ==
  {i \in Ids : /\ requests[m][i].status # "NONE"
               /\ TokenIn(requests[m][i].dir) = t
               /\ requests[m][i].lzNonce = n}

(* Mutant: the notice closes a request whatever its status.                *)
ConcernedAnyStatus(n) ==
  {i \in IF n.status = "CANCELLED" THEN RequestsByNonce(n.m, n.t, n.lzNonce)
                                  ELSE {n.id} \cap Ids :
     requests[n.m][i].status # "NONE"}

(* The pending requests a notice closes: _lzReceive's conditions.          *)
Concerned(n) ==
  {i \in IF n.status = "CANCELLED" THEN RequestsByNonce(n.m, n.t, n.lzNonce)
                                  ELSE {n.id} \cap Ids :
     requests[n.m][i].status = "PENDING"}

ReceiveNotice(n) ==
  /\ n \in notices
  /\ notices' = notices \ {n}
  /\ UNCHANGED <<outNonce, orders, returns, backNonce, composing, noticeNonce,
                 nextRequestId, nonceUsed, adminVars>>

(* _lzReceive of STRANDED: the result waits on the home chain.             *)
NoticeStranded(n, id, accepted) ==
  /\ ReceiveNotice(n)
  /\ n.status = "STRANDED"
  /\ id \in Concerned(n)
  /\ requests' = [requests EXCEPT ![n.m][id].status = "STRANDED"]
  /\ ReturnFees(n.m, id, mirrorToken[n.m], accepted)

(***************************************************************************)
(* _applyCancellation: the burned input is created again, in the amount of *)
(* this contract's own record.                                             *)
(***************************************************************************)
NoticeCancelled(n, id, accepted) ==
  LET r == requests[n.m][id]
      restored == [mirrorToken[n.m] EXCEPT ![TokenIn(r.dir)] =
                     RecoveryCredit(@, r.user, r.amountIn)]
  IN
  /\ ReceiveNotice(n)
  /\ n.status = "CANCELLED"
  /\ id \in Concerned(n)
  /\ requests' = [requests EXCEPT ![n.m][id].status = "CANCELLED"]
  /\ ReturnFees(n.m, id, restored, accepted)

(* A notice that matches no pending request changes nothing.               *)
NoticeIgnored(n) ==
  /\ ReceiveNotice(n)
  /\ Concerned(n) = {}
  /\ UNCHANGED <<mirrorToken, requests, fees, feesClaimable, feesReserved>>

HearNotice(n) ==
  \/ \E id \in Ids, accepted \in TokenAccepts :
       NoticeStranded(n, id, accepted) \/ NoticeCancelled(n, id, accepted)
  \/ NoticeIgnored(n)

-----------------------------------------------------------------------------
(* Fee claims, the owner's calls, and what else moves this contract's      *)
(* tokens.                                                                 *)

(* Whoever a fee is due to withdraws it; a user's goes to the user.        *)
ClaimFees(m, t, a) ==
  LET amount == feesClaimable[m][t][a] IN
  /\ amount > 0
  /\ amount <= feesReserved[m][t]
  /\ CanPay(mirrorToken[m][t], Contract, amount)
  /\ feesClaimable' = [feesClaimable EXCEPT ![m][t][a] = 0]
  /\ feesReserved' = [feesReserved EXCEPT ![m][t] = @ - amount]
  /\ mirrorToken' = [mirrorToken EXCEPT ![m][t] = Transfer(@, Contract, a, amount)]
  /\ UNCHANGED <<outNonce, orders, returns, backNonce, composing, notices,
                 noticeNonce, nextRequestId, requests, fees, nonceUsed, adminVars>>

(* setPartner: new terms bind new orders only.                             *)
SetPartner(m, id, terms) ==
  /\ terms.maxFee <= MaxPartnerFee
  /\ partners' = [partners EXCEPT ![m][id] = terms]
  /\ UNCHANGED <<wireVars, ledgerVars, nonceUsed, partnerRequired, platformFee>>

SetPartnerRequired(m, required) ==
  /\ partnerRequired' = [partnerRequired EXCEPT ![m] = required]
  /\ UNCHANGED <<wireVars, ledgerVars, nonceUsed, partners, platformFee>>

SetPlatformFee(m, terms) ==
  /\ terms.bps <= MaxPlatformFee
  /\ platformFee' = [platformFee EXCEPT ![m] = terms]
  /\ UNCHANGED <<wireVars, ledgerVars, nonceUsed, partners, partnerRequired>>

(* invalidateNonce: an authorisation withdrawn before it is used.          *)
InvalidateNonce(m, id, n) ==
  /\ nonceUsed' = [nonceUsed EXCEPT ![m] = @ \cup {<<id, n>>}]
  /\ UNCHANGED <<wireVars, ledgerVars, adminVars>>

(* Mutant: sweep forgets the reserve.                                      *)
WholeBalance(m, t) == mirrorToken[m][t].bal[Contract]

(* What sweep can reach: the balance above the reserve; it reverts below.  *)
Sweepable(m, t) == mirrorToken[m][t].bal[Contract] - feesReserved[m][t]

(***************************************************************************)
(* sweep.  SweepWhileComposing = FALSE is an owner who sweeps an asset only*)
(* while no settlement in it waits for its lzCompose; the contract itself  *)
(* does not ask for that.                                                  *)
(***************************************************************************)
Sweep(m, t, amount) ==
  /\ 0 < amount /\ amount <= Sweepable(m, t)
  /\ SweepWhileComposing \/ \A p \in composing : p.m # m \/ p.t # t
  /\ mirrorToken' = [mirrorToken EXCEPT ![m][t] = Transfer(@, Contract, World, amount)]
  /\ UNCHANGED <<outNonce, orders, returns, backNonce, composing, notices,
                 noticeNonce, requestVars>>

(* Tokens sent to the contract by mistake: what sweep is there for.        *)
SendStray(m, t, u, amount) ==
  /\ 0 < amount /\ CanPay(mirrorToken[m][t], u, amount)
  /\ mirrorToken' = [mirrorToken EXCEPT ![m][t] = Transfer(@, u, Contract, amount)]
  /\ UNCHANGED <<outNonce, orders, returns, backNonce, composing, notices,
                 noticeNonce, requestVars>>

Bridging ==
  \/ \E m \in Mirrors, t \in Tokens, u \in Users, sd \in DirectAmounts :
       DirectSend(m, t, u, sd) /\ UNCHANGED requestVars
  \/ \E p \in returns : ReceiveReturn(p) /\ UNCHANGED requestVars

Ordering ==
  \/ \E m \in Mirrors, trade \in Trades : SubmitOpen(m, trade)
  \/ \E auth \in Authorizations : SubmitVia(auth)

Settling ==
  \/ \E p \in composing : Settle(p)
  \/ \E n \in notices : HearNotice(n)

Administering ==
  \/ \E m \in Mirrors, t \in Tokens, a \in FeeAccounts : ClaimFees(m, t, a)
  \/ \E m \in Mirrors, id \in PartnerIds, terms \in PartnerTerms :
       SetPartner(m, id, terms)
  \/ \E m \in Mirrors, required \in PartnerOnly : SetPartnerRequired(m, required)
  \/ \E m \in Mirrors, terms \in PlatformTerms : SetPlatformFee(m, terms)
  \/ \E m \in Mirrors, n \in InvalidatedNonces : InvalidateNonce(m, n[1], n[2])
  \/ \E m \in Mirrors, t \in Tokens, x \in SweepAmounts : Sweep(m, t, x)
  \/ \E m \in Mirrors, t \in Tokens, u \in Users, x \in StrayAmounts :
       SendStray(m, t, u, x)

MirrorNext == Bridging \/ Ordering \/ Settling \/ Administering

RequestTypeOK ==
  /\ nextRequestId \in [Mirrors -> Nat \ {0}]
  /\ requests \in [Mirrors -> [Ids -> Request]]
  /\ fees \in [Mirrors -> [Ids -> FeeEscrow]]
  /\ feesClaimable \in [Mirrors -> [Tokens -> [FeeAccounts -> Nat]]]
  /\ feesReserved \in [Mirrors -> [Tokens -> Nat]]
  /\ nonceUsed \in [Mirrors -> SUBSET (PartnerIds \X Nat)]
  /\ partners \in [Mirrors -> [PartnerIds -> PartnerType]]
  /\ partnerRequired \in [Mirrors -> BOOLEAN]
  /\ platformFee \in [Mirrors -> PlatformType]

MirrorTypeOK == WireTypeOK /\ RequestTypeOK

=============================================================================
