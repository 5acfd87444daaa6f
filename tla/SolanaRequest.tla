--------------------------- MODULE SolanaRequest ---------------------------
(***************************************************************************)
(* The order desk of a Solana mirror, programs/swap_request.  It differs   *)
(* from SwapRequest.sol where Solana does: every account a delivery touches*)
(* is named before it runs, so a killed message is found through an index  *)
(* account written when it was sent; a partner approves an order by        *)
(* co-signing its transaction; and fees leave their vault by an            *)
(* instruction of their own, which anybody may submit.                     *)
(*                                                                         *)
(* A transaction that fails changes nothing: it is a disabled action.      *)
(* Accounts are the ones client.ts derives, and token accounts exist (a    *)
(* delivery creates its user's; anybody may create another's).  Planning   *)
(* (lz_receive_types, lz_compose_types) only reads, so what it must find   *)
(* is part of the guard of the delivery it plans.                          *)
(***************************************************************************)
EXTENDS Wire

CONSTANTS
  Solana,           \* the mirror this desk is on
  Trades,           \* orders users may place: [user, dir, gross, min]
  PartnerIds,
  Signers,          \* keys partners co-sign with
  CoSigned,         \* transactions partners have signed: CoSignedType
  PartnerTerms,     \* what the admin may register or update
  PlatformTerms,    \* what the admin may pass to set_platform_fee
  PartnerOnly,      \* values partner_required may be given
  RelayWired,       \* whether set_home_relay names the relay or nothing
  FeeUnit,          \* BPS, 10 000 in the code
  MaxPartnerFee,    \* MAX_PARTNER_FEE_BPS
  MaxPlatformFee    \* MAX_PLATFORM_FEE_BPS

PartnerType ==
  [signer : Signers, recipient : Recipients, maxFee : Nat, active : BOOLEAN]

PlatformType == [bps : Nat, recipient : Recipients \cup {NoUser}]

TradeType == [user : Users, dir : Direction, gross : Nat, min : Nat]

(* The order a signed transaction opens; tx is its signature.              *)
CoSignedType ==
  [trade : TradeType, partner : PartnerIds, signer : Signers, feeBps : Nat,
   tx : Nat]

ASSUME SolanaAssumption ==
  /\ Solana \in Mirrors
  /\ Trades \subseteq TradeType
  /\ CoSigned \subseteq CoSignedType
  /\ PartnerTerms \subseteq PartnerType
  /\ PlatformTerms \subseteq PlatformType
  /\ PartnerOnly \subseteq BOOLEAN
  /\ RelayWired \subseteq BOOLEAN
  /\ FeeUnit \in Nat \ {0}
  /\ MaxPartnerFee \in Nat
  /\ MaxPlatformFee \in Nat
  /\ 0 \notin PartnerIds

VARIABLES
  homeRelay,        \* whether the store names the relay yet
  nextRequestId,
  requests,         \* [Ids -> Request], one account each
  nonceIndex,       \* NonceIndex accounts, keyed by path and nonce
  feeEscrow,        \* [Ids -> FeeEscrow]
  partners,         \* [PartnerIds -> SUBSET PartnerType]: none or one
  partnerRequired,
  platformFee,
  executed          \* co-signed transactions that succeeded

storeVars == <<homeRelay, partners, partnerRequired, platformFee>>
solanaVars == <<nextRequestId, requests, nonceIndex, feeEscrow, executed, storeVars>>
desk == <<wireVars, solanaVars>>

Request ==
  [user : Users \cup {NoUser}, dir : Direction, amountIn : Nat,
   minAmountOut : Nat, amountOut : Nat, status : Status, lzNonce : Nat]

NonceIndex == [oft : Tokens, nonce : Nat, id : Ids, user : Users, tokenIn : Tokens]

FeeEscrow ==
  [partner : PartnerIds \cup {0}, user : Users \cup {NoUser}, mint : Tokens,
   partnerRecipient : Recipients \cup {NoUser},
   platformRecipient : Recipients \cup {NoUser},
   partnerFee : Nat, platformFee : Nat,
   state : {"NONE", "ESCROWED", "PAID", "RETURNED"}]

(* Accounts not created yet.                                               *)
NoRequest ==
  [user |-> NoUser, dir |-> "BUY", amountIn |-> 0, minAmountOut |-> 0,
   amountOut |-> 0, status |-> "NONE", lzNonce |-> 0]

NoEscrow ==
  [partner |-> 0, user |-> NoUser, mint |-> "base", partnerRecipient |-> NoUser,
   platformRecipient |-> NoUser, partnerFee |-> 0, platformFee |-> 0,
   state |-> "NONE"]

(* The store's own token account, and the fee vault's: a Solana mirror     *)
(* locks nothing in an adapter, so the name Vault is free for it.          *)
Store == Contract
FeeVault == Vault

(* init_store: both mints are at least as precise as the wire, which is    *)
(* what MirrorQuantum \in Nat \ {0} says.                                  *)
SolanaInit ==
  /\ homeRelay = FALSE
  /\ nextRequestId = 1
  /\ requests = [i \in Ids |-> NoRequest]
  /\ nonceIndex = {}
  /\ feeEscrow = [i \in Ids |-> NoEscrow]
  /\ partners = [k \in PartnerIds |-> {}]
  /\ partnerRequired = FALSE
  /\ platformFee = [bps |-> 0, recipient |-> NoUser]
  /\ executed = {}

-----------------------------------------------------------------------------
(* Opening a request.                                                      *)

(* spl::transfer_checked: whole amounts, no fee on the way (a mint with a  *)
(* transfer fee is refused by check_mint).                                 *)
TransferChecked(k, a, b, x) == Transfer(k, a, b, x)

(* abi::ld_to_sd_ceil: the floor never loosens in conversion.              *)
LdToSdCeil(x, t) == FloorToShared(x, MirrorQuantum[Solana][t])

(* dispatch_oft_send: the OFT burns what the store holds of the order, and *)
(* the message takes the next nonce of the path.                           *)
DispatchOftSend(t, held, id, user, sent, min) ==
  /\ mirrorToken' = [mirrorToken EXCEPT ![Solana][t] = Burn(held, Store, sent)]
  /\ SendOrder(Solana, t, id, user, ToShared(sent, MirrorQuantum[Solana][t]), min)

(* Mutant: the index is written for the nonce the next message will take.  *)
IndexedAhead(t, id, user) ==
  [oft |-> t, nonce |-> outNonce[Solana][t], id |-> id, user |-> user, tokenIn |-> t]

(* The NonceIndex of the message just sent on path t.                      *)
Indexed(t, id, user) ==
  [oft |-> t, nonce |-> outNonce[Solana][t] + 1, id |-> id, user |-> user,
   tokenIn |-> t]

(***************************************************************************)
(* open: of amountIn only whole quanta leave the user; they are burned out *)
(* of the store's account by the OFT, and the message's nonce is indexed.  *)
(* held is the input asset once the order's fees have been taken.          *)
(***************************************************************************)
Open(trade, amountIn, held) ==
  LET id   == nextRequestId
      t    == TokenIn(trade.dir)
      q    == MirrorQuantum[Solana][t]
      sent == RemoveDust(amountIn, q)
  IN
  /\ id \in Ids
  /\ homeRelay
  /\ sent > 0
  /\ CanPay(held, trade.user, sent)
  /\ DispatchOftSend(t, TransferChecked(held, trade.user, Store, sent), id,
                     trade.user, sent, LdToSdCeil(trade.min, TokenOut(trade.dir)))
  /\ requests' = [requests EXCEPT ![id] =
       [user |-> trade.user, dir |-> trade.dir, amountIn |-> sent,
        minAmountOut |-> trade.min, amountOut |-> 0, status |-> "PENDING",
        lzNonce |-> outNonce[Solana][t] + 1]]
  /\ nextRequestId' = id + 1
  /\ nonceIndex' = nonceIndex \cup {Indexed(t, id, trade.user)}
  /\ UNCHANGED <<returns, backNonce, composing, notices, noticeNonce, storeVars>>

(* open_request: no partner, and on Solana no platform fee either.         *)
OpenRequest(trade) ==
  /\ ~partnerRequired
  /\ Open(trade, trade.gross, mirrorToken[Solana][TokenIn(trade.dir)])
  /\ UNCHANGED <<feeEscrow, executed>>

(* compute_fees: both off the gross input, rounded down.                   *)
ComputeFees(gross, partnerBps, platformBps) ==
  LET cut  == FeeOf(gross, partnerBps, FeeUnit)
      ours == FeeOf(gross, platformBps, FeeUnit)
  IN  [partner |-> cut, platform |-> ours, net |-> gross - cut - ours]

(* check_partner.                                                          *)
Approves(p, signer, feeBps) ==
  /\ p.active
  /\ signer = p.signer
  /\ feeBps <= p.maxFee

(***************************************************************************)
(* open_request_via_partner: the fees of the gross input go to the vault,  *)
(* at the terms of this moment, and the rest is opened.                    *)
(***************************************************************************)
OpenViaPartner(s, p) ==
  LET trade  == s.trade
      t      == TokenIn(trade.dir)
      due    == ComputeFees(trade.gross, s.feeBps, platformFee.bps)
      total  == due.partner + due.platform
      held   == mirrorToken[Solana][t]
  IN
  /\ nextRequestId \in Ids
  /\ s.tx \notin executed
  /\ executed' = executed \cup {s.tx}
  /\ Approves(p, s.signer, s.feeBps)
  /\ due.net > 0
  /\ CanPay(held, trade.user, total)
  /\ feeEscrow' = [feeEscrow EXCEPT ![nextRequestId] =
       [partner |-> s.partner, user |-> trade.user, mint |-> t,
        partnerRecipient |-> p.recipient,
        platformRecipient |-> platformFee.recipient,
        partnerFee |-> due.partner, platformFee |-> due.platform,
        state |-> IF total > 0 THEN "ESCROWED" ELSE "NONE"]]
  /\ Open(trade, due.net, TransferChecked(held, trade.user, FeeVault, total))

-----------------------------------------------------------------------------
(* What comes back.                                                        *)

(***************************************************************************)
(* verify_settlement: it comes from the relay the store names, and the     *)
(* request account it leads to exists and is its recipient's.              *)
(***************************************************************************)
VerifiedSettlement(p) ==
  /\ p.m = Solana
  /\ homeRelay
  /\ requests[p.id].user # NoUser

(* verify_notice: it comes from the relay the store names.                 *)
VerifiedNotice(n) == n.m = Solana /\ homeRelay

(* Mutant: a settlement for a request already closed is refused.           *)
ComposeRefused(p) ==
  LET amount == ToLocal(p.sd, MirrorQuantum[Solana][p.t]) IN
  /\ p \in composing
  /\ VerifiedSettlement(p)
  /\ requests[p.id].status = "PENDING"
  /\ CanPay(mirrorToken[Solana][p.t], Store, amount)
  /\ composing' = composing \ {p}
  /\ mirrorToken' = [mirrorToken EXCEPT ![Solana][p.t] =
                       TransferChecked(@, Store, requests[p.id].user, amount)]
  /\ UNCHANGED <<outNonce, orders, returns, backNonce, notices, noticeNonce,
                 nextRequestId, nonceIndex, feeEscrow, executed, storeVars>>

(* lz_compose pays the user what the OFT minted, before anything else.     *)
LzCompose(p) ==
  LET amount == ToLocal(p.sd, MirrorQuantum[Solana][p.t]) IN
  /\ p \in composing
  /\ VerifiedSettlement(p)
  /\ CanPay(mirrorToken[Solana][p.t], Store, amount)
  /\ composing' = composing \ {p}
  /\ mirrorToken' = [mirrorToken EXCEPT ![Solana][p.t] =
                       TransferChecked(@, Store, requests[p.id].user, amount)]
  /\ UNCHANGED <<outNonce, orders, returns, backNonce, notices, noticeNonce,
                 nextRequestId, nonceIndex, feeEscrow, executed, storeVars>>

ComposeFill(p) ==
  /\ LzCompose(p)
  /\ requests[p.id].status = "PENDING"
  /\ p.status = "FILLED"
  /\ requests' = [requests EXCEPT
       ![p.id].status = "FILLED",
       ![p.id].amountOut = ToLocal(p.sd, MirrorQuantum[Solana][p.t])]

ComposeRefund(p) ==
  /\ LzCompose(p)
  /\ requests[p.id].status = "PENDING"
  /\ p.status # "FILLED"
  /\ requests' = [requests EXCEPT ![p.id].status = "REFUNDED"]

(* A request no longer pending: paid, and the record stays as it was.      *)
ComposeLate(p) ==
  /\ LzCompose(p)
  /\ requests[p.id].status # "PENDING"
  /\ UNCHANGED requests

(***************************************************************************)
(* verify_cancellation: the index at the path and nonce of the notice, of  *)
(* the asset that path moves, and the request of the user it records.      *)
(***************************************************************************)
Cancelled(n) ==
  {e.id : e \in {x \in nonceIndex :
     /\ x.oft = n.t /\ x.nonce = n.lzNonce
     /\ x.tokenIn = n.t
     /\ requests[x.id].user = x.user}}

(***************************************************************************)
(* The request the accounts of a notice lead to (lz_receive_types_v2).     *)
(* Where there is none the delivery cannot be planned: a CANCELLED notice  *)
(* for a plain transfer stays with the endpoint.                           *)
(***************************************************************************)
Named(n) == IF n.status = "CANCELLED" THEN Cancelled(n) ELSE {n.id} \cap Ids

(* lz_receive verifies, finds the request and clears the message.          *)
LzReceive(n, id) ==
  /\ n \in notices
  /\ VerifiedNotice(n)
  /\ id \in Named(n)
  /\ notices' = notices \ {n}
  /\ UNCHANGED <<outNonce, orders, returns, backNonce, composing, noticeNonce,
                 nextRequestId, nonceIndex, feeEscrow, executed, storeVars>>

(* Mutant: the notice closes a request whatever its status.                *)
StrandedAnyStatus(n, id) ==
  /\ LzReceive(n, id)
  /\ n.status = "STRANDED"
  /\ requests[id].status # "NONE"
  /\ requests' = [requests EXCEPT ![id].status = "STRANDED"]
  /\ UNCHANGED mirrorToken

NoticeStranded(n, id) ==
  /\ LzReceive(n, id)
  /\ n.status = "STRANDED"
  /\ requests[id].status = "PENDING"
  /\ requests' = [requests EXCEPT ![id].status = "STRANDED"]
  /\ UNCHANGED mirrorToken

(* The burned input is minted again, as this program recorded it.          *)
NoticeCancelled(n, id) ==
  /\ LzReceive(n, id)
  /\ n.status = "CANCELLED"
  /\ requests[id].status = "PENDING"
  /\ requests' = [requests EXCEPT ![id].status = "CANCELLED"]
  /\ mirrorToken' = [mirrorToken EXCEPT ![Solana][n.t] =
                       RecoveryCredit(@, requests[id].user, requests[id].amountIn)]

(* The request is settled: the message is consumed, and nothing is owed.   *)
NoticeLate(n, id) ==
  /\ LzReceive(n, id)
  /\ requests[id].status \in Terminal
  /\ UNCHANGED <<requests, mirrorToken>>

-----------------------------------------------------------------------------
(* Fees.                                                                   *)

EscrowTotal(f) == f.partnerFee + f.platformFee

(* fee_payout: kept only for a fill.                                       *)
Payout(status, f) ==
  IF status = "FILLED"
  THEN [partner |-> f.partnerFee, platform |-> f.platformFee, user |-> 0]
  ELSE [partner |-> 0, platform |-> 0, user |-> EscrowTotal(f)]

(* A transfer out of the vault, when there is anything to transfer.        *)
PayFee(k, a, x) == IF x = 0 THEN k ELSE TransferChecked(k, FeeVault, a, x)

(* Mutant: the partner is paid where it asks to be paid now.               *)
FeesPaidNow(i) ==
  LET f   == feeEscrow[i]
      pay == Payout(requests[i].status, f)
      now == CHOOSE p \in partners[f.partner] : TRUE
  IN  PayFee(PayFee(PayFee(mirrorToken[Solana][f.mint],
                           now.recipient, pay.partner),
                    f.platformRecipient, pay.platform),
             f.user, pay.user)

(* The asset of order i's fees once they have been paid.                   *)
FeesPaid(i) ==
  LET f   == feeEscrow[i]
      pay == Payout(requests[i].status, f)
  IN  PayFee(PayFee(PayFee(mirrorToken[Solana][f.mint],
                           f.partnerRecipient, pay.partner),
                    f.platformRecipient, pay.platform),
             f.user, pay.user)

(* Mutant: the escrow stays open.                                          *)
StillEscrowed(i) == "ESCROWED"

(* Where the escrow stands then.                                           *)
Settled(i) ==
  IF Payout(requests[i].status, feeEscrow[i]).user > 0 THEN "RETURNED" ELSE "PAID"

Releasable(i) ==
  /\ feeEscrow[i].state = "ESCROWED"
  /\ requests[i].status \in Terminal

(***************************************************************************)
(* settle_fees, by anybody: whom the request's outcome makes the fees due  *)
(* to, as the escrow recorded them, and only once.                         *)
(***************************************************************************)
SettleFees(i) ==
  LET t == feeEscrow[i].mint IN
  /\ Releasable(i)
  /\ CanPay(mirrorToken[Solana][t], FeeVault, EscrowTotal(feeEscrow[i]))
  /\ mirrorToken' = [mirrorToken EXCEPT ![Solana][t] = FeesPaid(i)]
  /\ feeEscrow' = [feeEscrow EXCEPT ![i].state = Settled(i)]
  /\ UNCHANGED <<outNonce, orders, returns, backNonce, composing, notices,
                 noticeNonce, nextRequestId, requests, nonceIndex, executed,
                 storeVars>>

-----------------------------------------------------------------------------
(* The admin.                                                              *)

RestOfDesk == <<wireVars, nextRequestId, requests, nonceIndex, feeEscrow, executed>>

SetHomeRelay(wired) ==
  /\ homeRelay' = wired
  /\ UNCHANGED <<RestOfDesk, partners, partnerRequired, platformFee>>

(* validate_terms.                                                         *)
ValidTerms(terms) == terms.maxFee <= MaxPartnerFee

(* register_partner creates the account, update_partner needs it.          *)
WritePartner(k, terms) ==
  /\ ValidTerms(terms)
  /\ partners' = [partners EXCEPT ![k] = {terms}]
  /\ UNCHANGED <<RestOfDesk, homeRelay, partnerRequired, platformFee>>

RegisterPartner(k, terms) == partners[k] = {} /\ WritePartner(k, terms)

UpdatePartner(k, terms) == partners[k] # {} /\ WritePartner(k, terms)

SetPartnerRequired(required) ==
  /\ partnerRequired' = required
  /\ UNCHANGED <<RestOfDesk, homeRelay, partners, platformFee>>

SetPlatformFee(terms) ==
  /\ terms.bps <= MaxPlatformFee
  /\ terms.bps = 0 \/ terms.recipient # NoUser
  /\ platformFee' = terms
  /\ UNCHANGED <<RestOfDesk, homeRelay, partners, partnerRequired>>

Opening ==
  \/ \E trade \in Trades : OpenRequest(trade)
  \/ \E s \in CoSigned : \E p \in partners[s.partner] : OpenViaPartner(s, p)

Delivering ==
  \/ \E p \in composing : ComposeFill(p) \/ ComposeRefund(p) \/ ComposeLate(p)
  \/ \E n \in notices, id \in Ids :
       NoticeStranded(n, id) \/ NoticeCancelled(n, id) \/ NoticeLate(n, id)

Administering ==
  \/ \E wired \in RelayWired : SetHomeRelay(wired)
  \/ \E k \in PartnerIds, terms \in PartnerTerms :
       RegisterPartner(k, terms) \/ UpdatePartner(k, terms)
  \/ \E required \in PartnerOnly : SetPartnerRequired(required)
  \/ \E terms \in PlatformTerms : SetPlatformFee(terms)

Bridging ==
  \/ \E t \in Tokens, u \in Users, sd \in DirectAmounts : DirectSend(Solana, t, u, sd)
  \/ \E p \in returns : ReceiveReturn(p)

SolanaNext ==
  \/ Bridging /\ UNCHANGED solanaVars
  \/ Opening
  \/ Delivering
  \/ \E i \in Ids : SettleFees(i)
  \/ Administering

SolanaTypeOK ==
  /\ homeRelay \in BOOLEAN
  /\ nextRequestId \in Nat \ {0}
  /\ requests \in [Ids -> Request]
  /\ nonceIndex \subseteq NonceIndex
  /\ feeEscrow \in [Ids -> FeeEscrow]
  /\ partners \in [PartnerIds -> SUBSET PartnerType]
  /\ partnerRequired \in BOOLEAN
  /\ platformFee \in PlatformType
  /\ executed \subseteq Nat

=============================================================================
