---------------------------- MODULE LedgerProofs ----------------------------
(***************************************************************************)
(* A mirror, facing any home chain that keeps its promise, for every value *)
(* of the constants: its state has its type (the content is in the         *)
(* subtractions: no balance or reserve is ever taken below zero), and the  *)
(* fee ledger and the tokens behind it add up; and so does what it counted *)
(* in and out, with what is on the wire.                                   *)
(***************************************************************************)
EXTENDS HomePromise, Transit, HomeToken, AmountTheorems

-----------------------------------------------------------------------------
(* One asset on one chain.                                                 *)

(* The accounts the modules name have a balance.                           *)
LEMMA NamedAccounts == /\ Contract \in Accounts
                       /\ World \in Accounts
                       /\ Vault \in Accounts
                       /\ Users \subseteq Accounts
                       /\ FeeAccounts \subseteq Accounts
BY DEF Accounts, FeeAccounts

(* What the home OFT handle debits and credits, adapter or not.            *)
LEMMA HomeDebitType ==
  ASSUME NEW k \in Token, NEW t, NEW x \in Nat, CanPay(k, Contract, x)
  PROVE  HomeDebit(k, t, Contract, x) \in Token
BY TransferType, BurnType, NamedAccounts DEF HomeDebit, Lock

(* And what it credits, when the lockbox covers it.                        *)
LEMMA HomeCreditType ==
  ASSUME NEW k \in Token, NEW t, NEW a \in Accounts, NEW x \in Nat,
         t \in Adapted => CanPay(k, Vault, x)
  PROVE  HomeCredit(k, t, a, x) \in Token
BY TransferType, MintType, NamedAccounts DEF HomeCredit, Unlock

(* What a shared amount is worth on the home chain.                        *)
LEMMA HomeWorth ==
  ASSUME NEW t \in Tokens, NEW sd \in Nat
  PROVE  HomeQuantum[t] \in Nat \ {0} /\ ToLocal(sd, HomeQuantum[t]) \in Nat
BY HomeAssumption, AmountTypes

(***************************************************************************)
(* Pull a gross input, burn what is bridged of it and hand the rest back:  *)
(* the contract can always pay for both, whatever it held.                 *)
(***************************************************************************)
LEMMA SubmittedType ==
  ASSUME NEW k \in Token, NEW u \in Users, NEW gross \in Nat, NEW net \in Nat,
         NEW sent \in Nat, CanPay(k, u, gross), net <= gross, sent <= net
  PROVE  Transfer(Burn(Transfer(k, u, Contract, gross), Contract, sent),
                  Contract, u, net - sent) \in Token
<1> DEFINE pulled == Transfer(k, u, Contract, gross)
<1> DEFINE burned == Burn(pulled, Contract, sent)
<1>1. pulled \in Token
  BY TransferType, NamedAccounts
<1>2. pulled.bal[Contract] >= gross
  <2> DEFINE less == [k.bal EXCEPT ![u] = @ - gross]
  <2>1. less \in [Accounts -> Nat]
    BY NamedAccounts DEF Token, CanPay
  <2>2. pulled.bal = [less EXCEPT ![Contract] = @ + gross]
    BY DEF Transfer, Token
  <2> QED
    BY <2>1, <2>2, NamedAccounts
<1>3. CanPay(pulled, Contract, sent)
  BY <1>1, <1>2, NamedAccounts DEF CanPay, Token
<1> HIDE DEF pulled
<1>4. burned \in Token
  BY <1>1, <1>3, BurnType, NamedAccounts
<1>5. burned.bal[Contract] = pulled.bal[Contract] - sent
  BY <1>1, NamedAccounts DEF Burn, Token
<1>6. CanPay(burned, Contract, net - sent)
  <2>1. pulled.bal[Contract] \in Nat
    BY <1>1, NamedAccounts DEF Token
  <2> QED
    BY <1>2, <1>5, <2>1 DEF CanPay
<1> HIDE DEF burned
<1>7. Transfer(burned, Contract, u, net - sent) \in Token
  BY <1>4, <1>6, TransferType, NamedAccounts
<1> QED
  BY <1>7 DEF burned, pulled

-----------------------------------------------------------------------------
(* The wire.                                                               *)

(* The packet an order becomes is an OrderPacket.                          *)
LEMMA SendOrderType ==
  ASSUME WireTypeOK, NEW m \in Mirrors, NEW t \in Tokens, NEW id \in Ids \cup {0},
         NEW user \in Users, NEW sd \in Nat, NEW min \in Nat,
         SendOrder(m, t, id, user, sd, min)
  PROVE  outNonce' \in [Mirrors -> [Tokens -> Nat]] /\ orders' \subseteq OrderPacket
BY DEF WireTypeOK, SendOrder, OrderPacket

(* What the home chain sends back is a ReturnPacket.                       *)
LEMMA SendReturnType ==
  ASSUME WireTypeOK, NEW m \in Mirrors, NEW t \in Tokens, NEW id \in Ids,
         NEW sd \in Nat, NEW status \in {"FILLED", "REFUNDED"},
         SendReturn(m, t, id, sd, status)
  PROVE  backNonce' \in [Mirrors -> [Tokens -> Nat]] /\ returns' \subseteq ReturnPacket
BY DEF WireTypeOK, SendReturn, ReturnPacket

(* What the relay announces is a Notice.                                   *)
LEMMA SendNoticeType ==
  ASSUME WireTypeOK, NEW m \in Mirrors, NEW status \in {"STRANDED", "CANCELLED"},
         NEW id \in Ids \cup {0}, NEW t \in Tokens, NEW n \in Nat,
         SendNotice(m, status, id, t, n)
  PROVE  noticeNonce' \in [Mirrors -> Nat] /\ notices' \subseteq Notice
BY DEF WireTypeOK, SendNotice, Notice

(* One asset of one mirror replaced by another of its type.                *)
LEMMA MirrorTokenType ==
  ASSUME WireTypeOK, NEW m \in Mirrors, NEW t \in Tokens, NEW k \in Token
  PROVE  [mirrorToken EXCEPT ![m][t] = k] \in [Mirrors -> [Tokens -> Token]]
BY DEF WireTypeOK

(* What sd is worth on mirror m.                                           *)
LEMMA MirrorWorth ==
  ASSUME NEW m \in Mirrors, NEW t \in Tokens, NEW sd \in Nat
  PROVE  ToLocal(sd, MirrorQuantum[m][t]) \in Nat
BY WireAssumption, AmountTypes

(* A user bridges tokens without an order.                                 *)
LEMMA DirectSendType ==
  ASSUME WireTypeOK, NEW m \in Mirrors, NEW t \in Tokens, NEW u \in Users,
         NEW sd \in DirectAmounts, DirectSend(m, t, u, sd)
  PROVE  WireTypeOK'
<1> DEFINE amount == ToLocal(sd, MirrorQuantum[m][t])
           k == mirrorToken[m][t]
<1>1. sd \in Nat /\ amount \in Nat /\ k \in Token
  BY MirrorWorth, WireAssumption DEF WireTypeOK
<1>2. CanPay(k, u, amount) /\ mirrorToken' = [mirrorToken EXCEPT ![m][t] = Burn(k, u, amount)]
  BY DEF DirectSend
<1>3. Burn(k, u, amount) \in Token
  BY <1>1, <1>2, BurnType, NamedAccounts
<1>4. mirrorToken' \in [Mirrors -> [Tokens -> Token]]
  BY <1>2, <1>3, MirrorTokenType
<1>5. outNonce' \in [Mirrors -> [Tokens -> Nat]] /\ orders' \subseteq OrderPacket
  BY <1>1, SendOrderType DEF DirectSend
<1> QED
  BY <1>4, <1>5 DEF WireTypeOK, DirectSend

(* A return is credited on the mirror and queued.                          *)
LEMMA ReceiveReturnType ==
  ASSUME WireTypeOK, NEW p \in returns, ReceiveReturn(p)
  PROVE  WireTypeOK'
<1> DEFINE amount == ToLocal(p.sd, MirrorQuantum[p.m][p.t])
           k == mirrorToken[p.m][p.t]
<1>1. p \in ReturnPacket
  BY DEF WireTypeOK
<1>2. p.m \in Mirrors /\ p.t \in Tokens /\ p.sd \in Nat
  BY <1>1 DEF ReturnPacket
<1>3. amount \in Nat /\ k \in Token
  BY <1>2, MirrorWorth DEF WireTypeOK
<1>4. Mint(k, Contract, amount) \in Token
  BY <1>3, MintType, NamedAccounts
<1>5. mirrorToken' \in [Mirrors -> [Tokens -> Token]]
  BY <1>2, <1>4, MirrorTokenType DEF ReceiveReturn
<1> QED
  BY <1>1, <1>5 DEF WireTypeOK, ReceiveReturn

-----------------------------------------------------------------------------
(* SwapRequest: submission.                                                *)

(* An order is taken: the escrow fits the input, and so does what is sent. *)
LEMMA SubmitType ==
  ASSUME MirrorTypeOK, NEW m \in Mirrors, NEW trade \in TradeType,
         NEW partner \in PartnerIds \cup {0}, NEW feeBps \in Nat,
         NEW recipient \in Recipients \cup {NoUser},
         Submit(m, trade, partner, feeBps, recipient)
  PROVE  /\ WireTypeOK'
         /\ nextRequestId' \in [Mirrors -> Nat \ {0}]
         /\ requests' \in [Mirrors -> [Ids -> Request]]
         /\ fees' \in [Mirrors -> [Ids -> FeeEscrow]]
         /\ feesReserved' \in [Mirrors -> [Tokens -> Nat]]
<1> DEFINE id     == nextRequestId[m]
           t      == TokenIn(trade.dir)
           q      == MirrorQuantum[m][t]
           qOut   == MirrorQuantum[m][TokenOut(trade.dir)]
           partnerFee0 == FeeOf(trade.gross, feeBps, FeeUnit)
           platformFee0 == FeeOf(trade.gross, platformFee[m].bps, FeeUnit)
           escrow == [partner |-> partner, state |-> "ESCROWED",
                      partnerRecipient |-> recipient,
                      platformRecipient |-> platformFee[m].recipient,
                      partnerFee |-> partnerFee0,
                      platformFee |-> platformFee0]
           total  == EscrowTotal(escrow)
           net    == trade.gross - total
           sent   == RemoveDust(net, q)
           k      == mirrorToken[m][t]
           after  == Transfer(Burn(Transfer(k, trade.user, Contract, trade.gross),
                                   Contract, sent),
                              Contract, trade.user, net - sent)
<1>1. /\ trade.user \in Users /\ trade.dir \in Direction
      /\ trade.gross \in Nat /\ trade.min \in Nat
  BY DEF TradeType
<1>2. t \in Tokens /\ TokenOut(trade.dir) \in Tokens
  BY <1>1 DEF TokenIn, TokenOut, Tokens
<1>3. q \in Nat \ {0} /\ qOut \in Nat \ {0}
  BY <1>2, WireAssumption
<1>4. platformFee[m].bps \in Nat /\ platformFee[m].recipient \in Recipients
  BY DEF MirrorTypeOK, RequestTypeOK, PlatformType
<1>5. partnerFee0 \in Nat /\ platformFee0 \in Nat
  BY <1>1, <1>4, FeeType, RequestAssumption
<1>6. total = partnerFee0 + platformFee0
  BY DEF EscrowTotal
<1>7. escrow \in FeeEscrow
  <2> HIDE DEF partnerFee0, platformFee0
  <2> QED
    BY <1>4, <1>5 DEF FeeEscrow
<1>8. total < trade.gross /\ net \in Nat /\ net <= trade.gross /\ total \in Nat
  BY <1>1, <1>5, <1>6 DEF Submit
<1>9. /\ sent \in Nat /\ sent <= net /\ ToShared(net, q) \in Nat
      /\ FloorToShared(trade.min, qOut) \in Nat
  <2>1. FloorToShared(trade.min, qOut) \in Nat
    BY <1>1, <1>3, AmountTypes
  <2> HIDE DEF net, q
  <2> QED
    BY <1>3, <1>8, <2>1, AmountTypes
<1>10. k \in Token /\ CanPay(k, trade.user, trade.gross)
  BY <1>2 DEF MirrorTypeOK, WireTypeOK, Submit
<1>11. after \in Token
  BY <1>1, <1>8, <1>9, <1>10, SubmittedType
<1>12. id \in Ids /\ id \in Nat \ {0}
  BY DEF Submit, MirrorTypeOK, RequestTypeOK
<1>13. /\ mirrorToken' = [mirrorToken EXCEPT ![m][t] = after]
       /\ EscrowFees(m, id, t, escrow)
       /\ SendOrder(m, t, id, trade.user, ToShared(net, q),
                    FloorToShared(trade.min, qOut))
       /\ requests' = [requests EXCEPT ![m][id] =
                         NewRequest(trade, sent, outNonce[m][t] + 1)]
       /\ nextRequestId' = [nextRequestId EXCEPT ![m] = @ + 1]
       /\ UNCHANGED <<returns, backNonce, composing, notices, noticeNonce>>
  BY DEF Submit
<1>14. outNonce[m][t] + 1 \in Nat
  BY <1>2 DEF MirrorTypeOK, WireTypeOK
<1> HIDE DEF id, t, q, qOut, escrow, total, net, sent, k, after, partnerFee0, platformFee0
<1>15. mirrorToken' \in [Mirrors -> [Tokens -> Token]]
  BY <1>2, <1>11, <1>13, MirrorTokenType DEF MirrorTypeOK
<1>16. outNonce' \in [Mirrors -> [Tokens -> Nat]] /\ orders' \subseteq OrderPacket
  BY <1>1, <1>2, <1>9, <1>12, <1>13, SendOrderType DEF MirrorTypeOK
<1>17. WireTypeOK'
  BY <1>13, <1>15, <1>16 DEF MirrorTypeOK, WireTypeOK
<1>18. NewRequest(trade, sent, outNonce[m][t] + 1) \in Request
  BY <1>1, <1>9, <1>14 DEF NewRequest, Request, Status
<1>19. requests' \in [Mirrors -> [Ids -> Request]]
  BY <1>12, <1>13, <1>18 DEF MirrorTypeOK, RequestTypeOK
<1>20. nextRequestId' \in [Mirrors -> Nat \ {0}]
  BY <1>13 DEF MirrorTypeOK, RequestTypeOK
<1>21. /\ fees' \in [Mirrors -> [Ids -> FeeEscrow]]
       /\ feesReserved' \in [Mirrors -> [Tokens -> Nat]]
  <2>1. EscrowTotal(escrow) \in Nat
    BY <1>8 DEF total
  <2>2. CASE EscrowTotal(escrow) = 0
    BY <1>13, <2>2 DEF EscrowFees, MirrorTypeOK, RequestTypeOK
  <2>3. CASE EscrowTotal(escrow) # 0
    <3>1. /\ fees' = [fees EXCEPT ![m][id] = escrow]
          /\ feesReserved' = [feesReserved EXCEPT ![m][t] = @ + EscrowTotal(escrow)]
      BY <1>13, <2>3 DEF EscrowFees
    <3>2. fees' \in [Mirrors -> [Ids -> FeeEscrow]]
      BY <1>7, <1>12, <3>1 DEF MirrorTypeOK, RequestTypeOK
    <3>3. feesReserved' \in [Mirrors -> [Tokens -> Nat]]
      BY <1>2, <2>1, <3>1 DEF MirrorTypeOK, RequestTypeOK
    <3> QED
      BY <3>2, <3>3
  <2> QED
    BY <2>2, <2>3
<1> QED
  BY <1>17, <1>19, <1>20, <1>21

(* buy and sell.                                                           *)
LEMMA SubmitOpenType ==
  ASSUME MirrorTypeOK, NEW m \in Mirrors, NEW trade \in Trades, SubmitOpen(m, trade)
  PROVE  MirrorTypeOK'
<1>1. trade \in TradeType /\ Submit(m, trade, 0, 0, NoUser)
  BY RequestAssumption DEF SubmitOpen
<1>2. /\ WireTypeOK'
      /\ nextRequestId' \in [Mirrors -> Nat \ {0}]
      /\ requests' \in [Mirrors -> [Ids -> Request]]
      /\ fees' \in [Mirrors -> [Ids -> FeeEscrow]]
      /\ feesReserved' \in [Mirrors -> [Tokens -> Nat]]
  BY <1>1, SubmitType
<1>3. UNCHANGED <<feesClaimable, nonceUsed, partners, partnerRequired, platformFee>>
  BY <1>1 DEF SubmitOpen, Submit, adminVars
<1> QED
  BY <1>2, <1>3 DEF MirrorTypeOK, RequestTypeOK

(* buyVia and sellVia, on a signed authorisation.                          *)
LEMMA SubmitViaType ==
  ASSUME MirrorTypeOK, NEW auth \in Authorizations, SubmitVia(auth)
  PROVE  MirrorTypeOK'
<1> DEFINE recipient == partners[auth.m][auth.partner].recipient
<1>1. auth \in AuthorizationType
  BY RequestAssumption
<1>2. /\ auth.m \in Mirrors /\ auth.trade \in TradeType /\ auth.partner \in PartnerIds
      /\ auth.feeBps \in Nat /\ auth.nonce \in Nat
  BY <1>1 DEF AuthorizationType
<1>3. partners[auth.m][auth.partner] \in PartnerType
  BY <1>2 DEF MirrorTypeOK, RequestTypeOK
<1>4. recipient \in Recipients
  BY <1>3 DEF PartnerType
<1>5. Submit(auth.m, auth.trade, auth.partner, auth.feeBps, recipient)
  BY DEF SubmitVia
<1> HIDE DEF recipient
<1>6. /\ WireTypeOK'
      /\ nextRequestId' \in [Mirrors -> Nat \ {0}]
      /\ requests' \in [Mirrors -> [Ids -> Request]]
      /\ fees' \in [Mirrors -> [Ids -> FeeEscrow]]
      /\ feesReserved' \in [Mirrors -> [Tokens -> Nat]]
  BY <1>2, <1>4, <1>5, SubmitType
<1>7. UNCHANGED <<feesClaimable, partners, partnerRequired, platformFee>>
  BY <1>5 DEF Submit, adminVars
<1>8. nonceUsed' = [nonceUsed EXCEPT ![auth.m] = @ \cup {<<auth.partner, auth.nonce>>}]
  BY DEF SubmitVia, Authorize
<1>9. nonceUsed' \in [Mirrors -> SUBSET (PartnerIds \X Nat)]
  BY <1>2, <1>8 DEF MirrorTypeOK, RequestTypeOK
<1> QED
  BY <1>6, <1>7, <1>9 DEF MirrorTypeOK, RequestTypeOK

-----------------------------------------------------------------------------
(* SwapRequest: settlement.                                                *)

(* What the escrow and the request of an id contribute, by type.           *)
LEMMA EscrowTypes ==
  ASSUME MirrorTypeOK, NEW m \in Mirrors, NEW id \in Ids
  PROVE  /\ fees[m][id] \in FeeEscrow
         /\ fees[m][id].partnerFee \in Nat
         /\ fees[m][id].platformFee \in Nat
         /\ EscrowTotal(fees[m][id]) \in Nat
         /\ requests[m][id] \in Request
         /\ TokenIn(requests[m][id].dir) \in Tokens
         /\ \A s \in {"PAID", "RETURNED"} : [fees[m][id] EXCEPT !.state = s] \in FeeEscrow
<1>1. fees[m][id] \in FeeEscrow /\ requests[m][id] \in Request
  BY DEF MirrorTypeOK, RequestTypeOK
<1>2. fees[m][id].partnerFee \in Nat /\ fees[m][id].platformFee \in Nat
  BY <1>1 DEF FeeEscrow
<1>3. EscrowTotal(fees[m][id]) \in Nat
  BY <1>2 DEF EscrowTotal
<1>4. TokenIn(requests[m][id].dir) \in Tokens
  BY DEF TokenIn, Tokens
<1>5. \A s \in {"PAID", "RETURNED"} : [fees[m][id] EXCEPT !.state = s] \in FeeEscrow
  BY <1>1 DEF FeeEscrow
<1> QED
  BY <1>1, <1>2, <1>3, <1>4, <1>5

(* Crediting a fee to an account.                                          *)
LEMMA CreditType ==
  ASSUME NEW claim \in [FeeAccounts -> Nat], NEW a, NEW x \in Nat
  PROVE  Credit(claim, a, x) \in [FeeAccounts -> Nat]
<1>1. CASE a \in FeeAccounts
  BY <1>1 DEF Credit
<1>2. CASE a \notin FeeAccounts
  BY <1>2 DEF Credit
<1> QED
  BY <1>1, <1>2

(* Fees earned when an order fills.                                        *)
LEMMA EarnFeesType ==
  ASSUME MirrorTypeOK, NEW m \in Mirrors, NEW id \in Ids, EarnFees(m, id)
  PROVE  /\ fees' \in [Mirrors -> [Ids -> FeeEscrow]]
         /\ feesClaimable' \in [Mirrors -> [Tokens -> [FeeAccounts -> Nat]]]
         /\ feesReserved' \in [Mirrors -> [Tokens -> Nat]]
<1> DEFINE f == fees[m][id]
           t == TokenIn(requests[m][id].dir)
           toPartner == IF f.partnerFee > 0
                        THEN Credit(feesClaimable[m][t], f.partnerRecipient, f.partnerFee)
                        ELSE feesClaimable[m][t]
           toBoth == IF f.platformFee > 0
                     THEN Credit(toPartner, f.platformRecipient, f.platformFee)
                     ELSE toPartner
<1>1. feesClaimable[m][t] \in [FeeAccounts -> Nat]
  <2>1. feesClaimable \in [Mirrors -> [Tokens -> [FeeAccounts -> Nat]]]
    BY DEF MirrorTypeOK, RequestTypeOK
  <2>2. t \in Tokens
    BY EscrowTypes
  <2> HIDE DEF t
  <2> QED
    BY <2>1, <2>2
<1>2. toPartner \in [FeeAccounts -> Nat]
  BY <1>1, EscrowTypes, CreditType
<1>3. toBoth \in [FeeAccounts -> Nat]
  <2> HIDE DEF toPartner
  <2> QED
    BY <1>2, EscrowTypes, CreditType
<1>4. /\ UNCHANGED feesReserved
      /\ IF f.state # "ESCROWED"
         THEN UNCHANGED <<fees, feesClaimable>>
         ELSE /\ fees' = [fees EXCEPT ![m][id] = [f EXCEPT !.state = "PAID"]]
              /\ feesClaimable' = [feesClaimable EXCEPT ![m][t] = toBoth]
  BY DEF EarnFees
<1>5. [f EXCEPT !.state = "PAID"] \in FeeEscrow /\ t \in Tokens
  BY EscrowTypes
<1> HIDE DEF f, t, toPartner, toBoth
<1>6. CASE f.state # "ESCROWED"
  BY <1>4, <1>6 DEF MirrorTypeOK, RequestTypeOK
<1>7. CASE f.state = "ESCROWED"
  <2> DEFINE paid == [f EXCEPT !.state = "PAID"]
  <2>a. /\ fees' = [fees EXCEPT ![m][id] = paid]
        /\ feesClaimable' = [feesClaimable EXCEPT ![m][t] = toBoth]
    BY <1>4, <1>7
  <2>b. paid \in FeeEscrow
    BY <1>5
  <2> HIDE DEF paid
  <2>1. fees' \in [Mirrors -> [Ids -> FeeEscrow]]
    BY <2>a, <2>b DEF MirrorTypeOK, RequestTypeOK
  <2>2. feesClaimable' \in [Mirrors -> [Tokens -> [FeeAccounts -> Nat]]]
    BY <1>3, <1>5, <2>a DEF MirrorTypeOK, RequestTypeOK
  <2> QED
    BY <1>4, <2>1, <2>2 DEF MirrorTypeOK, RequestTypeOK
<1> QED
  BY <1>6, <1>7

(* held is the mirror's assets when the fees are returned.                 *)
LEMMA ReturnFeesType ==
  ASSUME MirrorTypeOK, NEW m \in Mirrors, NEW id \in Ids,
         NEW held \in [Tokens -> Token], NEW accepted \in BOOLEAN,
         ReturnFees(m, id, held, accepted)
  PROVE  /\ mirrorToken' \in [Mirrors -> [Tokens -> Token]]
         /\ fees' \in [Mirrors -> [Ids -> FeeEscrow]]
         /\ feesClaimable' \in [Mirrors -> [Tokens -> [FeeAccounts -> Nat]]]
         /\ feesReserved' \in [Mirrors -> [Tokens -> Nat]]
<1> DEFINE f == fees[m][id]
           u == requests[m][id].user
           t == TokenIn(requests[m][id].dir)
           total == EscrowTotal(f)
           paid == accepted /\ CanPay(held[t], Contract, total)
           returned == [f EXCEPT !.state = "RETURNED"]
           pay == Transfer(held[t], Contract, u, total)
           claim == Credit(feesClaimable[m][t], u, total)
<1>1. t \in Tokens /\ total \in Nat /\ returned \in FeeEscrow
  BY EscrowTypes
<1>2. held[t] \in Token /\ feesClaimable[m][t] \in [FeeAccounts -> Nat]
  BY <1>1 DEF MirrorTypeOK, RequestTypeOK
<1>3. claim \in [FeeAccounts -> Nat]
  BY <1>1, <1>2, CreditType
<1>4. CASE f.state # "ESCROWED"
  <2>1. /\ mirrorToken' = [mirrorToken EXCEPT ![m] = held]
        /\ UNCHANGED <<fees, feesClaimable, feesReserved>>
    BY <1>4 DEF ReturnFees
  <2> QED
    BY <2>1 DEF MirrorTypeOK, WireTypeOK, RequestTypeOK
<1>5. CASE f.state = "ESCROWED"
  <2>1. fees' = [fees EXCEPT ![m][id] = returned]
    BY <1>5 DEF ReturnFees
  <2>2. fees' \in [Mirrors -> [Ids -> FeeEscrow]]
    <3> HIDE DEF returned
    <3> QED
      BY <1>1, <2>1 DEF MirrorTypeOK, RequestTypeOK
  <2>3. CASE paid
    <3>1. /\ total <= feesReserved[m][t]
          /\ mirrorToken' = [mirrorToken EXCEPT ![m] = [held EXCEPT ![t] = pay]]
          /\ feesReserved' = [feesReserved EXCEPT ![m][t] = @ - total]
          /\ UNCHANGED feesClaimable
      BY <1>5, <2>3 DEF ReturnFees
    <3>2. pay \in Token
      BY <1>1, <1>2, <2>3, TransferType, NamedAccounts
    <3> HIDE DEF pay, total, t
    <3>3. [held EXCEPT ![t] = pay] \in [Tokens -> Token]
      BY <1>1, <3>2
    <3>4. mirrorToken' \in [Mirrors -> [Tokens -> Token]]
      BY <3>1, <3>3 DEF MirrorTypeOK, WireTypeOK
    <3>5. feesReserved' \in [Mirrors -> [Tokens -> Nat]]
      BY <1>1, <3>1 DEF MirrorTypeOK, RequestTypeOK
    <3> QED
      BY <2>2, <3>1, <3>4, <3>5 DEF MirrorTypeOK, RequestTypeOK
  <2>4. CASE ~paid
    <3>1. /\ mirrorToken' = [mirrorToken EXCEPT ![m] = held]
          /\ feesClaimable' = [feesClaimable EXCEPT ![m][t] = claim]
          /\ UNCHANGED feesReserved
      BY <1>5, <2>4 DEF ReturnFees
    <3> HIDE DEF claim, t
    <3>2. mirrorToken' \in [Mirrors -> [Tokens -> Token]]
      BY <3>1 DEF MirrorTypeOK, WireTypeOK
    <3>3. feesClaimable' \in [Mirrors -> [Tokens -> [FeeAccounts -> Nat]]]
      BY <1>1, <1>3, <3>1 DEF MirrorTypeOK, RequestTypeOK
    <3> QED
      BY <2>2, <3>1, <3>2, <3>3 DEF MirrorTypeOK, RequestTypeOK
  <2> QED
    BY <2>3, <2>4
<1> QED
  BY <1>4, <1>5

(* What any lzCompose leaves alone or takes off the queue.                 *)
LEMMA ComposeType ==
  ASSUME MirrorTypeOK, NEW p \in composing, Compose(p)
  PROVE  /\ p.m \in Mirrors /\ p.t \in Tokens /\ p.id \in Ids /\ p.sd \in Nat
         /\ PaidOut(p) \in [Tokens -> Token]
         /\ composing' \subseteq ReturnPacket
         /\ UNCHANGED <<outNonce, orders, returns, backNonce, notices, noticeNonce>>
         /\ UNCHANGED <<nextRequestId, nonceUsed, partners, partnerRequired, platformFee>>
<1> DEFINE k == mirrorToken[p.m][p.t]
           u == requests[p.m][p.id].user
           amount == ToLocal(p.sd, MirrorQuantum[p.m][p.t])
           after == Transfer(k, Contract, u, amount)
<1>1. p.m \in Mirrors /\ p.t \in Tokens /\ p.id \in Ids /\ p.sd \in Nat
  BY DEF MirrorTypeOK, WireTypeOK, ReturnPacket
<1>2. k \in Token /\ amount \in Nat /\ CanPay(k, Contract, amount)
  BY <1>1, MirrorWorth DEF MirrorTypeOK, WireTypeOK, Compose
<1>3. after \in Token
  BY <1>2, TransferType, NamedAccounts
<1>4. PaidOut(p) = [mirrorToken[p.m] EXCEPT ![p.t] = after]
  BY DEF PaidOut
<1>5. PaidOut(p) \in [Tokens -> Token]
  <2> HIDE DEF after
  <2> QED
    BY <1>1, <1>3, <1>4 DEF MirrorTypeOK, WireTypeOK
<1> QED
  BY <1>1, <1>5 DEF Compose, MirrorTypeOK, WireTypeOK, adminVars

(* lzCompose on the mirror: filled, refunded or late.                      *)
LEMMA SettleType ==
  ASSUME MirrorTypeOK, NEW p \in composing, Settle(p)
  PROVE  MirrorTypeOK'
<1> DEFINE r == requests[p.m][p.id]
<1>0. Compose(p)
  BY DEF Settle, ComposeFill, ComposeRefund, ComposeLate
<1>1. /\ p.m \in Mirrors /\ p.t \in Tokens /\ p.id \in Ids /\ p.sd \in Nat
      /\ PaidOut(p) \in [Tokens -> Token]
      /\ composing' \subseteq ReturnPacket
      /\ UNCHANGED <<outNonce, orders, returns, backNonce, notices, noticeNonce>>
      /\ UNCHANGED <<nextRequestId, nonceUsed, partners, partnerRequired, platformFee>>
  BY <1>0, ComposeType
<1>2. r \in Request
  BY <1>1, EscrowTypes
<1>3. CASE ComposeFill(p)
  <2> DEFINE filled == [r EXCEPT !.status = "FILLED",
                                 !.amountOut = ToLocal(p.sd, MirrorQuantum[p.m][p.t])]
  <2>1. filled \in Request
    <3>1. ToLocal(p.sd, MirrorQuantum[p.m][p.t]) \in Nat
      BY <1>1, MirrorWorth
    <3> QED
      BY <1>2, <3>1 DEF Request, Status
  <2>2. /\ requests' = [requests EXCEPT ![p.m][p.id] = filled]
        /\ mirrorToken' = [mirrorToken EXCEPT ![p.m] = PaidOut(p)]
        /\ EarnFees(p.m, p.id)
    BY <1>3 DEF ComposeFill
  <2> HIDE DEF filled
  <2>3. requests' \in [Mirrors -> [Ids -> Request]]
    BY <1>1, <2>1, <2>2 DEF MirrorTypeOK, RequestTypeOK
  <2>4. mirrorToken' \in [Mirrors -> [Tokens -> Token]]
    BY <1>1, <2>2 DEF MirrorTypeOK, WireTypeOK
  <2>5. /\ fees' \in [Mirrors -> [Ids -> FeeEscrow]]
        /\ feesClaimable' \in [Mirrors -> [Tokens -> [FeeAccounts -> Nat]]]
        /\ feesReserved' \in [Mirrors -> [Tokens -> Nat]]
    BY <1>1, <2>2, EarnFeesType
  <2> QED
    BY <1>1, <2>3, <2>4, <2>5 DEF MirrorTypeOK, WireTypeOK, RequestTypeOK
<1>4. ASSUME NEW accepted \in TokenAccepts, ComposeRefund(p, accepted)
      PROVE  MirrorTypeOK'
  <2> DEFINE refunded == [r EXCEPT !.status = "REFUNDED"]
  <2>1. refunded \in Request
    BY <1>2 DEF Request, Status
  <2>2. /\ requests' = [requests EXCEPT ![p.m][p.id] = refunded]
        /\ ReturnFees(p.m, p.id, PaidOut(p), accepted)
    BY <1>4 DEF ComposeRefund
  <2> HIDE DEF refunded
  <2>3. requests' \in [Mirrors -> [Ids -> Request]]
    BY <1>1, <2>1, <2>2 DEF MirrorTypeOK, RequestTypeOK
  <2>4. /\ mirrorToken' \in [Mirrors -> [Tokens -> Token]]
        /\ fees' \in [Mirrors -> [Ids -> FeeEscrow]]
        /\ feesClaimable' \in [Mirrors -> [Tokens -> [FeeAccounts -> Nat]]]
        /\ feesReserved' \in [Mirrors -> [Tokens -> Nat]]
    BY <1>1, <2>2, ReturnFeesType, RequestAssumption
  <2> QED
    BY <1>1, <2>3, <2>4 DEF MirrorTypeOK, WireTypeOK, RequestTypeOK
<1>5. CASE ComposeLate(p)
  <2>1. mirrorToken' \in [Mirrors -> [Tokens -> Token]]
    BY <1>1, <1>5 DEF ComposeLate, MirrorTypeOK, WireTypeOK
  <2>2. UNCHANGED <<requests, fees, feesClaimable, feesReserved>>
    BY <1>5 DEF ComposeLate
  <2> QED
    BY <1>1, <2>1, <2>2 DEF MirrorTypeOK, WireTypeOK, RequestTypeOK
<1> QED
  BY <1>3, <1>4, <1>5 DEF Settle

(* _lzReceive on the mirror: stranded, cancelled or ignored.               *)
LEMMA HearNoticeType ==
  ASSUME MirrorTypeOK, NEW n \in notices, HearNotice(n)
  PROVE  MirrorTypeOK'
<1>1. n.m \in Mirrors
  BY DEF MirrorTypeOK, WireTypeOK, Notice
<1>2. ReceiveNotice(n)
  BY DEF HearNotice, NoticeStranded, NoticeCancelled, NoticeIgnored
<1>3. /\ notices' \subseteq Notice
      /\ UNCHANGED <<outNonce, orders, returns, backNonce, composing, noticeNonce>>
      /\ UNCHANGED <<nextRequestId, nonceUsed, partners, partnerRequired, platformFee>>
  BY <1>2 DEF ReceiveNotice, MirrorTypeOK, WireTypeOK, adminVars
<1>4. ASSUME NEW id \in Ids, NEW accepted \in TokenAccepts,
             NEW held \in [Tokens -> Token], NEW status \in Status,
             requests' = [requests EXCEPT ![n.m][id].status = status],
             ReturnFees(n.m, id, held, accepted)
      PROVE  MirrorTypeOK'
  <2> DEFINE closed == [requests[n.m][id] EXCEPT !.status = status]
  <2>1. closed \in Request
    BY <1>1, EscrowTypes DEF Request
  <2>2. requests' = [requests EXCEPT ![n.m][id] = closed]
    BY <1>4
  <2> HIDE DEF closed
  <2>3. requests' \in [Mirrors -> [Ids -> Request]]
    BY <1>1, <2>1, <2>2 DEF MirrorTypeOK, RequestTypeOK
  <2>4. /\ mirrorToken' \in [Mirrors -> [Tokens -> Token]]
        /\ fees' \in [Mirrors -> [Ids -> FeeEscrow]]
        /\ feesClaimable' \in [Mirrors -> [Tokens -> [FeeAccounts -> Nat]]]
        /\ feesReserved' \in [Mirrors -> [Tokens -> Nat]]
    BY <1>1, <1>4, ReturnFeesType, RequestAssumption
  <2> QED
    BY <1>3, <2>3, <2>4 DEF MirrorTypeOK, WireTypeOK, RequestTypeOK
<1>5. ASSUME NEW id \in Ids, NEW accepted \in TokenAccepts,
             NoticeStranded(n, id, accepted)
      PROVE  MirrorTypeOK'
  <2>1. mirrorToken[n.m] \in [Tokens -> Token]
    BY <1>1 DEF MirrorTypeOK, WireTypeOK
  <2> QED
    BY <1>4, <1>5, <2>1 DEF NoticeStranded, Status
<1>6. ASSUME NEW id \in Ids, NEW accepted \in TokenAccepts,
             NoticeCancelled(n, id, accepted)
      PROVE  MirrorTypeOK'
  <2> DEFINE r == requests[n.m][id]
             t == TokenIn(r.dir)
             credited == RecoveryCredit(mirrorToken[n.m][t], r.user, r.amountIn)
             restored == [mirrorToken[n.m] EXCEPT ![t] = credited]
  <2>1. t \in Tokens /\ r \in Request /\ mirrorToken[n.m][t] \in Token
    BY <1>1, EscrowTypes DEF MirrorTypeOK, WireTypeOK
  <2>2. credited \in Token
    BY <2>1, MintType DEF Request, RecoveryCredit
  <2>3. restored \in [Tokens -> Token]
    <3> HIDE DEF credited
    <3> QED
      BY <1>1, <2>2 DEF MirrorTypeOK, WireTypeOK
  <2>4. /\ requests' = [requests EXCEPT ![n.m][id].status = "CANCELLED"]
        /\ ReturnFees(n.m, id, restored, accepted)
    BY <1>6 DEF NoticeCancelled
  <2> QED
    BY <1>4, <2>3, <2>4 DEF Status
<1>7. CASE NoticeIgnored(n)
  BY <1>3, <1>7 DEF NoticeIgnored, MirrorTypeOK, WireTypeOK, RequestTypeOK
<1> QED
  BY <1>5, <1>6, <1>7 DEF HearNotice

-----------------------------------------------------------------------------
(* SwapRequest: claims and the owner's calls.                              *)

(* A payment out of the contract, or into it, in one asset.                *)
LEMMA PaymentType ==
  ASSUME MirrorTypeOK, NEW m \in Mirrors, NEW t \in Tokens, NEW a \in Accounts, NEW b,
         NEW x \in Nat, CanPay(mirrorToken[m][t], a, x),
         mirrorToken' = [mirrorToken EXCEPT ![m][t] = Transfer(@, a, b, x)]
  PROVE  mirrorToken' \in [Mirrors -> [Tokens -> Token]]
<1>1. mirrorToken[m][t] \in Token
  BY DEF MirrorTypeOK, WireTypeOK
<1>2. Transfer(mirrorToken[m][t], a, b, x) \in Token
  BY <1>1, TransferType
<1> QED
  BY <1>2, MirrorTokenType DEF MirrorTypeOK

(* claimFees: the reserve covers what is claimed.                          *)
LEMMA ClaimFeesType ==
  ASSUME MirrorTypeOK, NEW m \in Mirrors, NEW t \in Tokens, NEW a \in FeeAccounts,
         ClaimFees(m, t, a)
  PROVE  MirrorTypeOK'
<1> DEFINE amount == feesClaimable[m][t][a]
<1>1. amount \in Nat /\ feesReserved[m][t] \in Nat
  BY DEF MirrorTypeOK, RequestTypeOK
<1>2. /\ amount <= feesReserved[m][t]
      /\ CanPay(mirrorToken[m][t], Contract, amount)
      /\ feesClaimable' = [feesClaimable EXCEPT ![m][t][a] = 0]
      /\ feesReserved' = [feesReserved EXCEPT ![m][t] = @ - amount]
      /\ mirrorToken' = [mirrorToken EXCEPT ![m][t] = Transfer(@, Contract, a, amount)]
  BY DEF ClaimFees
<1> HIDE DEF amount
<1>3. feesReserved' \in [Mirrors -> [Tokens -> Nat]]
  BY <1>1, <1>2 DEF MirrorTypeOK, RequestTypeOK
<1>4. feesClaimable' \in [Mirrors -> [Tokens -> [FeeAccounts -> Nat]]]
  BY <1>2 DEF MirrorTypeOK, RequestTypeOK
<1>5. mirrorToken' \in [Mirrors -> [Tokens -> Token]]
  BY <1>1, <1>2, PaymentType, NamedAccounts
<1> QED
  BY <1>3, <1>4, <1>5 DEF ClaimFees, MirrorTypeOK, WireTypeOK, RequestTypeOK, adminVars

(* sweep: only what is above the reserve.                                  *)
LEMMA SweepType ==
  ASSUME MirrorTypeOK, NEW m \in Mirrors, NEW t \in Tokens, NEW x \in SweepAmounts,
         Sweep(m, t, x)
  PROVE  MirrorTypeOK'
<1>1. x \in Nat /\ mirrorToken[m][t] \in Token /\ feesReserved[m][t] \in Nat
  BY RequestAssumption DEF MirrorTypeOK, WireTypeOK, RequestTypeOK
<1>2. mirrorToken[m][t].bal[Contract] \in Nat
  BY <1>1, NamedAccounts DEF Token
<1>3. CanPay(mirrorToken[m][t], Contract, x)
  BY <1>1, <1>2 DEF Sweep, Sweepable, CanPay
<1>4. mirrorToken' \in [Mirrors -> [Tokens -> Token]]
  BY <1>1, <1>3, PaymentType, NamedAccounts DEF Sweep
<1> QED
  BY <1>4 DEF Sweep, requestVars, MirrorTypeOK, WireTypeOK, RequestTypeOK

(* Tokens sent to the contract by mistake.                                 *)
LEMMA SendStrayType ==
  ASSUME MirrorTypeOK, NEW m \in Mirrors, NEW t \in Tokens, NEW u \in Users,
         NEW x \in StrayAmounts, SendStray(m, t, u, x)
  PROVE  MirrorTypeOK'
<1>1. x \in Nat
  BY RequestAssumption
<1>2. mirrorToken' \in [Mirrors -> [Tokens -> Token]]
  BY <1>1, PaymentType, NamedAccounts DEF SendStray
<1> QED
  BY <1>2 DEF SendStray, requestVars, MirrorTypeOK, WireTypeOK, RequestTypeOK

(* Claims and the owner's calls together.                                  *)
LEMMA AdministeringType ==
  ASSUME MirrorTypeOK, Administering
  PROVE  MirrorTypeOK'
<1>1. ASSUME NEW m \in Mirrors, NEW id \in PartnerIds, NEW terms \in PartnerTerms,
             SetPartner(m, id, terms)
      PROVE  MirrorTypeOK'
  <2>1. terms \in PartnerType
    BY RequestAssumption
  <2>2. partners' \in [Mirrors -> [PartnerIds -> PartnerType]]
    BY <1>1, <2>1 DEF SetPartner, MirrorTypeOK, RequestTypeOK
  <2> QED
    BY <1>1, <2>2 DEF SetPartner, wireVars, ledgerVars, MirrorTypeOK, WireTypeOK, RequestTypeOK
<1>2. ASSUME NEW m \in Mirrors, NEW required \in PartnerOnly,
             SetPartnerRequired(m, required)
      PROVE  MirrorTypeOK'
  <2>1. partnerRequired' \in [Mirrors -> BOOLEAN]
    BY <1>2, RequestAssumption DEF SetPartnerRequired, MirrorTypeOK, RequestTypeOK
  <2> QED
    BY <1>2, <2>1 DEF SetPartnerRequired, wireVars, ledgerVars, MirrorTypeOK, WireTypeOK,
                      RequestTypeOK
<1>3. ASSUME NEW m \in Mirrors, NEW terms \in PlatformTerms, SetPlatformFee(m, terms)
      PROVE  MirrorTypeOK'
  <2>1. terms \in PlatformType
    BY RequestAssumption
  <2>2. platformFee' \in [Mirrors -> PlatformType]
    BY <1>3, <2>1 DEF SetPlatformFee, MirrorTypeOK, RequestTypeOK
  <2> QED
    BY <1>3, <2>2 DEF SetPlatformFee, wireVars, ledgerVars, MirrorTypeOK, WireTypeOK,
                      RequestTypeOK
<1>4. ASSUME NEW m \in Mirrors, NEW n \in InvalidatedNonces, InvalidateNonce(m, n[1], n[2])
      PROVE  MirrorTypeOK'
  <2>1. n[1] \in PartnerIds /\ n[2] \in Nat
    BY RequestAssumption
  <2>2. nonceUsed' \in [Mirrors -> SUBSET (PartnerIds \X Nat)]
    BY <1>4, <2>1 DEF InvalidateNonce, MirrorTypeOK, RequestTypeOK
  <2> QED
    BY <1>4, <2>2 DEF InvalidateNonce, wireVars, ledgerVars, adminVars, MirrorTypeOK,
                      WireTypeOK, RequestTypeOK
<1> QED
  BY <1>1, <1>2, <1>3, <1>4, ClaimFeesType, SweepType, SendStrayType DEF Administering

(* Every transaction on a mirror keeps the mirrors' types.                 *)
LEMMA MirrorNextType ==
  ASSUME MirrorTypeOK, MirrorNext
  PROVE  MirrorTypeOK'
<1>1. CASE Bridging
  <2>1. WireTypeOK' /\ UNCHANGED requestVars
    BY <1>1, DirectSendType, ReceiveReturnType DEF Bridging, MirrorTypeOK
  <2> QED
    BY <2>1 DEF MirrorTypeOK, RequestTypeOK, requestVars
<1>2. CASE Ordering
  BY <1>2, SubmitOpenType, SubmitViaType DEF Ordering
<1>3. CASE Settling
  BY <1>3, SettleType, HearNoticeType DEF Settling
<1>4. CASE Administering
  BY <1>4, AdministeringType
<1> QED
  BY <1>1, <1>2, <1>3, <1>4 DEF MirrorNext

-----------------------------------------------------------------------------
(* The initial states: finitely many users and mirrors hold finitely much. *)

(* Every initial state of the mirrors is well typed.                       *)
LEMMA MirrorInitType ==
  ASSUME MirrorInit
  PROVE  MirrorTypeOK
<1>1. Cardinality(Users) \in Nat
  BY WireAssumption, FS_CardinalityType
<1>2. \A m \in Mirrors, t \in Tokens :
        /\ ToLocal(MirrorFloat[t], MirrorQuantum[m][t]) \in Nat
        /\ Cardinality(Users) * ToLocal(MirrorFloat[t], MirrorQuantum[m][t]) \in Nat
  <2> TAKE m \in Mirrors, t \in Tokens
  <2>1. ToLocal(MirrorFloat[t], MirrorQuantum[m][t]) \in Nat
    BY WireAssumption, AmountTypes
  <2> QED
    BY <1>1, <2>1, ProductNat
<1>3. WireTypeOK
  <2>1. \A m \in Mirrors, t \in Tokens :
          [bal |-> [a \in Accounts |->
                      IF a \in Users
                      THEN ToLocal(MirrorFloat[t], MirrorQuantum[m][t])
                      ELSE 0],
           out |-> 0,
           in  |-> Cardinality(Users)
                     * ToLocal(MirrorFloat[t], MirrorQuantum[m][t])] \in Token
    BY <1>2 DEF Token
  <2>2. mirrorToken \in [Mirrors -> [Tokens -> Token]]
    BY <2>1 DEF MirrorInit, WireInit
  <2> QED
    BY <2>2 DEF MirrorInit, WireInit, WireTypeOK
<1>4. RequestTypeOK
  <2>1. EmptyRequest \in Request
    BY DEF EmptyRequest, Request, Direction, Status
  <2>2. EmptyEscrow \in FeeEscrow
    BY DEF EmptyEscrow, FeeEscrow
  <2> QED
    BY <2>1, <2>2, RequestAssumption DEF MirrorInit, RequestInit, RequestTypeOK
<1> QED
  BY <1>3, <1>4 DEF MirrorTypeOK

-----------------------------------------------------------------------------
(* The supply of an asset on a chain.                                      *)

Total(k) == SumFunctionOnSet(k.bal, Accounts)

(* Between k and l, `out` of the asset has left the chain, `in` arrived.   *)
Flows(k, l, out, in) ==
  /\ l \in Token
  /\ l.out = k.out + out /\ l.in = k.in + in
  /\ Total(l) + out = Total(k) + in

LEMMA AccountsFinite == IsFiniteSet(Accounts)
<1>1. IsFiniteSet({Contract, World, Vault})
  <2>1. IsFiniteSet({Contract} \cup {World} \cup {Vault})
    BY FS_Singleton, FS_Union
  <2>2. {Contract} \cup {World} \cup {Vault} = {Contract, World, Vault}
    OBVIOUS
  <2> QED
    BY <2>1, <2>2
<1> QED
  BY <1>1, WireAssumption, FS_Union DEF Accounts

LEMMA TotalIsNat ==
  ASSUME NEW k \in Token
  PROVE  Total(k) \in Nat /\ k.out \in Nat /\ k.in \in Nat
BY AccountsFinite, SumIsNat DEF Total, Token

(* Nothing happens.                                                        *)
LEMMA FlowsAtRest ==
  ASSUME NEW k \in Token
  PROVE  Flows(k, k, 0, 0)
BY TotalIsNat DEF Flows

(* One flow after another.                                                 *)
LEMMA FlowsThrough ==
  ASSUME NEW k \in Token, NEW l, NEW n, NEW a \in Nat, NEW b \in Nat, NEW c \in Nat, NEW d \in Nat,
         Flows(k, l, a, b), Flows(l, n, c, d)
  PROVE  Flows(k, n, a + c, b + d)
<1>1. l \in Token /\ n \in Token
  BY DEF Flows
<1>2. /\ Total(k) \in Nat /\ Total(l) \in Nat /\ Total(n) \in Nat
      /\ k.out \in Nat /\ k.in \in Nat /\ l.out \in Nat /\ l.in \in Nat
  BY <1>1, TotalIsNat
<1>3. n.out = k.out + (a + c) /\ n.in = k.in + (b + d)
  BY <1>2 DEF Flows
<1>4. Total(n) + (a + c) = Total(k) + (b + d)
  BY <1>2 DEF Flows
<1> QED
  BY <1>1, <1>3, <1>4 DEF Flows

(* A transfer keeps the supply.                                            *)
LEMMA TransferFlows ==
  ASSUME NEW k \in Token, NEW a \in Accounts, NEW b \in Accounts, NEW x \in Nat, CanPay(k, a, x)
  PROVE  Flows(k, Transfer(k, a, b, x), 0, 0)
<1>1. PICK l \in Token : l = Transfer(k, a, b, x)
  BY TransferType
<1>2. l.out = k.out /\ l.in = k.in
  BY <1>1 DEF Transfer, Token
<1>3. Total(l) = Total(k)
  <2>1. CASE a = b
    <3>1. \A c \in Accounts : l.bal[c] = k.bal[c]
      BY <1>1, <2>1, TransferToSelf
    <3> QED
      BY <3>1, AccountsFinite, SumOfSame DEF Total
  <2>2. CASE a # b
    <3>1. /\ l.bal[a] = k.bal[a] - x /\ l.bal[b] = k.bal[b] + x
          /\ \A c \in Accounts \ {a, b} : l.bal[c] = k.bal[c]
      BY <1>1, <2>2, TransferMoves
    <3> DEFINE less == [k.bal EXCEPT ![a] = k.bal[a] - x]
    <3>2. PICK f : f = less
      OBVIOUS
    <3> HIDE DEF less
    <3>3. /\ f[a] = k.bal[a] - x /\ f[a] \in Nat
          /\ \A c \in Accounts : c # a => f[c] = k.bal[c]
          /\ \A c \in Accounts : k.bal[c] \in Nat /\ f[c] \in Nat /\ l.bal[c] \in Nat
      BY <3>2 DEF less, Token, CanPay
    <3>4. /\ SumFunctionOnSet(k.bal, Accounts) \in Nat /\ SumFunctionOnSet(f, Accounts) \in Nat
          /\ SumFunctionOnSet(f, Accounts) = SumFunctionOnSet(k.bal, Accounts) - k.bal[a] + f[a]
      BY <3>3, AccountsFinite, SumChanges
    <3>5. \A c \in Accounts : c # b => l.bal[c] = f[c]
      BY <3>1, <3>3
    <3>6. SumFunctionOnSet(l.bal, Accounts) = SumFunctionOnSet(f, Accounts) - f[b] + l.bal[b]
      BY <3>3, <3>5, AccountsFinite, SumChanges
    <3>7. f[b] = k.bal[b] /\ f[b] \in Nat /\ k.bal[a] \in Nat
      BY <2>2, <3>3
    <3> QED
      BY <3>1, <3>3, <3>4, <3>6, <3>7 DEF Total
  <2> QED
    BY <2>1, <2>2
<1>4. Total(k) \in Nat /\ k.out \in Nat /\ k.in \in Nat
  BY TotalIsNat
<1> QED
  BY <1>1, <1>2, <1>3, <1>4 DEF Flows

(* A burn takes out of it.                                                 *)
LEMMA BurnFlows ==
  ASSUME NEW k \in Token, NEW a \in Accounts, NEW x \in Nat, CanPay(k, a, x)
  PROVE  Flows(k, Burn(k, a, x), x, 0)
<1>1. PICK l \in Token : l = Burn(k, a, x)
  BY BurnType
<1>2. /\ l.bal[a] = k.bal[a] - x /\ \A c \in Accounts \ {a} : l.bal[c] = k.bal[c]
      /\ l.out = k.out + x /\ l.in = k.in
      /\ \A c \in Accounts : k.bal[c] \in Nat
  BY <1>1, BurnMoves
<1>3. \A c \in Accounts : l.bal[c] \in Nat
  BY <1>1 DEF Token
<1>4. /\ SumFunctionOnSet(k.bal, Accounts) \in Nat
      /\ SumFunctionOnSet(l.bal, Accounts) = SumFunctionOnSet(k.bal, Accounts) - k.bal[a] + l.bal[a]
  BY <1>2, <1>3, AccountsFinite, SumChanges
<1>5. Total(l) + x = Total(k)
  BY <1>2, <1>4 DEF Total
<1> QED
  BY <1>1, <1>2, <1>5, TotalIsNat DEF Flows

(* A mint adds to it.                                                      *)
LEMMA MintFlows ==
  ASSUME NEW k \in Token, NEW a \in Accounts, NEW x \in Nat
  PROVE  Flows(k, Mint(k, a, x), 0, x)
<1>1. PICK l \in Token : l = Mint(k, a, x)
  BY MintType
<1>2. /\ l.bal[a] = k.bal[a] + x /\ \A c \in Accounts \ {a} : l.bal[c] = k.bal[c]
      /\ l.out = k.out /\ l.in = k.in + x
      /\ \A c \in Accounts : k.bal[c] \in Nat
  BY <1>1, MintMoves
<1>3. \A c \in Accounts : l.bal[c] \in Nat
  BY <1>1 DEF Token
<1>4. /\ SumFunctionOnSet(k.bal, Accounts) \in Nat
      /\ SumFunctionOnSet(l.bal, Accounts) = SumFunctionOnSet(k.bal, Accounts) - k.bal[a] + l.bal[a]
  BY <1>2, <1>3, AccountsFinite, SumChanges
<1>5. Total(l) = Total(k) + x
  BY <1>2, <1>4 DEF Total
<1> QED
  BY <1>1, <1>2, <1>5, TotalIsNat DEF Flows

(* A gross input pulled, what is bridged of it burned, the rest handed back.*)
LEMMA SubmittedFlows ==
  ASSUME NEW k \in Token, NEW u \in Users, NEW gross \in Nat, NEW net \in Nat,
         NEW sent \in Nat, CanPay(k, u, gross), net <= gross, sent <= net
  PROVE  Flows(k, Transfer(Burn(Transfer(k, u, Contract, gross), Contract, sent),
                           Contract, u, net - sent), sent, 0)
<1>1. u \in Accounts /\ Contract \in Accounts /\ u # Contract
  BY NamedAccounts, ContractApart
<1>2. PICK l : l = Transfer(k, u, Contract, gross)
  OBVIOUS
<1>3. l \in Token /\ Flows(k, l, 0, 0) /\ l.bal[Contract] = k.bal[Contract] + gross
      /\ k.bal[Contract] \in Nat
  BY <1>1, <1>2, TransferType, TransferFlows, TransferMoves
<1>4. CanPay(l, Contract, sent)
  BY <1>3 DEF CanPay
<1>5. PICK n : n = Burn(l, Contract, sent)
  OBVIOUS
<1>6. n \in Token /\ Flows(l, n, sent, 0) /\ n.bal[Contract] = l.bal[Contract] - sent
  BY <1>1, <1>3, <1>4, <1>5, BurnType, BurnFlows, BurnMoves
<1>7. net - sent \in Nat /\ CanPay(n, Contract, net - sent)
  BY <1>3, <1>6 DEF CanPay
<1>8. Flows(n, Transfer(n, Contract, u, net - sent), 0, 0)
  BY <1>1, <1>6, <1>7, TransferFlows
<1>9. Flows(k, n, 0 + sent, 0 + 0)
  BY <1>3, <1>6, FlowsThrough
<1>10. Flows(k, Transfer(n, Contract, u, net - sent), (0 + sent) + 0, (0 + 0) + 0)
  BY <1>6, <1>8, <1>9, FlowsThrough
<1>11. (0 + sent) + 0 = sent /\ (0 + 0) + 0 = 0
  OBVIOUS
<1> QED
  BY <1>2, <1>5, <1>10, <1>11

-----------------------------------------------------------------------------
(* Fees, as they are taken.                                                *)

(***************************************************************************)
(* An order is taken: the contract keeps its fees and nothing else of it.  *)
(***************************************************************************)
LEMMA SubmissionKeepsFees ==
  ASSUME NEW k \in Token, NEW u \in Users, NEW gross \in Nat, NEW net \in Nat,
         NEW sent \in Nat, CanPay(k, u, gross), net <= gross, sent <= net
  PROVE  LET after == Transfer(Burn(Transfer(k, u, Contract, gross), Contract, sent),
                               Contract, u, net - sent) IN
         /\ after.bal[Contract] = k.bal[Contract] + (gross - net)
         /\ after.bal[u] = k.bal[u] - gross + (net - sent)
         /\ \A c \in Accounts \ {u, Contract} : after.bal[c] = k.bal[c]
         /\ after.out = k.out + sent
         /\ after.in = k.in
<1> DEFINE pulled == Transfer(k, u, Contract, gross)
           burned == Burn(pulled, Contract, sent)
           after  == Transfer(burned, Contract, u, net - sent)
<1>0. u # Contract /\ u \in Accounts /\ Contract \in Accounts
  BY ContractApart, NamedAccounts
<1>1. pulled \in Token
  BY <1>0, TransferType
<1>2. /\ pulled.bal[u] = k.bal[u] - gross
      /\ pulled.bal[Contract] = k.bal[Contract] + gross
      /\ \A c \in Accounts \ {u, Contract} : pulled.bal[c] = k.bal[c]
      /\ pulled.out = k.out /\ pulled.in = k.in
      /\ \A c \in Accounts : k.bal[c] \in Nat
  BY <1>0, TransferMoves
<1> HIDE DEF pulled
<1>3. CanPay(pulled, Contract, sent)
  BY <1>0, <1>2 DEF CanPay
<1>4. burned \in Token
  BY <1>0, <1>1, <1>3, BurnType
<1>5. /\ burned.bal[Contract] = pulled.bal[Contract] - sent
      /\ \A c \in Accounts \ {Contract} : burned.bal[c] = pulled.bal[c]
      /\ burned.out = pulled.out + sent /\ burned.in = pulled.in
  BY <1>0, <1>1, BurnMoves
<1> HIDE DEF burned
<1>6. net - sent \in Nat
  OBVIOUS
<1>7. /\ after.bal[Contract] = burned.bal[Contract] - (net - sent)
      /\ after.bal[u] = burned.bal[u] + (net - sent)
      /\ \A c \in Accounts \ {Contract, u} : after.bal[c] = burned.bal[c]
      /\ after.out = burned.out /\ after.in = burned.in
  BY <1>0, <1>4, <1>6, TransferMoves
<1> HIDE DEF after
<1>8. /\ after.bal[Contract] = k.bal[Contract] + (gross - net)
      /\ after.bal[u] = k.bal[u] - gross + (net - sent)
  BY <1>0, <1>2, <1>5, <1>7
<1>9. \A c \in Accounts \ {u, Contract} : after.bal[c] = k.bal[c]
  BY <1>2, <1>5, <1>7
<1>10. after.out = k.out + sent /\ after.in = k.in
  BY <1>2, <1>5, <1>7
<1> QED
  BY <1>8, <1>9, <1>10 DEF after, burned, pulled

-----------------------------------------------------------------------------
(* What a mirror's tables say of orders.                                   *)

Recorded(f) ==
  /\ f.platformRecipient \in Recipients
  /\ f.partnerFee > 0 => f.partnerRecipient \in Recipients

(* Ids not given out are unwritten.                                        *)
TakenInOrder ==
  \A m \in Mirrors, i \in Ids : i >= nextRequestId[m] =>
    requests[m][i] = EmptyRequest /\ fees[m][i] = EmptyEscrow

(* What an escrow holds is due to somebody; a pending order's fees are not *)
(* released.                                                               *)
EscrowsRecorded ==
  \A m \in Mirrors, i \in Ids :
    /\ IF requests[m][i].status = "NONE"
       THEN requests[m][i] = EmptyRequest /\ fees[m][i] = EmptyEscrow
       ELSE requests[m][i].user \in Users
    /\ fees[m][i].state = "NONE" => fees[m][i] = EmptyEscrow
    /\ fees[m][i].state = "ESCROWED" => Recorded(fees[m][i])
    /\ requests[m][i].status = "PENDING" => fees[m][i].state \in {"NONE", "ESCROWED"}

MirrorInv == MirrorTypeOK /\ TakenInOrder /\ EscrowsRecorded

-----------------------------------------------------------------------------
(* What steps do to the tables.                                            *)

(* An order is taken: r is recorded, f escrowed, p sent.                   *)
Takes(m, r, f, p) ==
  LET i == nextRequestId[m]
      t == TokenIn(r.dir)
  IN
  /\ i \in Ids
  /\ r.status = "PENDING" /\ r.user \in Users
  /\ f = EmptyEscrow \/ (f.state = "ESCROWED" /\ Recorded(f))
  /\ p.m = m /\ p.t = t /\ p.id = i /\ p.sd > 0
  /\ ToLocal(p.sd, MirrorQuantum[m][t]) = r.amountIn
  /\ nextRequestId' = [nextRequestId EXCEPT ![m] = i + 1]
  /\ requests' = [requests EXCEPT ![m][i] = r]
  /\ fees' = [fees EXCEPT ![m][i] = f]
  /\ feesReserved' = [feesReserved EXCEPT ![m][t] = @ + EscrowTotal(f)]
  /\ orders' = orders \cup {p}
  /\ \E k \in Token :
       /\ k.bal[Contract] = mirrorToken[m][t].bal[Contract] + EscrowTotal(f)
       /\ Flows(mirrorToken[m][t], k, r.amountIn, 0)
       /\ mirrorToken' = [mirrorToken EXCEPT ![m][t] = k]
  /\ UNCHANGED <<feesClaimable, returns, backNonce, composing, notices>>

(* A pending order is closed.                                              *)
Closes(m, i, s) ==
  /\ requests[m][i].status = "PENDING"
  /\ s \in Terminal
  /\ \E r \in Request :
       /\ \E out \in Nat : r = [requests[m][i] EXCEPT !.status = s, !.amountOut = out]
       /\ requests' = [requests EXCEPT ![m][i] = r]
  /\ UNCHANGED <<nextRequestId, orders, returns>>

(* Sums of credited claims.                                                *)
LEMMA CreditAdds ==
  ASSUME NEW c \in [FeeAccounts -> Nat], NEW a \in FeeAccounts, NEW x \in Nat
  PROVE  /\ Credit(c, a, x) \in [FeeAccounts -> Nat]
         /\ SumFunction(c) \in Nat
         /\ SumFunction(Credit(c, a, x)) = SumFunction(c) + x
<1> DEFINE d == Credit(c, a, x)
<1>1. IsFiniteSet(FeeAccounts)
  BY WireAssumption, FS_Union DEF FeeAccounts
<1>2. d \in [FeeAccounts -> Nat] /\ d[a] = c[a] + x
      /\ \A b \in FeeAccounts : b # a => d[b] = c[b]
  BY DEF Credit
<1> HIDE DEF d
<1>3. DOMAIN c = FeeAccounts /\ DOMAIN d = FeeAccounts
  BY <1>2
<1>4. /\ SumFunctionOnSet(c, FeeAccounts) \in Nat
      /\ SumFunctionOnSet(d, FeeAccounts) \in Nat
      /\ SumFunctionOnSet(d, FeeAccounts) = SumFunctionOnSet(c, FeeAccounts) - c[a] + d[a]
  BY <1>1, <1>2, SumChanges
<1>5. SumFunction(c) = SumFunctionOnSet(c, FeeAccounts)
      /\ SumFunction(d) = SumFunctionOnSet(d, FeeAccounts)
  BY <1>3 DEF SumFunction
<1>6. c[a] \in Nat
  OBVIOUS
<1> QED
  BY <1>2, <1>4, <1>5, <1>6 DEF d

(* What fee accounts may claim adds up to a natural number.                *)
LEMMA ClaimsNat ==
  ASSUME NEW c \in [FeeAccounts -> Nat]
  PROVE  SumFunction(c) \in Nat
<1>1. IsFiniteSet(FeeAccounts)
  BY WireAssumption, FS_Union DEF FeeAccounts
<1>2. DOMAIN c = FeeAccounts /\ \A a \in FeeAccounts : c[a] \in Nat
  OBVIOUS
<1> QED
  BY <1>1, <1>2, SumIsNat DEF SumFunction

(* A claim paid out.                                                       *)
LEMMA ClaimedLess ==
  ASSUME NEW c \in [FeeAccounts -> Nat], NEW a \in FeeAccounts
  PROVE  SumFunction([c EXCEPT ![a] = 0]) = SumFunction(c) - c[a]
<1> DEFINE d == [c EXCEPT ![a] = 0]
<1>1. IsFiniteSet(FeeAccounts)
  BY WireAssumption, FS_Union DEF FeeAccounts
<1>2. d \in [FeeAccounts -> Nat] /\ d[a] = 0
      /\ \A b \in FeeAccounts : b # a => d[b] = c[b]
  OBVIOUS
<1> HIDE DEF d
<1>3. DOMAIN c = FeeAccounts /\ DOMAIN d = FeeAccounts
  BY <1>2
<1>4. /\ SumFunctionOnSet(c, FeeAccounts) \in Nat
      /\ SumFunctionOnSet(d, FeeAccounts) \in Nat
      /\ SumFunctionOnSet(d, FeeAccounts) = SumFunctionOnSet(c, FeeAccounts) - c[a] + d[a]
  BY <1>1, <1>2, SumChanges
<1>5. SumFunction(c) = SumFunctionOnSet(c, FeeAccounts)
      /\ SumFunction(d) = SumFunctionOnSet(d, FeeAccounts)
  BY <1>3 DEF SumFunction
<1>6. c[a] \in Nat
  OBVIOUS
<1> QED
  BY <1>2, <1>4, <1>5, <1>6 DEF d

(* A mirror has finitely many request ids.                                 *)
LEMMA IdsFinite == IsFiniteSet(Ids)
<1>1. 1 \in Int /\ MaxRequests \in Int
  BY MaxRequestsAssumption
<1> QED
  BY <1>1, FS_Interval DEF Ids

(* What an order keeps in escrow of asset t is a natural number.           *)
LEMMA EscrowsType ==
  ASSUME RequestTypeOK, NEW m \in Mirrors, NEW t
  PROVE  /\ Escrows(m, t) \in [Ids -> Nat]
         /\ EscrowedFees(m, t) = SumFunctionOnSet(Escrows(m, t), Ids)
<1>1. \A i \in Ids : EscrowTotal(fees[m][i]) \in Nat
  BY DEF RequestTypeOK, FeeEscrow, EscrowTotal
<1>2. Escrows(m, t) \in [Ids -> Nat]
  BY <1>1 DEF Escrows
<1>3. DOMAIN Escrows(m, t) = Ids
  BY DEF Escrows
<1> QED
  BY <1>2, <1>3 DEF EscrowedFees, SumFunction

(* One escrow changes.                                                     *)
LEMMA EscrowChanges ==
  ASSUME RequestTypeOK, RequestTypeOK', NEW m \in Mirrors, NEW t, NEW j \in Ids,
         \A i \in Ids : i # j => Escrows(m, t)'[i] = Escrows(m, t)[i]
  PROVE  /\ EscrowedFees(m, t) \in Nat /\ EscrowedFees(m, t)' \in Nat
         /\ EscrowedFees(m, t)' = EscrowedFees(m, t) - Escrows(m, t)[j] + Escrows(m, t)'[j]
         /\ Escrows(m, t)[j] \in Nat /\ Escrows(m, t)'[j] \in Nat
<1> DEFINE f == Escrows(m, t)
           g == Escrows(m, t)'
<1>1. f \in [Ids -> Nat] /\ EscrowedFees(m, t) = SumFunctionOnSet(f, Ids)
  BY EscrowsType
<1>2. g \in [Ids -> Nat] /\ EscrowedFees(m, t)' = SumFunctionOnSet(g, Ids)
  <2>1. \A i \in Ids : EscrowTotal(fees[m][i])' \in Nat
    BY DEF RequestTypeOK, FeeEscrow, EscrowTotal
  <2>2. g \in [Ids -> Nat]
    BY <2>1 DEF Escrows
  <2>3. DOMAIN g = Ids
    BY DEF Escrows
  <2> QED
    BY <2>2, <2>3 DEF EscrowedFees, SumFunction
<1>3. IsFiniteSet(Ids)
  BY IdsFinite
<1>4. \A i \in Ids : i # j => g[i] = f[i]
  OBVIOUS
<1> HIDE DEF f, g
<1>5. \A i \in Ids : f[i] \in Nat /\ g[i] \in Nat
  BY <1>1, <1>2
<1>6. /\ SumFunctionOnSet(f, Ids) \in Nat /\ SumFunctionOnSet(g, Ids) \in Nat
      /\ SumFunctionOnSet(g, Ids) = SumFunctionOnSet(f, Ids) - f[j] + g[j]
  BY <1>3, <1>4, <1>5, SumChanges
<1> QED
  BY <1>1, <1>2, <1>5, <1>6 DEF f, g

(* None does.                                                              *)
LEMMA EscrowsStay ==
  ASSUME RequestTypeOK, RequestTypeOK', NEW m \in Mirrors, NEW t,
         \A i \in Ids : Escrows(m, t)'[i] = Escrows(m, t)[i]
  PROVE  EscrowedFees(m, t)' = EscrowedFees(m, t)
<1> DEFINE f == Escrows(m, t)
           g == Escrows(m, t)'
<1>1. f \in [Ids -> Nat] /\ EscrowedFees(m, t) = SumFunctionOnSet(f, Ids)
  BY EscrowsType
<1>2. g \in [Ids -> Nat] /\ EscrowedFees(m, t)' = SumFunctionOnSet(g, Ids)
  <2>1. \A i \in Ids : EscrowTotal(fees[m][i])' \in Nat
    BY DEF RequestTypeOK, FeeEscrow, EscrowTotal
  <2>2. g \in [Ids -> Nat]
    BY <2>1 DEF Escrows
  <2>3. DOMAIN g = Ids
    BY DEF Escrows
  <2> QED
    BY <2>2, <2>3 DEF EscrowedFees, SumFunction
<1>3. IsFiniteSet(Ids)
  BY IdsFinite
<1>4. \A i \in Ids : f[i] = g[i]
  OBVIOUS
<1> HIDE DEF f, g
<1> QED
  BY <1>1, <1>2, <1>3, <1>4, SumOfSame

(* A fee of no basis points is nothing.                                    *)
LEMMA NoFee ==
  ASSUME NEW gross \in Nat, NEW unit \in Nat \ {0}
  PROVE  FeeOf(gross, 0, unit) = 0
<1>1. gross * 0 = 0
  OBVIOUS
<1>2. 0 \div unit = 0
  OBVIOUS
<1> QED
  BY <1>1, <1>2 DEF FeeOf

(* buy, sell and their forms through a partner take an order.              *)
LEMMA SubmitTakes ==
  ASSUME MirrorInv, NEW m \in Mirrors, NEW trade \in TradeType,
         NEW partner \in PartnerIds \cup {0}, NEW feeBps \in Nat,
         NEW recipient \in Recipients \cup {NoUser},
         recipient \in Recipients \/ feeBps = 0,
         Submit(m, trade, partner, feeBps, recipient)
  PROVE  \E r \in Request, f \in FeeEscrow, p \in OrderPacket : Takes(m, r, f, p)
<1> DEFINE id     == nextRequestId[m]
           t      == TokenIn(trade.dir)
           q      == MirrorQuantum[m][t]
           qOut   == MirrorQuantum[m][TokenOut(trade.dir)]
           partnerFee0 == FeeOf(trade.gross, feeBps, FeeUnit)
           platformFee0 == FeeOf(trade.gross, platformFee[m].bps, FeeUnit)
           escrow == [partner |-> partner, state |-> "ESCROWED",
                      partnerRecipient |-> recipient,
                      platformRecipient |-> platformFee[m].recipient,
                      partnerFee |-> partnerFee0,
                      platformFee |-> platformFee0]
           total  == EscrowTotal(escrow)
           net    == trade.gross - total
           sent   == RemoveDust(net, q)
           k      == mirrorToken[m][t]
           after  == Transfer(Burn(Transfer(k, trade.user, Contract, trade.gross),
                                   Contract, sent),
                              Contract, trade.user, net - sent)
           r      == NewRequest(trade, sent, outNonce[m][t] + 1)
           sd     == ToShared(net, q)
           p      == [m |-> m, t |-> t, nonce |-> outNonce[m][t] + 1, id |-> id,
                      user |-> trade.user, sd |-> sd, min |-> FloorToShared(trade.min, qOut)]
<1>0. MirrorTypeOK
  BY DEF MirrorInv
<1>1. /\ trade.user \in Users /\ trade.dir \in Direction
      /\ trade.gross \in Nat /\ trade.min \in Nat
  BY DEF TradeType
<1>2. t \in Tokens /\ TokenOut(trade.dir) \in Tokens
  BY <1>1 DEF TokenIn, TokenOut, Tokens
<1>3. q \in Nat \ {0} /\ qOut \in Nat \ {0}
  BY <1>2, WireAssumption
<1>4. platformFee[m].bps \in Nat /\ platformFee[m].recipient \in Recipients
  BY <1>0 DEF MirrorTypeOK, RequestTypeOK, PlatformType
<1>5. partnerFee0 \in Nat /\ platformFee0 \in Nat
      /\ (partnerFee0 > 0 => recipient \in Recipients)
  <2>1. partnerFee0 \in Nat /\ platformFee0 \in Nat
    BY <1>1, <1>4, FeeType, RequestAssumption
  <2>2. feeBps = 0 => partnerFee0 = 0
    BY <1>1, NoFee, RequestAssumption
  <2> QED
    BY <2>1, <2>2
<1>6. total = partnerFee0 + platformFee0
  BY DEF EscrowTotal
<1>7. escrow \in FeeEscrow /\ escrow.state = "ESCROWED" /\ Recorded(escrow)
  <2> HIDE DEF partnerFee0, platformFee0
  <2> QED
    BY <1>4, <1>5 DEF FeeEscrow, Recorded
<1>8. total < trade.gross /\ net \in Nat /\ net <= trade.gross /\ total \in Nat
      /\ trade.gross - net = total
  BY <1>1, <1>5, <1>6 DEF Submit
<1>9. /\ sent \in Nat /\ sent <= net /\ sd \in Nat
      /\ FloorToShared(trade.min, qOut) \in Nat
      /\ sent = ToLocal(sd, q)
  <2>1. FloorToShared(trade.min, qOut) \in Nat
    BY <1>1, <1>3, AmountTypes
  <2> HIDE DEF net, q
  <2> QED
    BY <1>3, <1>8, <2>1, AmountTypes DEF RemoveDust
<1>10. k \in Token /\ CanPay(k, trade.user, trade.gross) /\ sent > 0
  BY <1>0, <1>2 DEF MirrorTypeOK, WireTypeOK, Submit
<1>11. /\ after \in Token /\ after.bal[Contract] = k.bal[Contract] + (trade.gross - net)
       /\ Flows(k, after, sent, 0)
  <2> HIDE DEF k, net, sent
  <2>1. after \in Token
    BY <1>1, <1>8, <1>9, <1>10, SubmittedType
  <2>2. after.bal[Contract] = k.bal[Contract] + (trade.gross - net)
    <3> SUFFICES ASSUME NEW u, u = trade.user, NEW gross, gross = trade.gross
                 PROVE  Transfer(Burn(Transfer(k, u, Contract, gross), Contract, sent),
                                 Contract, u, net - sent).bal[Contract]
                          = k.bal[Contract] + (gross - net)
      OBVIOUS
    <3>1. /\ u \in Users /\ gross \in Nat /\ net \in Nat /\ sent \in Nat
          /\ CanPay(k, u, gross) /\ net <= gross /\ sent <= net
      BY <1>1, <1>8, <1>9, <1>10
    <3> QED
      BY <1>10, <3>1, SubmissionKeepsFees
  <2>3. Flows(k, after, sent, 0)
    BY <1>1, <1>8, <1>9, <1>10, SubmittedFlows
  <2> QED
    BY <2>1, <2>2, <2>3
<1>12. id \in Ids /\ id \in Nat \ {0} /\ id >= nextRequestId[m]
  BY <1>0 DEF Submit, MirrorTypeOK, RequestTypeOK
<1>13. /\ mirrorToken' = [mirrorToken EXCEPT ![m][t] = after]
       /\ EscrowFees(m, id, t, escrow)
       /\ SendOrder(m, t, id, trade.user, sd, FloorToShared(trade.min, qOut))
       /\ requests' = [requests EXCEPT ![m][id] = r]
       /\ nextRequestId' = [nextRequestId EXCEPT ![m] = @ + 1]
       /\ UNCHANGED <<feesClaimable, returns, backNonce, composing, notices>>
  BY DEF Submit
<1>14. outNonce[m][t] + 1 \in Nat
  BY <1>0, <1>2 DEF MirrorTypeOK, WireTypeOK
<1>15. orders' = orders \cup {p}
  BY <1>13 DEF SendOrder
<1>16. sd > 0
  <2> HIDE DEF sd, q, sent
  <2>1. sd = 0 => ToLocal(sd, q) = 0
    BY <1>3 DEF ToLocal
  <2> QED
    BY <1>9, <1>10, <2>1
<1>17. fees[m][id] = EmptyEscrow
  BY <1>12 DEF MirrorInv, TakenInOrder
<1> HIDE DEF id, q, qOut, total, net, sent, sd, k, after, partnerFee0, platformFee0
<1>18. /\ r.status = "PENDING" /\ r.user = trade.user /\ r.dir = trade.dir
       /\ r.amountIn = sent
  BY DEF NewRequest
<1>19. r \in Request
  BY <1>1, <1>9, <1>14 DEF NewRequest, Request, Status
<1>20. p \in OrderPacket
  BY <1>1, <1>2, <1>9, <1>12, <1>14 DEF OrderPacket
<1>21. /\ p.m = m /\ p.t = t /\ p.id = id /\ p.sd = sd
  OBVIOUS
<1> HIDE DEF r, p, t, escrow
<1>22. EscrowTotal(EmptyEscrow) = 0 /\ EmptyEscrow \in FeeEscrow
  BY DEF EscrowTotal, EmptyEscrow, FeeEscrow
<1>23. \E f \in FeeEscrow :
         /\ f = EmptyEscrow \/ (f.state = "ESCROWED" /\ Recorded(f))
         /\ fees' = [fees EXCEPT ![m][id] = f]
         /\ feesReserved' = [feesReserved EXCEPT ![m][t] = @ + EscrowTotal(f)]
         /\ after.bal[Contract] = k.bal[Contract] + EscrowTotal(f)
  <2>1. EscrowTotal(escrow) \in Nat /\ trade.gross - net = EscrowTotal(escrow)
    BY <1>8 DEF total
  <2>2. CASE EscrowTotal(escrow) = 0
    <3>1. UNCHANGED <<fees, feesReserved>>
      BY <1>13, <2>2 DEF EscrowFees
    <3>2. fees \in [Mirrors -> [Ids -> FeeEscrow]]
          /\ feesReserved \in [Mirrors -> [Tokens -> Nat]]
      BY <1>0 DEF MirrorTypeOK, RequestTypeOK
    <3>3. fees' = [fees EXCEPT ![m][id] = EmptyEscrow]
      BY <1>12, <1>17, <3>1, <3>2
    <3>4. feesReserved' = [feesReserved EXCEPT ![m][t] = @ + 0]
      BY <1>2, <3>1, <3>2
    <3>5. k.bal[Contract] + (trade.gross - net) = k.bal[Contract] + EscrowTotal(EmptyEscrow)
      BY <1>22, <2>1, <2>2
    <3> QED
      BY <1>11, <1>22, <3>3, <3>4, <3>5
  <2>3. CASE EscrowTotal(escrow) # 0
    <3>1. /\ fees' = [fees EXCEPT ![m][id] = escrow]
          /\ feesReserved' = [feesReserved EXCEPT ![m][t] = @ + EscrowTotal(escrow)]
      BY <1>13, <2>3 DEF EscrowFees
    <3> QED
      BY <1>7, <1>11, <2>1, <3>1
  <2> QED
    BY <2>2, <2>3
<1>24. PICK f \in FeeEscrow :
         /\ f = EmptyEscrow \/ (f.state = "ESCROWED" /\ Recorded(f))
         /\ fees' = [fees EXCEPT ![m][id] = f]
         /\ feesReserved' = [feesReserved EXCEPT ![m][t] = @ + EscrowTotal(f)]
         /\ after.bal[Contract] = k.bal[Contract] + EscrowTotal(f)
  BY <1>23
<1>25. t = TokenIn(r.dir) /\ k = mirrorToken[m][t] /\ q = MirrorQuantum[m][t]
       /\ id = nextRequestId[m]
  BY <1>18 DEF t, k, q, id
<1>26. Takes(m, r, f, p)
  <2>1. nextRequestId' = [nextRequestId EXCEPT ![m] = id + 1]
    BY <1>13, <1>25
  <2>2. \E kk \in Token :
       /\ kk.bal[Contract] = mirrorToken[m][t].bal[Contract] + EscrowTotal(f)
       /\ Flows(mirrorToken[m][t], kk, r.amountIn, 0)
       /\ mirrorToken' = [mirrorToken EXCEPT ![m][t] = kk]
    BY <1>11, <1>13, <1>18, <1>24, <1>25
  <2> HIDE DEF t
  <2> QED
    BY <1>1, <1>9, <1>12, <1>13, <1>15, <1>16, <1>18, <1>21, <1>24, <1>25, <2>1, <2>2 DEF Takes
<1> QED
  BY <1>19, <1>20, <1>24, <1>26

-----------------------------------------------------------------------------
(* Fees leave escrow.                                                      *)

(* The fees of request i leave escrow: x is paid out at once, the rest     *)
(* becomes claimable, as c says.                                           *)
Releases(m, i, s, c, x) ==
  LET f == fees[m][i]
      t == TokenIn(requests[m][i].dir)
  IN
  /\ f.state = "ESCROWED"
  /\ x \in 0..EscrowTotal(f) /\ x <= feesReserved[m][t]
  /\ c \in [FeeAccounts -> Nat]
  /\ SumFunction(c) = SumFunction(feesClaimable[m][t]) + (EscrowTotal(f) - x)
  /\ fees' = [fees EXCEPT ![m][i] = [f EXCEPT !.state = s]]
  /\ feesClaimable' = [feesClaimable EXCEPT ![m][t] = c]
  /\ feesReserved' = [feesReserved EXCEPT ![m][t] = @ - x]

(* Nothing was in escrow.                                                  *)
NothingReleased(m, i) ==
  fees[m][i].state # "ESCROWED" /\ UNCHANGED <<fees, feesClaimable, feesReserved>>

(* What a request's ledger holds, by type.                                 *)
LEMMA LedgerTypes ==
  ASSUME MirrorTypeOK, NEW m \in Mirrors, NEW i \in Ids
  PROVE  LET t == TokenIn(requests[m][i].dir) IN
         /\ t \in Tokens
         /\ feesClaimable[m][t] \in [FeeAccounts -> Nat]
         /\ feesReserved[m][t] \in Nat
         /\ feesReserved \in [Mirrors -> [Tokens -> Nat]]
         /\ feesClaimable \in [Mirrors -> [Tokens -> [FeeAccounts -> Nat]]]
         /\ EscrowTotal(fees[m][i]) \in Nat
         /\ EscrowTotal(fees[m][i]) = fees[m][i].partnerFee + fees[m][i].platformFee
         /\ fees[m][i].partnerFee \in Nat /\ fees[m][i].platformFee \in Nat
<1>1. TokenIn(requests[m][i].dir) \in Tokens
  BY EscrowTypes
<1>2. /\ feesReserved \in [Mirrors -> [Tokens -> Nat]]
      /\ feesClaimable \in [Mirrors -> [Tokens -> [FeeAccounts -> Nat]]]
  BY DEF MirrorTypeOK, RequestTypeOK
<1> QED
  BY <1>1, <1>2, EscrowTypes DEF EscrowTotal

(* _releaseFees of a fill.                                                 *)
LEMMA FeesEarned ==
  ASSUME MirrorInv, NEW m \in Mirrors, NEW i \in Ids, EarnFees(m, i)
  PROVE  \/ NothingReleased(m, i)
         \/ \E c : /\ Releases(m, i, "PAID", c, 0)
                   /\ \A a \in FeeAccounts :
                        c[a] = feesClaimable[m][TokenIn(requests[m][i].dir)][a]
                                 + DueOnFill(fees[m][i], a)
<1> DEFINE f == fees[m][i]
           t == TokenIn(requests[m][i].dir)
           c0 == feesClaimable[m][t]
           toPartner == IF f.partnerFee > 0
                        THEN Credit(c0, f.partnerRecipient, f.partnerFee)
                        ELSE c0
           toBoth == IF f.platformFee > 0
                     THEN Credit(toPartner, f.platformRecipient, f.platformFee)
                     ELSE toPartner
<1>1. CASE f.state # "ESCROWED"
  BY <1>1 DEF EarnFees, NothingReleased
<1>2. CASE f.state = "ESCROWED"
  <2>1. /\ f.platformRecipient \in FeeAccounts
        /\ f.partnerFee > 0 => f.partnerRecipient \in FeeAccounts
    BY <1>2 DEF MirrorInv, EscrowsRecorded, Recorded, FeeAccounts
  <2>2. /\ c0 \in [FeeAccounts -> Nat] /\ t \in Tokens
        /\ feesReserved \in [Mirrors -> [Tokens -> Nat]]
        /\ EscrowTotal(f) \in Nat /\ EscrowTotal(f) = f.partnerFee + f.platformFee
        /\ f.partnerFee \in Nat /\ f.platformFee \in Nat
        /\ feesReserved[m][t] \in Nat
    BY LedgerTypes DEF MirrorInv
  <2>3. /\ UNCHANGED feesReserved
        /\ fees' = [fees EXCEPT ![m][i] = [f EXCEPT !.state = "PAID"]]
        /\ feesClaimable' = [feesClaimable EXCEPT ![m][t] = toBoth]
    BY <1>2 DEF EarnFees
  <2> HIDE DEF f, t, c0
  <2>4. /\ toPartner \in [FeeAccounts -> Nat]
        /\ SumFunction(toPartner) = SumFunction(c0) + f.partnerFee
        /\ SumFunction(c0) \in Nat
        /\ \A a \in FeeAccounts :
             toPartner[a] = c0[a] + (IF f.partnerRecipient = a THEN f.partnerFee ELSE 0)
    <3>0. SumFunction(c0) \in Nat
      BY <2>1, <2>2, CreditAdds
    <3>1. CASE f.partnerFee > 0
      <4>1. toPartner = Credit(c0, f.partnerRecipient, f.partnerFee)
        BY <3>1
      <4>2. /\ toPartner \in [FeeAccounts -> Nat]
            /\ SumFunction(toPartner) = SumFunction(c0) + f.partnerFee
        BY <2>1, <2>2, <3>1, <4>1, CreditAdds
      <4>3. \A a \in FeeAccounts :
              toPartner[a] = c0[a] + (IF f.partnerRecipient = a THEN f.partnerFee ELSE 0)
        <5> TAKE a \in FeeAccounts
        <5> HIDE DEF toPartner
        <5> QED
          BY <2>1, <2>2, <3>1, <4>1 DEF Credit
      <4> QED
        BY <3>0, <4>2, <4>3
    <3>2. CASE ~(f.partnerFee > 0)
      <4>1. toPartner = c0 /\ f.partnerFee = 0
        BY <2>2, <3>2
      <4> HIDE DEF toPartner
      <4> QED
        BY <2>2, <3>0, <4>1
    <3> QED
      BY <3>1, <3>2
  <2> HIDE DEF toPartner
  <2>5. /\ toBoth \in [FeeAccounts -> Nat]
        /\ SumFunction(toBoth) = SumFunction(toPartner) + f.platformFee
        /\ \A a \in FeeAccounts :
             toBoth[a] = toPartner[a]
                           + (IF f.platformRecipient = a THEN f.platformFee ELSE 0)
    <3>0. SumFunction(toPartner) \in Nat
      BY <2>2, <2>4
    <3>1. CASE f.platformFee > 0
      <4>1. toBoth = Credit(toPartner, f.platformRecipient, f.platformFee)
        BY <3>1
      <4>2. /\ toBoth \in [FeeAccounts -> Nat]
            /\ SumFunction(toBoth) = SumFunction(toPartner) + f.platformFee
        BY <2>1, <2>2, <2>4, <3>1, <4>1, CreditAdds
      <4>3. \A a \in FeeAccounts :
              toBoth[a] = toPartner[a]
                            + (IF f.platformRecipient = a THEN f.platformFee ELSE 0)
        <5> TAKE a \in FeeAccounts
        <5> HIDE DEF toBoth
        <5> QED
          BY <2>1, <2>2, <2>4, <3>1, <4>1 DEF Credit
      <4> QED
        BY <4>2, <4>3
    <3>2. CASE ~(f.platformFee > 0)
      <4>1. toBoth = toPartner /\ f.platformFee = 0
        BY <2>2, <3>2
      <4> HIDE DEF toBoth
      <4> QED
        BY <2>2, <2>4, <3>0, <4>1
    <3> QED
      BY <3>1, <3>2
  <2> HIDE DEF toBoth
  <2>6. Releases(m, i, "PAID", toBoth, 0)
    <3>1. feesReserved' = [feesReserved EXCEPT ![m][t] = @ - 0]
      BY <2>2, <2>3
    <3>2. SumFunction(toBoth) = SumFunction(c0) + (EscrowTotal(f) - 0)
      BY <2>2, <2>4, <2>5
    <3>3. 0 \in 0..EscrowTotal(f) /\ 0 <= feesReserved[m][t]
      BY <2>2
    <3> QED
      BY <1>2, <2>3, <2>5, <3>1, <3>2, <3>3 DEF Releases, f, t, c0
  <2>7. \A a \in FeeAccounts : toBoth[a] = c0[a] + DueOnFill(f, a)
    BY <2>2, <2>4, <2>5 DEF DueOnFill
  <2> QED
    BY <2>6, <2>7 DEF f, t, c0
<1> QED
  BY <1>1, <1>2

(* Fees go back to the user: x in the token, out of the assets held, the   *)
(* rest as a claim.                                                        *)
ReturnsFees(m, i, held) ==
  LET f == fees[m][i]
      t == TokenIn(requests[m][i].dir)
      u == requests[m][i].user
  IN
  \/ /\ NothingReleased(m, i)
     /\ mirrorToken' = [mirrorToken EXCEPT ![m] = held]
  \/ \E c, x :
       /\ Releases(m, i, "RETURNED", c, x)
       /\ \E k \in Token :
            /\ mirrorToken' = [mirrorToken EXCEPT ![m] = [held EXCEPT ![t] = k]]
            /\ k.bal[Contract] = held[t].bal[Contract] - x
            /\ k.bal[u] = held[t].bal[u] + x
            /\ Flows(held[t], k, 0, 0)
            /\ c[u] = feesClaimable[m][t][u] + (EscrowTotal(f) - x)

(* _releaseFees otherwise: held is the mirror's assets at that moment.     *)
LEMMA FeesReturned ==
  ASSUME MirrorInv, NEW m \in Mirrors, NEW i \in Ids, requests[m][i].user \in Users,
         NEW held \in [Tokens -> Token], NEW accepted \in BOOLEAN,
         ReturnFees(m, i, held, accepted)
  PROVE  ReturnsFees(m, i, held)
<1> DEFINE f == fees[m][i]
           u == requests[m][i].user
           t == TokenIn(requests[m][i].dir)
           total == EscrowTotal(f)
           paid == accepted /\ CanPay(held[t], Contract, total)
           pay == Transfer(held[t], Contract, u, total)
           c0 == feesClaimable[m][t]
           claim == Credit(c0, u, total)
<1>1. /\ c0 \in [FeeAccounts -> Nat] /\ t \in Tokens
      /\ feesReserved \in [Mirrors -> [Tokens -> Nat]]
      /\ feesClaimable \in [Mirrors -> [Tokens -> [FeeAccounts -> Nat]]]
      /\ total \in Nat /\ feesReserved[m][t] \in Nat
  BY LedgerTypes DEF MirrorInv
<1>2. u \in FeeAccounts /\ u \in Accounts /\ Contract \in Accounts /\ u # Contract
  BY ContractApart, NamedAccounts DEF FeeAccounts
<1>3. held[t] \in Token
  BY <1>1
<1>4. CASE f.state # "ESCROWED"
  BY <1>4 DEF ReturnFees, ReturnsFees, NothingReleased
<1>5. CASE f.state = "ESCROWED" /\ paid
  <2>1. /\ fees' = [fees EXCEPT ![m][i] = [f EXCEPT !.state = "RETURNED"]]
        /\ total <= feesReserved[m][t]
        /\ mirrorToken' = [mirrorToken EXCEPT ![m] = [held EXCEPT ![t] = pay]]
        /\ feesReserved' = [feesReserved EXCEPT ![m][t] = @ - total]
        /\ UNCHANGED feesClaimable
    BY <1>5 DEF ReturnFees
  <2>2. /\ pay \in Token
        /\ pay.bal[Contract] = held[t].bal[Contract] - total
        /\ pay.bal[u] = held[t].bal[u] + total
        /\ Flows(held[t], pay, 0, 0)
    <3>1. CanPay(held[t], Contract, total)
      BY <1>5
    <3> HIDE DEF f, u, t, total, paid, c0, claim
    <3>2. Transfer(held[t], Contract, u, total) \in Token
      BY <1>1, <1>2, <1>3, <3>1, TransferType
    <3>3. /\ Transfer(held[t], Contract, u, total).bal[Contract] = held[t].bal[Contract] - total
          /\ Transfer(held[t], Contract, u, total).bal[u] = held[t].bal[u] + total
      <4>1. PICK k \in Token, x \in Nat, v \in Accounts :
              k = held[t] /\ x = total /\ v = u /\ Contract # v
        BY <1>1, <1>2, <1>3
      <4>2. /\ Transfer(k, Contract, v, x).bal[Contract] = k.bal[Contract] - x
            /\ Transfer(k, Contract, v, x).bal[v] = k.bal[v] + x
        BY <1>2, <4>1, TransferMoves
      <4> QED
        BY <4>1, <4>2
    <3>4. Flows(held[t], Transfer(held[t], Contract, u, total), 0, 0)
      BY <1>1, <1>2, <1>3, <3>1, TransferFlows
    <3> QED
      BY <3>2, <3>3, <3>4
  <2>3. feesClaimable' = [feesClaimable EXCEPT ![m][t] = c0]
    BY <1>1, <2>1
  <2>4. SumFunction(c0) \in Nat
    BY <1>1, <1>2, CreditAdds
  <2>5. SumFunction(c0) = SumFunction(c0) + (total - total)
        /\ c0[u] = c0[u] + (total - total)
    BY <1>1, <1>2, <2>4
  <2>6. total \in 0..total
    BY <1>1
  <2>7. Releases(m, i, "RETURNED", c0, total)
    <3> HIDE DEF pay, paid
    <3> QED
      BY <1>1, <1>5, <2>1, <2>3, <2>5, <2>6 DEF Releases
  <2> HIDE DEF f, t, u, total, paid, pay, c0
  <2>8. \E k \in Token :
                   /\ mirrorToken' = [mirrorToken EXCEPT ![m] = [held EXCEPT ![t] = k]]
                   /\ k.bal[Contract] = held[t].bal[Contract] - total
                   /\ k.bal[u] = held[t].bal[u] + total
                   /\ Flows(held[t], k, 0, 0)
                   /\ c0[u] = c0[u] + (total - total)
    BY <2>1, <2>2, <2>5
  <2> QED
    BY <2>7, <2>8 DEF ReturnsFees, f, t, u, total, c0
<1>6. CASE f.state = "ESCROWED" /\ ~paid
  <2>1. /\ fees' = [fees EXCEPT ![m][i] = [f EXCEPT !.state = "RETURNED"]]
        /\ mirrorToken' = [mirrorToken EXCEPT ![m] = held]
        /\ feesClaimable' = [feesClaimable EXCEPT ![m][t] = claim]
        /\ UNCHANGED feesReserved
    BY <1>6 DEF ReturnFees
  <2>2. /\ claim \in [FeeAccounts -> Nat]
        /\ SumFunction(claim) = SumFunction(c0) + (total - 0)
        /\ claim[u] = c0[u] + (total - 0)
    <3>1. claim \in [FeeAccounts -> Nat] /\ SumFunction(claim) = SumFunction(c0) + total
      BY <1>1, <1>2, CreditAdds
    <3>2. claim[u] = c0[u] + total
      BY <1>1, <1>2 DEF Credit
    <3> HIDE DEF claim, c0, total
    <3> QED
      BY <1>1, <3>1, <3>2
  <2>3. feesReserved' = [feesReserved EXCEPT ![m][t] = @ - 0]
    BY <1>1, <2>1
  <2>4. 0 \in 0..total /\ 0 <= feesReserved[m][t]
    BY <1>1
  <2>5. mirrorToken' = [mirrorToken EXCEPT ![m] = [held EXCEPT ![t] = held[t]]]
    BY <1>1, <2>1
  <2>6. held[t].bal[Contract] = held[t].bal[Contract] - 0 /\ held[t].bal[u] = held[t].bal[u] + 0
    BY <1>2, <1>3 DEF Token
  <2> HIDE DEF claim, paid, pay
  <2>7. Releases(m, i, "RETURNED", claim, 0)
    BY <1>6, <2>1, <2>2, <2>3, <2>4 DEF Releases
  <2>8. \E k \in Token :
                   /\ mirrorToken' = [mirrorToken EXCEPT ![m] = [held EXCEPT ![t] = k]]
                   /\ k.bal[Contract] = held[t].bal[Contract] - 0
                   /\ k.bal[u] = held[t].bal[u] + 0
                   /\ Flows(held[t], k, 0, 0)
                   /\ claim[u] = feesClaimable[m][t][u] + (EscrowTotal(f) - 0)
    <3> HIDE DEF f, t, u, total
    <3> QED
      BY <1>3, <2>2, <2>5, <2>6, FlowsAtRest DEF c0, total
  <2> QED
    BY <2>7, <2>8 DEF ReturnsFees
<1> QED
  BY <1>4, <1>5, <1>6

-----------------------------------------------------------------------------
(* Every transaction on a mirror, as the ledger sees it.                   *)

(* Request i is closed as s, and what it has in escrow is released.        *)
ClosesAndReleases(m, i, s) ==
  /\ Closes(m, i, s)
  /\ \/ NothingReleased(m, i)
     \/ \E c, x : Releases(m, i, IF s = "FILLED" THEN "PAID" ELSE "RETURNED", c, x)
  /\ s = "FILLED" => EarnFees(m, i)

(* A settlement closes its request and its escrow, or touches neither.     *)
LEMMA ComposeCloses ==
  ASSUME MirrorInv, NEW p \in composing, Settle(p)
  PROVE  \/ \E s \in Terminal : ClosesAndReleases(p.m, p.id, s)
         \/ UNCHANGED ledgerVars
<1> DEFINE r == requests[p.m][p.id]
<1>0. Compose(p) /\ MirrorTypeOK
  BY DEF Settle, ComposeFill, ComposeRefund, ComposeLate, MirrorInv
<1>1. /\ p.m \in Mirrors /\ p.t \in Tokens /\ p.id \in Ids /\ p.sd \in Nat
      /\ PaidOut(p) \in [Tokens -> Token]
      /\ UNCHANGED <<orders, returns, nextRequestId>>
  BY <1>0, ComposeType
<1>2. r \in Request
  BY <1>0, <1>1, EscrowTypes
<1>3. r.status = "PENDING" => r.user \in Users
  BY <1>1 DEF MirrorInv, EscrowsRecorded
<1>4. CASE ComposeFill(p)
  <2> DEFINE out == ToLocal(p.sd, MirrorQuantum[p.m][p.t])
             filled == [r EXCEPT !.status = "FILLED", !.amountOut = out]
  <2>0. out \in Nat
    BY <1>1, MirrorWorth
  <2>1. filled \in Request
    <3> HIDE DEF out
    <3> QED
      BY <1>2, <2>0 DEF Request, Status
  <2>2. /\ r.status = "PENDING"
        /\ requests' = [requests EXCEPT ![p.m][p.id] = filled]
        /\ EarnFees(p.m, p.id)
    BY <1>4 DEF ComposeFill
  <2>3. \E o \in Nat : filled = [r EXCEPT !.status = "FILLED", !.amountOut = o]
    BY <2>0
  <2> HIDE DEF filled, out
  <2>4. Closes(p.m, p.id, "FILLED")
    BY <1>1, <2>1, <2>2, <2>3 DEF Closes, Terminal
  <2>5. NothingReleased(p.m, p.id) \/ \E c, x : Releases(p.m, p.id, "PAID", c, x)
    BY <1>1, <2>2, FeesEarned
  <2> QED
    BY <2>2, <2>4, <2>5 DEF ClosesAndReleases, Terminal
<1>5. ASSUME NEW accepted \in TokenAccepts, ComposeRefund(p, accepted)
      PROVE  ClosesAndReleases(p.m, p.id, "REFUNDED")
  <2> DEFINE refunded == [r EXCEPT !.status = "REFUNDED"]
  <2>1. refunded \in Request
    BY <1>2 DEF Request, Status
  <2>2. /\ r.status = "PENDING"
        /\ requests' = [requests EXCEPT ![p.m][p.id] = refunded]
        /\ ReturnFees(p.m, p.id, PaidOut(p), accepted)
    BY <1>5 DEF ComposeRefund
  <2>3. \E o \in Nat : refunded = [r EXCEPT !.status = "REFUNDED", !.amountOut = o]
    <3>1. r.amountOut \in Nat /\ refunded = [r EXCEPT !.status = "REFUNDED", !.amountOut = r.amountOut]
      BY <1>2 DEF Request
    <3> QED
      BY <3>1
  <2>4. accepted \in BOOLEAN
    BY RequestAssumption
  <2> HIDE DEF refunded
  <2>5. Closes(p.m, p.id, "REFUNDED")
    BY <1>1, <2>1, <2>2, <2>3 DEF Closes, Terminal
  <2>6. NothingReleased(p.m, p.id) \/ \E c, x : Releases(p.m, p.id, "RETURNED", c, x)
    <3>1. r.user \in Users
      BY <1>3, <2>2
    <3> HIDE DEF r
    <3> QED
      BY <1>1, <2>2, <2>4, <3>1, FeesReturned DEF r, ReturnsFees
  <2> QED
    BY <2>5, <2>6 DEF ClosesAndReleases
<1>6. CASE ComposeLate(p)
  BY <1>1, <1>6 DEF ComposeLate, ledgerVars
<1> QED
  BY <1>4, <1>5, <1>6 DEF Settle, Terminal

(* So does a notice.                                                       *)
LEMMA NoticeCloses ==
  ASSUME MirrorInv, NEW n \in notices, HearNotice(n)
  PROVE  \/ \E i \in Ids, s \in Terminal : ClosesAndReleases(n.m, i, s)
         \/ UNCHANGED ledgerVars
<1>0. MirrorTypeOK
  BY DEF MirrorInv
<1>1. n.m \in Mirrors
  BY <1>0 DEF MirrorTypeOK, WireTypeOK, Notice
<1>2. ReceiveNotice(n)
  BY DEF HearNotice, NoticeStranded, NoticeCancelled, NoticeIgnored
<1>3. UNCHANGED <<orders, returns, nextRequestId>>
  BY <1>2 DEF ReceiveNotice
<1>4. ASSUME NEW i \in Ids, i \in Concerned(n), NEW accepted \in TokenAccepts,
             NEW held \in [Tokens -> Token], NEW s \in {"STRANDED", "CANCELLED"},
             requests' = [requests EXCEPT ![n.m][i].status = s],
             ReturnFees(n.m, i, held, accepted)
      PROVE  ClosesAndReleases(n.m, i, s)
  <2> DEFINE r == requests[n.m][i]
             closed == [r EXCEPT !.status = s]
  <2>1. r \in Request /\ r.status = "PENDING"
    BY <1>0, <1>1, <1>4, EscrowTypes DEF Concerned
  <2>2. closed \in Request
    BY <2>1 DEF Request, Status
  <2>3. requests' = [requests EXCEPT ![n.m][i] = closed]
    BY <1>4
  <2>4. \E o \in Nat : closed = [r EXCEPT !.status = s, !.amountOut = o]
    <3>1. r.amountOut \in Nat /\ closed = [r EXCEPT !.status = s, !.amountOut = r.amountOut]
      BY <2>1 DEF Request
    <3> QED
      BY <3>1
  <2>5. accepted \in BOOLEAN
    BY RequestAssumption
  <2>6. r.user \in Users
    BY <1>1, <2>1 DEF MirrorInv, EscrowsRecorded
  <2> HIDE DEF closed
  <2>7. Closes(n.m, i, s)
    BY <1>1, <1>3, <2>1, <2>2, <2>3, <2>4 DEF Closes, Terminal
  <2>8. NothingReleased(n.m, i) \/ \E c, x : Releases(n.m, i, "RETURNED", c, x)
    <3> HIDE DEF r
    <3> QED
      BY <1>1, <1>4, <2>5, <2>6, FeesReturned DEF r, ReturnsFees
  <2> QED
    BY <2>7, <2>8 DEF ClosesAndReleases
<1>5. ASSUME NEW i \in Ids, NEW accepted \in TokenAccepts,
             NoticeStranded(n, i, accepted)
      PROVE  ClosesAndReleases(n.m, i, "STRANDED")
  <2>1. mirrorToken[n.m] \in [Tokens -> Token]
    BY <1>0, <1>1 DEF MirrorTypeOK, WireTypeOK
  <2> QED
    BY <1>4, <1>5, <2>1 DEF NoticeStranded
<1>6. ASSUME NEW i \in Ids, NEW accepted \in TokenAccepts,
             NoticeCancelled(n, i, accepted)
      PROVE  ClosesAndReleases(n.m, i, "CANCELLED")
  <2> DEFINE r == requests[n.m][i]
             t == TokenIn(r.dir)
             credited == RecoveryCredit(mirrorToken[n.m][t], r.user, r.amountIn)
             restored == [mirrorToken[n.m] EXCEPT ![t] = credited]
  <2>1. t \in Tokens /\ r \in Request /\ mirrorToken[n.m][t] \in Token
    BY <1>0, <1>1, EscrowTypes DEF MirrorTypeOK, WireTypeOK
  <2>2. credited \in Token
    BY <2>1, MintType DEF Request, RecoveryCredit
  <2>3. restored \in [Tokens -> Token]
    <3> HIDE DEF credited
    <3> QED
      BY <1>0, <1>1, <2>2 DEF MirrorTypeOK, WireTypeOK
  <2>4. /\ requests' = [requests EXCEPT ![n.m][i].status = "CANCELLED"]
        /\ i \in Concerned(n)
        /\ ReturnFees(n.m, i, restored, accepted)
    BY <1>6 DEF NoticeCancelled
  <2> HIDE DEF restored
  <2> QED
    BY <1>4, <2>3, <2>4
<1>7. CASE NoticeIgnored(n)
  BY <1>3, <1>7 DEF NoticeIgnored, ledgerVars
<1> QED
  BY <1>5, <1>6, <1>7 DEF HearNotice, Terminal

(* buy, sell and their forms through a partner all take an order.          *)
LEMMA OrderingTakes ==
  ASSUME MirrorInv, Ordering
  PROVE  \E m \in Mirrors, r \in Request, f \in FeeEscrow, p \in OrderPacket : Takes(m, r, f, p)
<1>1. ASSUME NEW m \in Mirrors, NEW trade \in Trades, SubmitOpen(m, trade)
      PROVE  \E r \in Request, f \in FeeEscrow, p \in OrderPacket : Takes(m, r, f, p)
  <2>1. trade \in TradeType /\ Submit(m, trade, 0, 0, NoUser)
    BY <1>1, RequestAssumption DEF SubmitOpen
  <2> QED
    BY <2>1, SubmitTakes
<1>2. ASSUME NEW auth \in Authorizations, SubmitVia(auth)
      PROVE  /\ auth.m \in Mirrors
             /\ \E r \in Request, f \in FeeEscrow, p \in OrderPacket : Takes(auth.m, r, f, p)
  <2> DEFINE recipient == partners[auth.m][auth.partner].recipient
  <2>1. auth \in AuthorizationType
    BY RequestAssumption
  <2>2. /\ auth.m \in Mirrors /\ auth.trade \in TradeType /\ auth.partner \in PartnerIds
        /\ auth.feeBps \in Nat
    BY <2>1 DEF AuthorizationType
  <2>3. partners[auth.m][auth.partner] \in PartnerType
    BY <2>2 DEF MirrorInv, MirrorTypeOK, RequestTypeOK
  <2>4. recipient \in Recipients
    BY <2>3 DEF PartnerType
  <2>5. Submit(auth.m, auth.trade, auth.partner, auth.feeBps, recipient)
    BY <1>2 DEF SubmitVia
  <2> HIDE DEF recipient
  <2> QED
    BY <2>2, <2>4, <2>5, SubmitTakes
<1> QED
  BY <1>1, <1>2 DEF Ordering

(***************************************************************************)
(* A transaction on a mirror takes an order, closes one, pays a claim out, *)
(* or leaves the ledger alone.                                             *)
(***************************************************************************)
LEMMA LedgerKinds ==
  ASSUME MirrorInv, MirrorNext
  PROVE  \/ \E m \in Mirrors, r \in Request, f \in FeeEscrow, p \in OrderPacket : Takes(m, r, f, p)
         \/ \E m \in Mirrors, i \in Ids, s \in Terminal : ClosesAndReleases(m, i, s)
         \/ \E m \in Mirrors, t \in Tokens, a \in FeeAccounts : ClaimFees(m, t, a)
         \/ UNCHANGED ledgerVars
<1>0. MirrorTypeOK
  BY DEF MirrorInv
<1>1. CASE Bridging
  BY <1>1 DEF Bridging, requestVars, ledgerVars
<1>2. CASE Ordering
  BY <1>2, OrderingTakes
<1>3. CASE Settling
  <2>1. ASSUME NEW p \in composing, Settle(p)
        PROVE  \/ \E m \in Mirrors, i \in Ids, s \in Terminal : ClosesAndReleases(m, i, s)
               \/ UNCHANGED ledgerVars
    <3>1. p.m \in Mirrors /\ p.id \in Ids
      BY <1>0 DEF MirrorTypeOK, WireTypeOK, ReturnPacket
    <3> QED
      BY <2>1, <3>1, ComposeCloses
  <2>2. ASSUME NEW n \in notices, HearNotice(n)
        PROVE  \/ \E m \in Mirrors, i \in Ids, s \in Terminal : ClosesAndReleases(m, i, s)
               \/ UNCHANGED ledgerVars
    <3>1. n.m \in Mirrors
      BY <1>0 DEF MirrorTypeOK, WireTypeOK, Notice
    <3> QED
      BY <2>2, <3>1, NoticeCloses
  <2> QED
    BY <1>3, <2>1, <2>2 DEF Settling
<1>4. CASE Administering
  BY <1>4 DEF Administering, SetPartner, SetPartnerRequired, SetPlatformFee, InvalidateNonce,
              Sweep, SendStray, requestVars, ledgerVars
<1> QED
  BY <1>1, <1>2, <1>3, <1>4 DEF MirrorNext

(* The tables stay in order.                                               *)
LEMMA MirrorInvKept ==
  ASSUME MirrorInv, MirrorNext
  PROVE  MirrorInv'
<1>0. MirrorTypeOK /\ MirrorTypeOK' /\ TakenInOrder /\ EscrowsRecorded
  BY MirrorNextType DEF MirrorInv
<1>1. /\ nextRequestId \in [Mirrors -> Nat \ {0}]
      /\ requests \in [Mirrors -> [Ids -> Request]]
      /\ fees \in [Mirrors -> [Ids -> FeeEscrow]]
      /\ \A i \in Ids : i \in Nat
  BY <1>0 DEF MirrorTypeOK, RequestTypeOK, Ids
<1>2. ASSUME NEW m \in Mirrors, NEW r \in Request, NEW f \in FeeEscrow, NEW p \in OrderPacket,
             Takes(m, r, f, p)
      PROVE  TakenInOrder' /\ EscrowsRecorded'
  <2> DEFINE i == nextRequestId[m]
  <2>1. /\ i \in Ids /\ i \in Nat
        /\ nextRequestId' = [nextRequestId EXCEPT ![m] = i + 1]
        /\ requests' = [requests EXCEPT ![m][i] = r]
        /\ fees' = [fees EXCEPT ![m][i] = f]
        /\ r.status = "PENDING" /\ r.user \in Users
        /\ f = EmptyEscrow \/ (f.state = "ESCROWED" /\ Recorded(f))
    BY <1>1, <1>2 DEF Takes
  <2>2. EmptyEscrow.state = "NONE"
    BY DEF EmptyEscrow
  <2> HIDE DEF i
  <2>3. TakenInOrder'
    <3> SUFFICES ASSUME NEW mm \in Mirrors, NEW j \in Ids, j >= nextRequestId'[mm]
                 PROVE  requests'[mm][j] = EmptyRequest /\ fees'[mm][j] = EmptyEscrow
      BY DEF TakenInOrder
    <3>1. ~(mm = m /\ j = i) /\ j >= nextRequestId[mm]
      BY <1>1, <2>1 DEF i
    <3>2. requests[mm][j] = EmptyRequest /\ fees[mm][j] = EmptyEscrow
      BY <1>0, <3>1 DEF TakenInOrder
    <3> QED
      BY <1>1, <2>1, <3>1, <3>2
  <2>4. EscrowsRecorded'
    <3> SUFFICES ASSUME NEW mm \in Mirrors, NEW j \in Ids
                 PROVE  /\ IF requests'[mm][j].status = "NONE"
                           THEN requests'[mm][j] = EmptyRequest /\ fees'[mm][j] = EmptyEscrow
                           ELSE requests'[mm][j].user \in Users
                        /\ fees'[mm][j].state = "NONE" => fees'[mm][j] = EmptyEscrow
                        /\ fees'[mm][j].state = "ESCROWED" => Recorded(fees'[mm][j])
                        /\ requests'[mm][j].status = "PENDING" =>
                             fees'[mm][j].state \in {"NONE", "ESCROWED"}
      BY DEF EscrowsRecorded, Recorded
    <3>1. CASE mm = m /\ j = i
      <4>1. requests'[mm][j] = r /\ fees'[mm][j] = f
        BY <1>1, <2>1, <3>1
      <4> QED
        BY <2>1, <2>2, <4>1
    <3>2. CASE ~(mm = m /\ j = i)
      <4>1. requests'[mm][j] = requests[mm][j] /\ fees'[mm][j] = fees[mm][j]
        BY <1>1, <2>1, <3>2
      <4> QED
        BY <1>0, <4>1 DEF EscrowsRecorded
    <3> QED
      BY <3>1, <3>2
  <2> QED
    BY <2>3, <2>4
<1>3. ASSUME NEW m \in Mirrors, NEW i \in Ids, NEW s \in Terminal, ClosesAndReleases(m, i, s)
      PROVE  TakenInOrder' /\ EscrowsRecorded'
  <2>1. PICK r \in Request :
          /\ \E out \in Nat : r = [requests[m][i] EXCEPT !.status = s, !.amountOut = out]
          /\ requests' = [requests EXCEPT ![m][i] = r]
    BY <1>3 DEF ClosesAndReleases, Closes
  <2>2. requests[m][i] \in Request /\ requests[m][i].status = "PENDING"
    BY <1>1, <1>3 DEF ClosesAndReleases, Closes
  <2>3. r.status = s /\ r.user = requests[m][i].user
    BY <2>1, <2>2 DEF Request
  <2>4. \E f \in FeeEscrow :
          /\ fees' = [fees EXCEPT ![m][i] = f]
          /\ f.state \notin {"ESCROWED"}
          /\ f.state = "NONE" => f = fees[m][i]
    <3>1. CASE NothingReleased(m, i)
      <4>1. fees' = [fees EXCEPT ![m][i] = fees[m][i]] /\ fees[m][i].state # "ESCROWED"
            /\ fees[m][i] \in FeeEscrow
        BY <1>1, <3>1 DEF NothingReleased
      <4> QED
        BY <4>1
    <3>2. ASSUME NEW c, NEW x, NEW e \in {"PAID", "RETURNED"}, Releases(m, i, e, c, x)
          PROVE  \E f \in FeeEscrow :
                   /\ fees' = [fees EXCEPT ![m][i] = f]
                   /\ f.state \notin {"ESCROWED"}
                   /\ f.state = "NONE" => f = fees[m][i]
      <4> DEFINE f == [fees[m][i] EXCEPT !.state = e]
      <4>1. fees' = [fees EXCEPT ![m][i] = f]
        BY <3>2 DEF Releases
      <4>2. fees[m][i] \in FeeEscrow
        BY <1>1
      <4>3. f \in FeeEscrow /\ f.state = e
        BY <4>2 DEF FeeEscrow
      <4> HIDE DEF f
      <4> QED
        BY <4>1, <4>3
    <3> QED
      BY <1>3, <3>1, <3>2 DEF ClosesAndReleases
  <2>5. PICK f \in FeeEscrow :
          /\ fees' = [fees EXCEPT ![m][i] = f]
          /\ f.state \notin {"ESCROWED"}
          /\ f.state = "NONE" => f = fees[m][i]
    BY <2>4
  <2>6. nextRequestId' = nextRequestId
    BY <1>3 DEF ClosesAndReleases, Closes
  <2>7. i < nextRequestId[m]
    <3>1. EmptyRequest.status = "NONE"
      BY DEF EmptyRequest
    <3> QED
      BY <1>0, <1>1, <2>2, <3>1 DEF TakenInOrder
  <2>8. TakenInOrder'
    <3> SUFFICES ASSUME NEW mm \in Mirrors, NEW j \in Ids, j >= nextRequestId'[mm]
                 PROVE  requests'[mm][j] = EmptyRequest /\ fees'[mm][j] = EmptyEscrow
      BY DEF TakenInOrder
    <3>1. ~(mm = m /\ j = i)
      BY <1>1, <2>6, <2>7
    <3> QED
      BY <1>0, <1>1, <2>1, <2>5, <2>6, <3>1 DEF TakenInOrder
  <2>9. EscrowsRecorded'
    <3> SUFFICES ASSUME NEW mm \in Mirrors, NEW j \in Ids
                 PROVE  /\ IF requests'[mm][j].status = "NONE"
                           THEN requests'[mm][j] = EmptyRequest /\ fees'[mm][j] = EmptyEscrow
                           ELSE requests'[mm][j].user \in Users
                        /\ fees'[mm][j].state = "NONE" => fees'[mm][j] = EmptyEscrow
                        /\ fees'[mm][j].state = "ESCROWED" => Recorded(fees'[mm][j])
                        /\ requests'[mm][j].status = "PENDING" =>
                             fees'[mm][j].state \in {"NONE", "ESCROWED"}
      BY DEF EscrowsRecorded, Recorded
    <3>1. CASE mm = m /\ j = i
      <4>1. requests'[mm][j] = r /\ fees'[mm][j] = f
        BY <1>1, <2>1, <2>5, <3>1
      <4>2. r.status \notin {"NONE", "PENDING"} /\ r.user \in Users
        BY <1>0, <2>2, <2>3 DEF EscrowsRecorded, Terminal
      <4>3. f.state = "NONE" => f = EmptyEscrow
        BY <1>0, <2>5 DEF EscrowsRecorded
      <4> QED
        BY <2>5, <4>1, <4>2, <4>3
    <3>2. CASE ~(mm = m /\ j = i)
      <4>1. requests'[mm][j] = requests[mm][j] /\ fees'[mm][j] = fees[mm][j]
        BY <1>1, <2>1, <2>5, <3>2
      <4> QED
        BY <1>0, <4>1 DEF EscrowsRecorded
    <3> QED
      BY <3>1, <3>2
  <2> QED
    BY <2>8, <2>9
<1>4. ASSUME UNCHANGED <<nextRequestId, requests, fees>>
      PROVE  TakenInOrder' /\ EscrowsRecorded'
  BY <1>0, <1>4 DEF TakenInOrder, EscrowsRecorded, Recorded
<1>5. TakenInOrder' /\ EscrowsRecorded'
  BY <1>2, <1>3, <1>4, LedgerKinds DEF ledgerVars, ClaimFees
<1> QED
  BY <1>0, <1>5 DEF MirrorInv

(* Orders keep the asset they are in, so what others keep in escrow stays. *)
LEMMA ReleaseKeepsReserve ==
  ASSUME MirrorInv, MirrorTypeOK', ReserveIsOwed,
         NEW m \in Mirrors, NEW i \in Ids, NEW s \in Terminal, ClosesAndReleases(m, i, s)
  PROVE  ReserveIsOwed'
<1> DEFINE f == fees[m][i]
           t == TokenIn(requests[m][i].dir)
<1>0. MirrorTypeOK /\ RequestTypeOK /\ RequestTypeOK'
  BY DEF MirrorInv, MirrorTypeOK
<1>1. /\ requests \in [Mirrors -> [Ids -> Request]]
      /\ fees \in [Mirrors -> [Ids -> FeeEscrow]]
  BY <1>0 DEF RequestTypeOK
<1>2. \A mm \in Mirrors, j \in Ids : requests'[mm][j].dir = requests[mm][j].dir
  <2>1. PICK r \in Request :
          /\ \E out \in Nat : r = [requests[m][i] EXCEPT !.status = s, !.amountOut = out]
          /\ requests' = [requests EXCEPT ![m][i] = r]
    BY DEF ClosesAndReleases, Closes
  <2>2. requests[m][i] \in Request
    BY <1>1
  <2>3. r.dir = requests[m][i].dir
    BY <2>1, <2>2 DEF Request
  <2> QED
    BY <1>1, <2>1, <2>3
<1>3. /\ t \in Tokens
      /\ feesClaimable \in [Mirrors -> [Tokens -> [FeeAccounts -> Nat]]]
      /\ feesReserved \in [Mirrors -> [Tokens -> Nat]]
      /\ EscrowTotal(f) \in Nat
  BY <1>0, LedgerTypes
<1>4. CASE NothingReleased(m, i)
  <2> SUFFICES ASSUME NEW mm \in Mirrors, NEW tt \in Tokens
               PROVE  feesReserved'[mm][tt] = EscrowedFees(mm, tt)' + ClaimableFees(mm, tt)'
    BY DEF ReserveIsOwed
  <2>1. \A j \in Ids : Escrows(mm, tt)'[j] = Escrows(mm, tt)[j]
    BY <1>2, <1>4 DEF NothingReleased, Escrows, FeeToken
  <2>2. EscrowedFees(mm, tt)' = EscrowedFees(mm, tt)
    BY <1>0, <2>1, EscrowsStay
  <2>3. ClaimableFees(mm, tt)' = ClaimableFees(mm, tt) /\ feesReserved' = feesReserved
    BY <1>4 DEF NothingReleased, ClaimableFees
  <2> QED
    BY <2>2, <2>3 DEF ReserveIsOwed
<1>5. ASSUME NEW c, NEW x, NEW e \in {"PAID", "RETURNED"}, Releases(m, i, e, c, x)
      PROVE  ReserveIsOwed'
  <2>1. /\ f.state = "ESCROWED"
        /\ x \in 0..EscrowTotal(f) /\ x <= feesReserved[m][t]
        /\ c \in [FeeAccounts -> Nat]
        /\ SumFunction(c) = SumFunction(feesClaimable[m][t]) + (EscrowTotal(f) - x)
        /\ fees' = [fees EXCEPT ![m][i] = [f EXCEPT !.state = e]]
        /\ feesClaimable' = [feesClaimable EXCEPT ![m][t] = c]
        /\ feesReserved' = [feesReserved EXCEPT ![m][t] = @ - x]
    BY <1>5 DEF Releases
  <2>2. fees'[m][i].state = e
        /\ \A mm \in Mirrors, j \in Ids : ~(mm = m /\ j = i) => fees'[mm][j] = fees[mm][j]
    BY <1>1, <2>1 DEF FeeEscrow
  <2> SUFFICES ASSUME NEW mm \in Mirrors, NEW tt \in Tokens
               PROVE  feesReserved'[mm][tt] = EscrowedFees(mm, tt)' + ClaimableFees(mm, tt)'
    BY DEF ReserveIsOwed
  <2>3. CASE ~(mm = m /\ tt = t)
    <3>1. \A j \in Ids : Escrows(mm, tt)'[j] = Escrows(mm, tt)[j]
      <4> TAKE j \in Ids
      <4>1. CASE mm = m /\ j = i
        BY <1>2, <2>2, <2>3, <4>1 DEF Escrows, FeeToken
      <4>2. CASE ~(mm = m /\ j = i)
        BY <1>2, <2>2, <4>2 DEF Escrows, FeeToken
      <4> QED
        BY <4>1, <4>2
    <3>2. EscrowedFees(mm, tt)' = EscrowedFees(mm, tt)
      BY <1>0, <3>1, EscrowsStay
    <3>3. feesClaimable'[mm][tt] = feesClaimable[mm][tt]
          /\ feesReserved'[mm][tt] = feesReserved[mm][tt]
      BY <1>3, <2>1, <2>3
    <3> QED
      BY <3>2, <3>3 DEF ReserveIsOwed, ClaimableFees
  <2>4. CASE mm = m /\ tt = t
    <3>1. \A j \in Ids : j # i => Escrows(m, tt)'[j] = Escrows(m, tt)[j]
      BY <1>2, <2>2 DEF Escrows, FeeToken
    <3>2. Escrows(m, tt)[i] = EscrowTotal(f)
      BY <2>1, <2>4 DEF Escrows, FeeToken
    <3>3. Escrows(m, tt)'[i] = 0
      BY <1>2, <2>2 DEF Escrows, FeeToken
    <3>4. /\ EscrowedFees(m, tt) \in Nat /\ EscrowedFees(m, tt)' \in Nat
          /\ EscrowedFees(m, tt)' = EscrowedFees(m, tt) - Escrows(m, tt)[i] + Escrows(m, tt)'[i]
      BY <1>0, <3>1, EscrowChanges
    <3>5. feesClaimable'[m][tt] = c /\ feesReserved'[m][tt] = feesReserved[m][tt] - x
      BY <1>3, <2>1, <2>4
    <3>6. feesReserved[m][tt] = EscrowedFees(m, tt) + ClaimableFees(m, tt)
      BY DEF ReserveIsOwed
    <3>7. ClaimableFees(m, tt)' = ClaimableFees(m, tt) + (EscrowTotal(f) - x)
      BY <2>1, <2>4, <3>5 DEF ClaimableFees
    <3>8. ClaimableFees(m, tt) \in Nat
      BY <1>3, ClaimsNat DEF ClaimableFees
    <3>9. EscrowTotal(f) \in Nat /\ x \in Nat /\ x <= EscrowTotal(f)
          /\ feesReserved[m][tt] \in Nat
      BY <1>3, <2>1
    <3> HIDE DEF f, t
    <3> QED
      BY <2>4, <3>2, <3>3, <3>4, <3>5, <3>6, <3>7, <3>8, <3>9
  <2> QED
    BY <2>3, <2>4
<1> QED
  BY <1>4, <1>5 DEF ClosesAndReleases

(* An order taken adds its fees to the reserve and to the escrows.         *)
LEMMA TakingKeepsReserve ==
  ASSUME MirrorInv, MirrorTypeOK', ReserveIsOwed,
         NEW m \in Mirrors, NEW r \in Request, NEW f \in FeeEscrow, NEW p \in OrderPacket,
         Takes(m, r, f, p)
  PROVE  ReserveIsOwed'
<1> DEFINE i == nextRequestId[m]
           t == TokenIn(r.dir)
<1>0. RequestTypeOK /\ RequestTypeOK'
  BY DEF MirrorInv, MirrorTypeOK
<1>1. /\ requests \in [Mirrors -> [Ids -> Request]]
      /\ fees \in [Mirrors -> [Ids -> FeeEscrow]]
      /\ feesReserved \in [Mirrors -> [Tokens -> Nat]]
      /\ nextRequestId \in [Mirrors -> Nat \ {0}]
      /\ t \in Tokens
  BY <1>0 DEF RequestTypeOK, TokenIn, Tokens
<1>2. /\ i \in Ids
      /\ requests' = [requests EXCEPT ![m][i] = r]
      /\ fees' = [fees EXCEPT ![m][i] = f]
      /\ feesReserved' = [feesReserved EXCEPT ![m][t] = @ + EscrowTotal(f)]
      /\ f = EmptyEscrow \/ f.state = "ESCROWED"
      /\ feesClaimable' = feesClaimable
  BY DEF Takes
<1>3. fees[m][i] = EmptyEscrow /\ i \in Nat
  BY <1>1, <1>2 DEF MirrorInv, TakenInOrder
<1>4. EscrowTotal(f) \in Nat /\ EscrowTotal(EmptyEscrow) = 0 /\ EmptyEscrow.state = "NONE"
  BY DEF EscrowTotal, FeeEscrow, EmptyEscrow
<1> SUFFICES ASSUME NEW mm \in Mirrors, NEW tt \in Tokens
             PROVE  feesReserved'[mm][tt] = EscrowedFees(mm, tt)' + ClaimableFees(mm, tt)'
  BY DEF ReserveIsOwed
<1>5. ClaimableFees(mm, tt)' = ClaimableFees(mm, tt)
  BY <1>2 DEF ClaimableFees
<1>6. \A j \in Ids : ~(mm = m /\ j = i) => Escrows(mm, tt)'[j] = Escrows(mm, tt)[j]
  <2> HIDE DEF i
  <2> QED
    BY <1>1, <1>2 DEF Escrows, FeeToken
<1>7. mm = m => Escrows(m, tt)[i] = 0
  BY <1>2, <1>3, <1>4 DEF Escrows
<1>8. mm = m => Escrows(m, tt)'[i] = IF tt = t THEN EscrowTotal(f) ELSE 0
  <2>1. fees'[m][i] = f /\ requests'[m][i] = r
    BY <1>1, <1>2
  <2> QED
    BY <1>2, <1>4, <2>1 DEF Escrows, FeeToken
<1> HIDE DEF i, t
<1>9. CASE mm = m
  <2>1. /\ EscrowedFees(m, tt) \in Nat /\ EscrowedFees(m, tt)' \in Nat
        /\ EscrowedFees(m, tt)' = EscrowedFees(m, tt) - Escrows(m, tt)[i] + Escrows(m, tt)'[i]
    BY <1>0, <1>2, <1>6, <1>9, EscrowChanges
  <2>2. feesReserved'[m][tt] = feesReserved[m][tt] + (IF tt = t THEN EscrowTotal(f) ELSE 0)
    BY <1>1, <1>2
  <2>3. feesReserved[m][tt] = EscrowedFees(m, tt) + ClaimableFees(m, tt)
    BY DEF ReserveIsOwed
  <2>4. ClaimableFees(m, tt) \in Nat
    <3>1. feesClaimable[m][tt] \in [FeeAccounts -> Nat]
      BY <1>0 DEF RequestTypeOK
    <3> QED
      BY <3>1, ClaimsNat DEF ClaimableFees
  <2> QED
    BY <1>4, <1>5, <1>7, <1>8, <1>9, <2>1, <2>2, <2>3, <2>4
<1>10. CASE mm # m
  <2>1. EscrowedFees(mm, tt)' = EscrowedFees(mm, tt)
    BY <1>0, <1>6, <1>10, EscrowsStay
  <2>2. feesReserved'[mm][tt] = feesReserved[mm][tt]
    BY <1>1, <1>2, <1>10
  <2> QED
    BY <1>5, <2>1, <2>2 DEF ReserveIsOwed
<1> QED
  BY <1>9, <1>10

(* A claim paid leaves the reserve with it.                                *)
LEMMA ClaimKeepsReserve ==
  ASSUME MirrorInv, MirrorTypeOK', ReserveIsOwed,
         NEW m \in Mirrors, NEW t \in Tokens, NEW a \in FeeAccounts, ClaimFees(m, t, a)
  PROVE  ReserveIsOwed'
<1> DEFINE amount == feesClaimable[m][t][a]
<1>0. RequestTypeOK /\ RequestTypeOK'
  BY DEF MirrorInv, MirrorTypeOK
<1>1. /\ feesClaimable \in [Mirrors -> [Tokens -> [FeeAccounts -> Nat]]]
      /\ feesReserved \in [Mirrors -> [Tokens -> Nat]]
      /\ feesClaimable[m][t] \in [FeeAccounts -> Nat]
      /\ amount \in Nat
  BY <1>0 DEF RequestTypeOK
<1>2. /\ feesClaimable' = [feesClaimable EXCEPT ![m][t] = [feesClaimable[m][t] EXCEPT ![a] = 0]]
      /\ feesReserved' = [feesReserved EXCEPT ![m][t] = @ - amount]
      /\ UNCHANGED <<requests, fees>>
  BY <1>1 DEF ClaimFees
<1>3. SumFunction([feesClaimable[m][t] EXCEPT ![a] = 0]) = SumFunction(feesClaimable[m][t]) - amount
  BY <1>1, ClaimedLess
<1> SUFFICES ASSUME NEW mm \in Mirrors, NEW tt \in Tokens
             PROVE  feesReserved'[mm][tt] = EscrowedFees(mm, tt)' + ClaimableFees(mm, tt)'
  BY DEF ReserveIsOwed
<1>4. EscrowedFees(mm, tt)' = EscrowedFees(mm, tt)
  <2>1. \A j \in Ids : Escrows(mm, tt)'[j] = Escrows(mm, tt)[j]
    BY <1>2 DEF Escrows, FeeToken
  <2> QED
    BY <1>0, <2>1, EscrowsStay
<1>5. EscrowedFees(mm, tt) \in Nat
  <2>1. Escrows(mm, tt) \in [Ids -> Nat] /\ EscrowedFees(mm, tt) = SumFunctionOnSet(Escrows(mm, tt), Ids)
    BY <1>0, EscrowsType
  <2> QED
    BY <2>1, IdsFinite, SumIsNat
<1>6. CASE mm = m /\ tt = t
  <2> DEFINE c == [feesClaimable[m][t] EXCEPT ![a] = 0]
  <2>1. feesClaimable'[m][t] = c /\ feesReserved'[m][t] = feesReserved[m][t] - amount
    <3> HIDE DEF c, amount
    <3> QED
      BY <1>1, <1>2 DEF c
  <2>2. ClaimableFees(m, t)' = ClaimableFees(m, t) - amount
    BY <1>3, <2>1 DEF ClaimableFees
  <2>3. ClaimableFees(m, t) \in Nat
    BY <1>1, ClaimsNat DEF ClaimableFees
  <2> HIDE DEF amount, c
  <2> QED
    BY <1>1, <1>4, <1>5, <1>6, <2>1, <2>2, <2>3 DEF ReserveIsOwed
<1>7. CASE ~(mm = m /\ tt = t)
  <2>1. feesClaimable'[mm][tt] = feesClaimable[mm][tt]
        /\ feesReserved'[mm][tt] = feesReserved[mm][tt]
    BY <1>1, <1>2, <1>7
  <2> QED
    BY <1>4, <2>1 DEF ReserveIsOwed, ClaimableFees
<1> QED
  BY <1>6, <1>7

(* The reserve is what is owed, after every kind of mirror transaction.    *)
LEMMA MirrorKeepsReserve ==
  ASSUME MirrorInv, ReserveIsOwed, MirrorNext
  PROVE  ReserveIsOwed'
<1>1. MirrorTypeOK'
  BY MirrorNextType DEF MirrorInv
<1>2. ASSUME UNCHANGED ledgerVars
      PROVE  ReserveIsOwed'
  BY <1>2 DEF ledgerVars, ReserveIsOwed, EscrowedFees, Escrows, ClaimableFees, FeeToken
<1> QED
  BY <1>1, <1>2, LedgerKinds, TakingKeepsReserve, ReleaseKeepsReserve, ClaimKeepsReserve

-----------------------------------------------------------------------------
(* SwapRequest facing any home chain that keeps its promise.               *)

(* The home chain's answers are well typed.                                *)
LEMMA HomeAnswersType ==
  ASSUME WireTypeOK, HomeAnswers
  PROVE  WireTypeOK'
<1>1. PICK p \in orders :
        \/ \E t \in Tokens, sd \in Outputs \cup {p.sd}, status \in {"FILLED", "REFUNDED"} :
             Answer(p, t, sd, status)
        \/ Hold(p)
        \/ Kill(p)
        \/ Consume(p)
  BY DEF HomeAnswers
<1>2. /\ p.m \in Mirrors /\ p.t \in Tokens /\ p.id \in Ids \cup {0}
      /\ p.sd \in Nat /\ p.nonce \in Nat
  BY DEF WireTypeOK, OrderPacket
<1>3. CASE \E t \in Tokens, sd \in Outputs \cup {p.sd}, status \in {"FILLED", "REFUNDED"} :
             Answer(p, t, sd, status)
  <2>1. PICK t \in Tokens, sd \in Outputs \cup {p.sd}, status \in {"FILLED", "REFUNDED"} :
               Answer(p, t, sd, status)
    BY <1>3
  <2>2. sd \in Nat /\ p.id \in Ids
    BY <1>2, <2>1, PromiseAssumption DEF Answer
  <2>3. SendReturn(p.m, t, p.id, sd, status)
    BY <2>1 DEF Answer
  <2>4. backNonce' \in [Mirrors -> [Tokens -> Nat]] /\ returns' \subseteq ReturnPacket
    BY <1>2, <2>2, <2>3, SendReturnType
  <2> QED
    BY <2>1, <2>4 DEF Answer, WireTypeOK
<1>4. CASE Hold(p)
  <2>1. "base" \in Tokens /\ "STRANDED" \in {"STRANDED", "CANCELLED"} /\ 0 \in Nat
    BY DEF Tokens
  <2>2. SendNotice(p.m, "STRANDED", p.id, "base", 0)
    BY <1>4 DEF Hold
  <2>3. noticeNonce' \in [Mirrors -> Nat] /\ notices' \subseteq Notice
    BY <1>2, <2>1, <2>2, SendNoticeType
  <2> QED
    BY <1>4, <2>3 DEF Hold, WireTypeOK
<1>5. CASE Kill(p)
  <2>1. "CANCELLED" \in {"STRANDED", "CANCELLED"}
    OBVIOUS
  <2>2. SendNotice(p.m, "CANCELLED", 0, p.t, p.nonce)
    BY <1>5 DEF Kill
  <2>3. noticeNonce' \in [Mirrors -> Nat] /\ notices' \subseteq Notice
    BY <1>2, <2>1, <2>2, SendNoticeType
  <2> QED
    BY <1>5, <2>3 DEF Kill, WireTypeOK
<1>6. CASE Consume(p)
  BY <1>6 DEF Consume, WireTypeOK
<1> QED
  BY <1>1, <1>3, <1>4, <1>5, <1>6

(* Nothing is owed at the start.                                           *)
LEMMA ReserveAtStart ==
  ASSUME MirrorInit
  PROVE  MirrorInv /\ ReserveIsOwed
<1>1. MirrorTypeOK
  BY MirrorInitType
<1>2. TakenInOrder
  BY DEF MirrorInit, RequestInit, TakenInOrder
<1>3. EscrowsRecorded
  BY DEF MirrorInit, RequestInit, EscrowsRecorded, EmptyRequest, EmptyEscrow
<1>4. ReserveIsOwed
  <2> SUFFICES ASSUME NEW m \in Mirrors, NEW t \in Tokens
               PROVE  feesReserved[m][t] = EscrowedFees(m, t) + ClaimableFees(m, t)
    BY DEF ReserveIsOwed
  <2>1. EscrowedFees(m, t) = 0
    <3>1. \A i \in Ids : Escrows(m, t)[i] = 0
      BY DEF MirrorInit, RequestInit, Escrows, EmptyEscrow
    <3>2. DOMAIN Escrows(m, t) = Ids
      BY DEF Escrows
    <3> QED
      BY <3>1, <3>2, IdsFinite, SumOfZeros DEF EscrowedFees, SumFunction
  <2>2. ClaimableFees(m, t) = 0
    <3>1. \A a \in FeeAccounts : feesClaimable[m][t][a] = 0
      BY DEF MirrorInit, RequestInit
    <3>2. DOMAIN feesClaimable[m][t] = FeeAccounts
      BY DEF MirrorInit, RequestInit
    <3>3. IsFiniteSet(FeeAccounts)
      BY WireAssumption, FS_Union DEF FeeAccounts
    <3> QED
      BY <3>1, <3>2, <3>3, SumOfZeros DEF ClaimableFees, SumFunction
  <2>3. feesReserved[m][t] = 0
    BY DEF MirrorInit, RequestInit
  <2> QED
    BY <2>1, <2>2, <2>3
<1> QED
  BY <1>1, <1>2, <1>3, <1>4 DEF MirrorInv

(* The home chain touches no ledger, and the tables keep their shape.      *)
LEMMA PromiseKeepsInv ==
  ASSUME MirrorInv, [PromiseNext]_mirrorVars
  PROVE  MirrorInv'
<1>1. CASE MirrorNext
  <2>1. MirrorTypeOK'
    BY <1>1, MirrorNextType DEF MirrorInv
  <2> QED
    BY <1>1, <2>1, MirrorInvKept
<1>2. CASE HomeAnswers /\ UNCHANGED requestVars
  <2>1. WireTypeOK'
    BY <1>2, HomeAnswersType DEF MirrorInv, MirrorTypeOK
  <2>2. UNCHANGED requestVars
    BY <1>2
  <2> QED
    BY <2>1, <2>2 DEF MirrorInv, MirrorTypeOK, RequestTypeOK, requestVars,
                      TakenInOrder, EscrowsRecorded, Recorded
<1>3. CASE UNCHANGED mirrorVars
  BY <1>3 DEF mirrorVars, wireVars, requestVars, MirrorInv, MirrorTypeOK, WireTypeOK,
              RequestTypeOK, TakenInOrder, EscrowsRecorded, Recorded
<1> QED
  BY <1>1, <1>2, <1>3 DEF PromiseNext

(***************************************************************************)
(* The invariant of the tables, for every home chain that keeps its        *)
(* promise.                                                                *)
(***************************************************************************)
LEMMA MirrorInvariant == PromiseSpec => []MirrorInv
<1>1. MirrorInit => MirrorInv
  BY ReserveAtStart
<1>2. MirrorInv /\ [PromiseNext]_mirrorVars => MirrorInv'
  BY PromiseKeepsInv
<1> QED
  BY <1>1, <1>2, PTL DEF PromiseSpec

(***************************************************************************)
(* What SwapRequest keeps back from the owner's sweep is exactly what it   *)
(* owes in fees, in every reachable state: open escrows and claims.        *)
(***************************************************************************)
THEOREM ReserveMatchesDebts == PromiseSpec => []ReserveIsOwed
<1>1. MirrorInit => ReserveIsOwed
  BY ReserveAtStart
<1>2. MirrorInv /\ ReserveIsOwed /\ [PromiseNext]_mirrorVars => ReserveIsOwed'
  <2> SUFFICES ASSUME MirrorInv, ReserveIsOwed, [PromiseNext]_mirrorVars
               PROVE  ReserveIsOwed'
    OBVIOUS
  <2>1. CASE MirrorNext
    BY <2>1, MirrorKeepsReserve
  <2>2. CASE UNCHANGED requestVars
    BY <2>2 DEF requestVars, ReserveIsOwed, EscrowedFees, Escrows, ClaimableFees, FeeToken
  <2>3. CASE UNCHANGED mirrorVars
    BY <2>2, <2>3 DEF mirrorVars
  <2> QED
    BY <2>1, <2>2, <2>3 DEF PromiseNext
<1> QED
  BY <1>1, <1>2, MirrorInvariant, PTL DEF PromiseSpec

-----------------------------------------------------------------------------
(* The tokens behind the settlements the endpoint has queued.              *)

(* What the settlement p pays on mirror m in asset t.                      *)
Worth(p, m, t) ==
  IF p.m = m /\ p.t = t THEN ToLocal(p.sd, MirrorQuantum[m][t]) ELSE 0

QueuedIn(C, m, t) == SumFunction([p \in C |-> Worth(p, m, t)])

(* A queue of settlements pays a natural number.                           *)
LEMMA WorthIsNat ==
  ASSUME NEW p \in ReturnPacket, NEW m \in Mirrors, NEW t \in Tokens
  PROVE  Worth(p, m, t) \in Nat
<1>1. p.sd \in Nat
  BY DEF ReturnPacket
<1> QED
  BY <1>1, MirrorWorth DEF Worth

(* A queue as a sum over its members.                                      *)
LEMMA QueuedSum ==
  ASSUME NEW C \in SUBSET ReturnPacket, IsFiniteSet(C), NEW D \in SUBSET C,
         NEW m \in Mirrors, NEW t \in Tokens
  PROVE  /\ QueuedIn(D, m, t) \in Nat
         /\ QueuedIn(D, m, t) = SumFunctionOnSet([p \in C |-> Worth(p, m, t)], D)
<1> DEFINE f == [p \in D |-> Worth(p, m, t)]
           g == [p \in C |-> Worth(p, m, t)]
<1>1. IsFiniteSet(D)
  BY FS_Subset
<1>2. \A p \in D : f[p] = g[p] /\ f[p] \in Nat
  BY WorthIsNat
<1>3. DOMAIN f = D /\ QueuedIn(D, m, t) = SumFunction(f)
  BY DEF QueuedIn
<1> HIDE DEF f, g
<1>4. SumFunctionOnSet(f, D) = SumFunctionOnSet(g, D)
  BY <1>1, <1>2, SumOfSame
<1>5. SumFunctionOnSet(f, D) \in Nat
  BY <1>1, <1>2, SumIsNat
<1> QED
  BY <1>3, <1>4, <1>5 DEF SumFunction, g

(* A settlement leaves the queue.                                          *)
LEMMA QueuedDrops ==
  ASSUME NEW C \in SUBSET ReturnPacket, IsFiniteSet(C), NEW p \in C,
         NEW m \in Mirrors, NEW t \in Tokens
  PROVE  /\ QueuedIn(C, m, t) \in Nat /\ QueuedIn(C \ {p}, m, t) \in Nat
         /\ Worth(p, m, t) \in Nat
         /\ QueuedIn(C, m, t) = Worth(p, m, t) + QueuedIn(C \ {p}, m, t)
<1> DEFINE g == [q \in C |-> Worth(q, m, t)]
<1>1. \A q \in C : g[q] = Worth(q, m, t) /\ g[q] \in Nat
  BY WorthIsNat
<1>2. /\ QueuedIn(C, m, t) \in Nat /\ QueuedIn(C \ {p}, m, t) \in Nat
      /\ QueuedIn(C, m, t) = SumFunctionOnSet(g, C)
      /\ QueuedIn(C \ {p}, m, t) = SumFunctionOnSet(g, C \ {p})
  BY QueuedSum
<1> HIDE DEF g
<1>3. SumFunctionOnSet(g, C) = g[p] + SumFunctionOnSet(g, C \ {p})
  BY <1>1, SumTakesAny
<1> QED
  BY <1>1, <1>2, <1>3

(* A settlement joins it: at most its worth is added.                      *)
LEMMA QueuedAdds ==
  ASSUME NEW C \in SUBSET ReturnPacket, IsFiniteSet(C), NEW p \in ReturnPacket,
         NEW m \in Mirrors, NEW t \in Tokens
  PROVE  /\ QueuedIn(C, m, t) \in Nat /\ QueuedIn(C \cup {p}, m, t) \in Nat
         /\ Worth(p, m, t) \in Nat
         /\ QueuedIn(C \cup {p}, m, t) <= QueuedIn(C, m, t) + Worth(p, m, t)
<1>1. IsFiniteSet(C \cup {p}) /\ C \cup {p} \in SUBSET ReturnPacket
  BY FS_AddElement
<1>2. QueuedIn(C, m, t) \in Nat /\ QueuedIn(C \cup {p}, m, t) \in Nat
      /\ Worth(p, m, t) \in Nat
  BY <1>1, QueuedSum, WorthIsNat
<1>3. CASE p \in C
  <2>1. C \cup {p} = C
    BY <1>3
  <2>2. QueuedIn(C \cup {p}, m, t) = QueuedIn(C, m, t)
    BY <2>1
  <2> QED
    BY <1>2, <2>2
<1>4. CASE p \notin C
  <2>1. (C \cup {p}) \ {p} = C
    BY <1>4
  <2>2. QueuedIn(C \cup {p}, m, t) = Worth(p, m, t) + QueuedIn((C \cup {p}) \ {p}, m, t)
    BY <1>1, QueuedDrops
  <2>3. QueuedIn((C \cup {p}) \ {p}, m, t) = QueuedIn(C, m, t)
    BY <2>1
  <2> QED
    BY <1>2, <2>2, <2>3
<1> QED
  BY <1>3, <1>4

(* Nothing queued in an asset pays nothing in it.                          *)
LEMMA QueuedNone ==
  ASSUME NEW C \in SUBSET ReturnPacket, IsFiniteSet(C), NEW m \in Mirrors, NEW t \in Tokens,
         \A p \in C : p.m # m \/ p.t # t
  PROVE  QueuedIn(C, m, t) = 0
<1> DEFINE g == [q \in C |-> Worth(q, m, t)]
<1>1. \A q \in C : g[q] = 0
  BY DEF Worth
<1>2. QueuedIn(C, m, t) = SumFunctionOnSet(g, C)
  BY QueuedSum
<1> HIDE DEF g
<1> QED
  BY <1>1, <1>2, SumOfZeros

(* What a settlement's own payment does to the mirror's assets.            *)
LEMMA PaymentMoves ==
  ASSUME MirrorTypeOK, NEW p \in composing, Compose(p), NEW t \in Tokens,
         requests[p.m][p.id].user \in Users
  PROVE  LET u == requests[p.m][p.id].user IN
         /\ Worth(p, p.m, t) \in Nat
         /\ Worth(p, p.m, t) <= mirrorToken[p.m][t].bal[Contract]
         /\ PaidOut(p)[t].bal[Contract] = mirrorToken[p.m][t].bal[Contract] - Worth(p, p.m, t)
         /\ PaidOut(p)[t].bal[u] = mirrorToken[p.m][t].bal[u] + Worth(p, p.m, t)
         /\ mirrorToken[p.m][t].bal[Contract] \in Nat
         /\ mirrorToken[p.m][t].bal[u] \in Nat
         /\ p.t # t => PaidOut(p)[t] = mirrorToken[p.m][t]
<1> DEFINE u == requests[p.m][p.id].user
           k == mirrorToken[p.m][p.t]
           out == ToLocal(p.sd, MirrorQuantum[p.m][p.t])
<1>1. p \in ReturnPacket /\ p.m \in Mirrors /\ p.t \in Tokens /\ p.sd \in Nat
  BY DEF MirrorTypeOK, WireTypeOK, ReturnPacket
<1>2. /\ k \in Token /\ out \in Nat /\ mirrorToken[p.m] \in [Tokens -> Token]
      /\ CanPay(k, Contract, out)
  BY <1>1, MirrorWorth DEF MirrorTypeOK, WireTypeOK, Compose
<1>3. u \in Accounts /\ Contract \in Accounts /\ u # Contract
  BY NamedAccounts, ContractApart
<1>4. mirrorToken[p.m][t] \in Token
  BY <1>2
<1>5. mirrorToken[p.m][t].bal[Contract] \in Nat /\ mirrorToken[p.m][t].bal[u] \in Nat
  BY <1>3, <1>4 DEF Token
<1>6. CASE t # p.t
  <2>1. PaidOut(p)[t] = mirrorToken[p.m][t] /\ Worth(p, p.m, t) = 0
    BY <1>2, <1>6 DEF PaidOut, Worth
  <2>2. PICK b, c \in Nat : /\ b = mirrorToken[p.m][t].bal[Contract]
                            /\ c = mirrorToken[p.m][t].bal[u]
    BY <1>5
  <2>3. 0 \in Nat /\ 0 <= b /\ b = b - 0 /\ c = c + 0
    OBVIOUS
  <2> HIDE DEF u
  <2>4. /\ PaidOut(p)[t].bal[Contract] = b - Worth(p, p.m, t)
        /\ PaidOut(p)[t].bal[u] = c + Worth(p, p.m, t)
        /\ Worth(p, p.m, t) \in Nat /\ Worth(p, p.m, t) <= b
    BY <2>1, <2>2, <2>3
  <2> QED
    BY <2>1, <2>2, <2>4 DEF u
<1>7. CASE t = p.t
  <2>1. PaidOut(p)[t] = Transfer(k, Contract, u, out) /\ Worth(p, p.m, t) = out
    BY <1>2, <1>7 DEF PaidOut, Worth
  <2> HIDE DEF out, u
  <2>2. /\ Transfer(k, Contract, u, out).bal[Contract] = k.bal[Contract] - out
        /\ Transfer(k, Contract, u, out).bal[u] = k.bal[u] + out
        /\ k.bal[Contract] >= out
    BY <1>2, <1>3, TransferMoves DEF CanPay
  <2> QED
    BY <1>2, <1>5, <1>7, <2>1, <2>2 DEF u
<1> QED
  BY <1>6, <1>7

(* A settlement pays at most what it is worth, and releases a reserve of   *)
(* what it returns in fees.                                                *)
LEMMA SettlePays ==
  ASSUME MirrorInv, NEW p \in composing, Settle(p), NEW m \in Mirrors, NEW t \in Tokens
  PROVE  \E x \in Nat, y \in Nat :
           /\ y <= Worth(p, m, t)
           /\ mirrorToken'[m][t].bal[Contract] = mirrorToken[m][t].bal[Contract] - y - x
           /\ feesReserved'[m][t] = feesReserved[m][t] - x
<1> DEFINE r == requests[p.m][p.id]
           w == Worth(p, m, t)
<1>0. Compose(p) /\ MirrorTypeOK
  BY DEF Settle, ComposeFill, ComposeRefund, ComposeLate, MirrorInv
<1>1. /\ p.m \in Mirrors /\ p.t \in Tokens /\ p.id \in Ids /\ p \in ReturnPacket
      /\ PaidOut(p) \in [Tokens -> Token]
      /\ mirrorToken \in [Mirrors -> [Tokens -> Token]]
      /\ feesReserved \in [Mirrors -> [Tokens -> Nat]]
  BY <1>0, ComposeType DEF MirrorTypeOK, WireTypeOK, RequestTypeOK
<1>2. w \in Nat /\ mirrorToken[m][t].bal[Contract] \in Nat /\ feesReserved[m][t] \in Nat
  BY <1>1, WorthIsNat, NamedAccounts DEF Token
<1>3. r.user \in Users => PaidOut(p)[t].bal[Contract] = mirrorToken[p.m][t].bal[Contract] - Worth(p, p.m, t)
  BY <1>0, PaymentMoves
<1>4. CASE ComposeFill(p)
  <2>1. r.user \in Users
    BY <1>1, <1>4 DEF ComposeFill, MirrorInv, EscrowsRecorded
  <2>2. feesReserved' = feesReserved /\ mirrorToken' = [mirrorToken EXCEPT ![p.m] = PaidOut(p)]
    BY <1>4 DEF ComposeFill, EarnFees
  <2>3. mirrorToken'[m][t].bal[Contract] = mirrorToken[m][t].bal[Contract] - w - 0
        /\ feesReserved'[m][t] = feesReserved[m][t] - 0
    <3>1. CASE m = p.m
      BY <1>1, <1>2, <1>3, <2>1, <2>2, <3>1
    <3>2. CASE m # p.m
      BY <1>1, <1>2, <2>2, <3>2 DEF Worth
    <3> QED
      BY <3>1, <3>2
  <2> HIDE DEF w
  <2> QED
    BY <1>2, <2>3 DEF w
<1>5. ASSUME NEW accepted \in TokenAccepts, ComposeRefund(p, accepted)
      PROVE  \E x \in Nat, y \in Nat :
               /\ y <= w
               /\ mirrorToken'[m][t].bal[Contract] = mirrorToken[m][t].bal[Contract] - y - x
               /\ feesReserved'[m][t] = feesReserved[m][t] - x
  <2>1. r.user \in Users
    BY <1>1, <1>5 DEF ComposeRefund, MirrorInv, EscrowsRecorded
  <2>2. accepted \in BOOLEAN /\ ReturnFees(p.m, p.id, PaidOut(p), accepted)
    BY <1>5, RequestAssumption DEF ComposeRefund
  <2>3. CASE m # p.m
    <3>1. /\ mirrorToken'[m] = mirrorToken[m]
          /\ feesReserved'[m][t] = feesReserved[m][t]
      BY <1>1, <2>2, <2>3 DEF ReturnFees
    <3>2. w = 0
      BY <2>3 DEF Worth
    <3>3. /\ mirrorToken'[m][t].bal[Contract] = mirrorToken[m][t].bal[Contract] - 0 - 0
          /\ feesReserved'[m][t] = feesReserved[m][t] - 0
          /\ 0 <= w
      BY <1>2, <3>1, <3>2
    <3> QED
      BY <3>3
  <2>4. CASE m = p.m
    <3> DEFINE ti == TokenIn(r.dir)
               held == PaidOut(p)
    <3>0. ti \in Tokens
      BY <1>0, <1>1, LedgerTypes
    <3>1. held[t].bal[Contract] = mirrorToken[m][t].bal[Contract] - w
      BY <1>3, <2>1, <2>4
    <3>2. \/ /\ NothingReleased(p.m, p.id)
             /\ mirrorToken' = [mirrorToken EXCEPT ![p.m] = held]
          \/ \E c, x :
               /\ Releases(p.m, p.id, "RETURNED", c, x)
               /\ \E k \in Token :
                    /\ mirrorToken' = [mirrorToken EXCEPT ![p.m] = [held EXCEPT ![ti] = k]]
                    /\ k.bal[Contract] = held[ti].bal[Contract] - x
                    /\ k.bal[r.user] = held[ti].bal[r.user] + x
                    /\ c[r.user] = feesClaimable[p.m][ti][r.user]
                                     + (EscrowTotal(fees[p.m][p.id]) - x)
      <4> HIDE DEF held
      <4>1. held \in [Tokens -> Token] /\ ReturnFees(p.m, p.id, held, accepted)
        BY <1>1, <2>2 DEF held
      <4> QED
        <5>1. ReturnsFees(p.m, p.id, held)
          BY <1>1, <2>1, <2>2, <4>1, FeesReturned
        <5> QED
          BY <5>1 DEF ReturnsFees
    <3>3. CASE NothingReleased(p.m, p.id) /\ mirrorToken' = [mirrorToken EXCEPT ![p.m] = held]
      <4>1. mirrorToken'[m][t].bal[Contract] = mirrorToken[m][t].bal[Contract] - w - 0
            /\ feesReserved'[m][t] = feesReserved[m][t] - 0
        <5> HIDE DEF held, w
        <5> QED
          BY <1>1, <1>2, <2>4, <3>1, <3>3 DEF NothingReleased
      <4> HIDE DEF w
      <4> QED
        BY <1>2, <4>1
    <3>4. ASSUME NEW c, NEW x, Releases(p.m, p.id, "RETURNED", c, x), NEW k \in Token,
                 mirrorToken' = [mirrorToken EXCEPT ![p.m] = [held EXCEPT ![ti] = k]],
                 k.bal[Contract] = held[ti].bal[Contract] - x
          PROVE  \E z \in Nat :
                   /\ mirrorToken'[m][t].bal[Contract] = mirrorToken[m][t].bal[Contract] - w - z
                   /\ feesReserved'[m][t] = feesReserved[m][t] - z
      <4>1. x \in Nat /\ feesReserved' = [feesReserved EXCEPT ![p.m][ti] = @ - x]
        <5>1. EscrowTotal(fees[p.m][p.id]) \in Nat
          BY <1>0, <1>1, LedgerTypes
        <5>2. /\ x \in 0..EscrowTotal(fees[p.m][p.id])
              /\ feesReserved' = [feesReserved EXCEPT ![p.m][ti] = @ - x]
          BY <3>4 DEF Releases
        <5> QED
          BY <5>1, <5>2
      <4>2. held \in [Tokens -> Token]
        BY <1>1
      <4> HIDE DEF held, ti, w
      <4>3. CASE t = ti
        <5>1. mirrorToken'[m][t] = k /\ feesReserved'[m][t] = feesReserved[m][t] - x
          BY <1>1, <2>4, <3>0, <3>4, <4>1, <4>2, <4>3
        <5> QED
          BY <1>2, <3>1, <3>4, <4>1, <4>3, <5>1
      <4>4. CASE t # ti
        <5>1. mirrorToken'[m][t] = held[t] /\ feesReserved'[m][t] = feesReserved[m][t] - 0
          BY <1>1, <1>2, <2>4, <3>0, <3>4, <4>1, <4>2, <4>4
        <5>2. mirrorToken'[m][t].bal[Contract] = mirrorToken[m][t].bal[Contract] - w - 0
          BY <1>2, <3>1, <5>1
        <5> QED
          BY <5>1, <5>2
      <4> QED
        BY <4>3, <4>4
    <3>5. w <= w
      BY <1>2
    <3> HIDE DEF held, ti, w
    <3> QED
      BY <1>2, <3>2, <3>3, <3>4, <3>5
  <2> QED
    BY <2>3, <2>4
<1>6. CASE ComposeLate(p)
  <2>1. feesReserved' = feesReserved
        /\ mirrorToken' = [mirrorToken EXCEPT ![p.m] = IF r.user # NoUser THEN PaidOut(p) ELSE @]
    BY <1>6 DEF ComposeLate
  <2>2. feesReserved'[m][t] = feesReserved[m][t] - 0
    BY <1>2, <2>1
  <2>3. CASE m = p.m /\ r.user # NoUser
    <3>1. r.user \in Users
      BY <1>1, <2>3 DEF MirrorInv, EscrowsRecorded, EmptyRequest
    <3>2. mirrorToken'[m][t].bal[Contract] = mirrorToken[m][t].bal[Contract] - w - 0
      BY <1>1, <1>2, <1>3, <2>1, <2>3, <3>1
    <3> HIDE DEF w
    <3> QED
      BY <1>2, <2>2, <3>2 DEF w
  <2>4. CASE ~(m = p.m /\ r.user # NoUser)
    <3>1. mirrorToken'[m][t].bal[Contract] = mirrorToken[m][t].bal[Contract] - 0 - 0
      BY <1>1, <1>2, <2>1, <2>4
    <3>2. 0 <= w
      BY <1>2
    <3> HIDE DEF w
    <3> QED
      BY <1>2, <2>2, <3>1, <3>2 DEF w
  <2> QED
    BY <2>3, <2>4
<1> QED
  BY <1>4, <1>5, <1>6 DEF Settle

(* A notice returns fees from the reserve.                                 *)
LEMMA NoticePays ==
  ASSUME MirrorInv, NEW n \in notices, HearNotice(n), NEW m \in Mirrors, NEW t \in Tokens
  PROVE  \E x \in Nat :
           /\ mirrorToken'[m][t].bal[Contract] = mirrorToken[m][t].bal[Contract] - x
           /\ feesReserved'[m][t] = feesReserved[m][t] - x
<1>0. MirrorTypeOK
  BY DEF MirrorInv
<1>1. /\ n.m \in Mirrors
      /\ mirrorToken \in [Mirrors -> [Tokens -> Token]]
      /\ feesReserved \in [Mirrors -> [Tokens -> Nat]]
  BY <1>0 DEF MirrorTypeOK, WireTypeOK, RequestTypeOK, Notice
<1>2. mirrorToken[m][t].bal[Contract] \in Nat /\ feesReserved[m][t] \in Nat
  BY <1>1, NamedAccounts DEF Token
<1>3. ASSUME NEW i \in Ids, i \in Concerned(n), NEW accepted \in TokenAccepts,
             NEW held \in [Tokens -> Token],
             \A tt \in Tokens : held[tt].bal[Contract] = mirrorToken[n.m][tt].bal[Contract],
             ReturnFees(n.m, i, held, accepted)
      PROVE  \E x \in Nat :
               /\ mirrorToken'[m][t].bal[Contract] = mirrorToken[m][t].bal[Contract] - x
               /\ feesReserved'[m][t] = feesReserved[m][t] - x
  <2> DEFINE r == requests[n.m][i]
             ti == TokenIn(r.dir)
  <2>1. r.user \in Users /\ ti \in Tokens
    BY <1>0, <1>1, <1>3, LedgerTypes DEF Concerned, MirrorInv, EscrowsRecorded
  <2>2. accepted \in BOOLEAN
    BY RequestAssumption
  <2>3. CASE m # n.m
    <3>1. mirrorToken'[m] = mirrorToken[m] /\ feesReserved'[m][t] = feesReserved[m][t]
      BY <1>1, <1>3, <2>3 DEF ReturnFees
    <3>2. /\ mirrorToken'[m][t].bal[Contract] = mirrorToken[m][t].bal[Contract] - 0
          /\ feesReserved'[m][t] = feesReserved[m][t] - 0
      BY <1>2, <3>1
    <3> QED
      BY <3>2
  <2>4. CASE m = n.m
    <3>1. \/ /\ NothingReleased(n.m, i)
             /\ mirrorToken' = [mirrorToken EXCEPT ![n.m] = held]
          \/ \E c, x :
               /\ Releases(n.m, i, "RETURNED", c, x)
               /\ \E k \in Token :
                    /\ mirrorToken' = [mirrorToken EXCEPT ![n.m] = [held EXCEPT ![ti] = k]]
                    /\ k.bal[Contract] = held[ti].bal[Contract] - x
                    /\ k.bal[r.user] = held[ti].bal[r.user] + x
                    /\ c[r.user] = feesClaimable[n.m][ti][r.user]
                                     + (EscrowTotal(fees[n.m][i]) - x)
      <4>1. ReturnsFees(n.m, i, held)
        BY <1>1, <1>3, <2>1, <2>2, FeesReturned
      <4> QED
        BY <4>1 DEF ReturnsFees
    <3>2. CASE NothingReleased(n.m, i) /\ mirrorToken' = [mirrorToken EXCEPT ![n.m] = held]
      <4>1. mirrorToken'[m][t].bal[Contract] = mirrorToken[m][t].bal[Contract] - 0
            /\ feesReserved'[m][t] = feesReserved[m][t] - 0
        BY <1>1, <1>2, <1>3, <2>4, <3>2 DEF NothingReleased
      <4> QED
        BY <4>1
    <3>3. ASSUME NEW c, NEW x, Releases(n.m, i, "RETURNED", c, x), NEW k \in Token,
                 mirrorToken' = [mirrorToken EXCEPT ![n.m] = [held EXCEPT ![ti] = k]],
                 k.bal[Contract] = held[ti].bal[Contract] - x
          PROVE  \E z \in Nat :
                   /\ mirrorToken'[m][t].bal[Contract] = mirrorToken[m][t].bal[Contract] - z
                   /\ feesReserved'[m][t] = feesReserved[m][t] - z
      <4>1. x \in Nat /\ feesReserved' = [feesReserved EXCEPT ![n.m][ti] = @ - x]
        <5>1. EscrowTotal(fees[n.m][i]) \in Nat
          BY <1>0, <1>1, LedgerTypes
        <5>2. /\ x \in 0..EscrowTotal(fees[n.m][i])
              /\ feesReserved' = [feesReserved EXCEPT ![n.m][ti] = @ - x]
          BY <3>3 DEF Releases
        <5> QED
          BY <5>1, <5>2
      <4> HIDE DEF ti
      <4>2. CASE t = ti
        <5>1. mirrorToken'[m][t] = k /\ feesReserved'[m][t] = feesReserved[m][t] - x
          BY <1>1, <1>3, <2>1, <2>4, <3>3, <4>1, <4>2
        <5>2. mirrorToken'[m][t].bal[Contract] = mirrorToken[m][t].bal[Contract] - x
          BY <1>3, <2>4, <3>3, <4>2, <5>1
        <5> QED
          BY <4>1, <5>1, <5>2
      <4>3. CASE t # ti
        <5>1. mirrorToken'[m][t] = held[t] /\ feesReserved'[m][t] = feesReserved[m][t] - 0
          BY <1>1, <1>2, <1>3, <2>1, <2>4, <3>3, <4>1, <4>3
        <5>2. mirrorToken'[m][t].bal[Contract] = mirrorToken[m][t].bal[Contract] - 0
          BY <1>2, <1>3, <2>4, <5>1
        <5> QED
          BY <5>1, <5>2
      <4> QED
        BY <4>2, <4>3
    <3> HIDE DEF ti, r
    <3> QED
      BY <3>1, <3>2, <3>3
  <2> QED
    BY <2>3, <2>4
<1>4. ASSUME NEW i \in Ids, NEW accepted \in TokenAccepts, NoticeStranded(n, i, accepted)
      PROVE  \E x \in Nat :
               /\ mirrorToken'[m][t].bal[Contract] = mirrorToken[m][t].bal[Contract] - x
               /\ feesReserved'[m][t] = feesReserved[m][t] - x
  <2>1. mirrorToken[n.m] \in [Tokens -> Token]
    BY <1>1
  <2> QED
    BY <1>3, <1>4, <2>1 DEF NoticeStranded
<1>5. ASSUME NEW i \in Ids, NEW accepted \in TokenAccepts, NoticeCancelled(n, i, accepted)
      PROVE  \E x \in Nat :
               /\ mirrorToken'[m][t].bal[Contract] = mirrorToken[m][t].bal[Contract] - x
               /\ feesReserved'[m][t] = feesReserved[m][t] - x
  <2> DEFINE r == requests[n.m][i]
             ti == TokenIn(r.dir)
             k == mirrorToken[n.m][ti]
             credited == RecoveryCredit(k, r.user, r.amountIn)
             restored == [mirrorToken[n.m] EXCEPT ![ti] = credited]
  <2>1. i \in Concerned(n) /\ ReturnFees(n.m, i, restored, accepted)
    BY <1>5 DEF NoticeCancelled
  <2>2. /\ ti \in Tokens /\ r \in Request /\ k \in Token /\ r.amountIn \in Nat
        /\ r.user \in Users /\ r.user \in Accounts /\ r.user # Contract
    <3>1. r \in Request /\ ti \in Tokens
      BY <1>0, <1>1, EscrowTypes
    <3>2. r.status = "PENDING"
      BY <2>1 DEF Concerned
    <3>3. r.user \in Users
      BY <1>1, <3>2 DEF MirrorInv, EscrowsRecorded
    <3> QED
      BY <1>1, <3>1, <3>3, NamedAccounts, ContractApart DEF Request
  <2>3. credited \in Token
    BY <2>2, MintType DEF RecoveryCredit
  <2>4. credited.bal[Contract] = k.bal[Contract]
    BY <2>2, MintMoves, NamedAccounts DEF RecoveryCredit
  <2>5. /\ restored \in [Tokens -> Token]
        /\ \A tt \in Tokens : restored[tt].bal[Contract] = mirrorToken[n.m][tt].bal[Contract]
    <3> HIDE DEF credited, ti
    <3> QED
      BY <1>1, <2>2, <2>3, <2>4
  <2> HIDE DEF restored
  <2> QED
    BY <1>3, <2>1, <2>5
<1>6. CASE NoticeIgnored(n)
  <2>1. /\ mirrorToken'[m][t].bal[Contract] = mirrorToken[m][t].bal[Contract] - 0
        /\ feesReserved'[m][t] = feesReserved[m][t] - 0
    BY <1>2, <1>6 DEF NoticeIgnored
  <2> QED
    BY <2>1
<1> QED
  BY <1>4, <1>5, <1>6 DEF HearNotice

(* A user bridges on their own account: nothing of the contract's moves.   *)
LEMMA DirectSendMoves ==
  ASSUME MirrorTypeOK, NEW m \in Mirrors, NEW t \in Tokens, NEW u \in Users,
         NEW sd \in DirectAmounts, DirectSend(m, t, u, sd),
         NEW mm \in Mirrors, NEW tt \in Tokens
  PROVE  mirrorToken'[mm][tt].bal[Contract] = mirrorToken[mm][tt].bal[Contract]
<1> DEFINE x == ToLocal(sd, MirrorQuantum[m][t])
           k == Burn(mirrorToken[m][t], u, x)
<1>1. mirrorToken \in [Mirrors -> [Tokens -> Token]] /\ mirrorToken[m][t] \in Token
  BY DEF MirrorTypeOK, WireTypeOK
<1>2. sd \in Nat /\ x \in Nat
  BY WireAssumption, MirrorWorth
<1>3. u \in Accounts /\ Contract \in Accounts /\ u # Contract
  BY NamedAccounts, ContractApart
<1>4. k.bal[Contract] = mirrorToken[m][t].bal[Contract]
  <2>1. PICK l \in Token, y \in Nat : l = mirrorToken[m][t] /\ y = x
    BY <1>1, <1>2
  <2>2. Burn(l, u, y).bal[Contract] = l.bal[Contract]
    BY <1>3, BurnMoves
  <2> QED
    BY <2>1, <2>2
<1>5. mirrorToken' = [mirrorToken EXCEPT ![m][t] = k]
  BY DEF DirectSend
<1> HIDE DEF k
<1> QED
  BY <1>1, <1>4, <1>5

(* A transfer of one asset of one mirror.                                  *)
Pays(m, t, a, b, x) ==
  mirrorToken' = [mirrorToken EXCEPT ![m][t] = Transfer(@, a, b, x)]

(* What a payment does to the balance of the contract.                     *)
LEMMA PaymentBalances ==
  ASSUME MirrorTypeOK, NEW m \in Mirrors, NEW t \in Tokens, NEW a \in Accounts,
         NEW b \in Accounts, NEW x \in Nat, Pays(m, t, a, b, x)
  PROVE  /\ mirrorToken[m][t].bal[Contract] \in Nat
         /\ mirrorToken'[m][t].bal[Contract]
              = mirrorToken[m][t].bal[Contract]
                + (IF b = Contract /\ a # Contract THEN x ELSE 0)
                - (IF a = Contract /\ b # Contract THEN x ELSE 0)
         /\ \A mm \in Mirrors, tt \in Tokens :
              ~(mm = m /\ tt = t) => mirrorToken'[mm][tt] = mirrorToken[mm][tt]
<1> DEFINE k == Transfer(mirrorToken[m][t], a, b, x)
<1>1. mirrorToken \in [Mirrors -> [Tokens -> Token]] /\ mirrorToken[m][t] \in Token
  BY DEF MirrorTypeOK, WireTypeOK
<1>2. mirrorToken' = [mirrorToken EXCEPT ![m][t] = k]
  BY DEF Pays
<1>3. Contract \in Accounts /\ mirrorToken[m][t].bal[Contract] \in Nat
  BY <1>1, NamedAccounts DEF Token
<1>4. k.bal[Contract] = mirrorToken[m][t].bal[Contract]
                        + (IF b = Contract /\ a # Contract THEN x ELSE 0)
                        - (IF a = Contract /\ b # Contract THEN x ELSE 0)
  <2>1. CASE a = b
    <3>1. k.bal[Contract] = mirrorToken[m][t].bal[Contract]
      BY <1>1, <1>3, <2>1, TransferToSelf
    <3> HIDE DEF k
    <3> QED
      BY <1>3, <2>1, <3>1
  <2>2. CASE a # b
    <3>1. /\ k.bal[a] = mirrorToken[m][t].bal[a] - x
          /\ k.bal[b] = mirrorToken[m][t].bal[b] + x
          /\ \A c \in Accounts \ {a, b} : k.bal[c] = mirrorToken[m][t].bal[c]
      BY <1>1, <2>2, TransferMoves
    <3> HIDE DEF k
    <3> QED
      BY <1>3, <2>2, <3>1
  <2> QED
    BY <2>1, <2>2
<1> HIDE DEF k
<1> QED
  BY <1>1, <1>2, <1>3, <1>4

QueueFinite == IsFiniteSet(composing)

(* The queue is what the endpoint has been handed: finite at every moment. *)
LEMMA QueueStaysFinite ==
  ASSUME QueueFinite, [PromiseNext]_mirrorVars
  PROVE  QueueFinite'
<1>1. CASE \E p \in returns : ReceiveReturn(p)
  BY <1>1, FS_AddElement DEF ReceiveReturn, QueueFinite
<1>2. CASE \E p \in composing : Settle(p)
  BY <1>2, FS_RemoveElement
  DEF Settle, ComposeFill, ComposeRefund, ComposeLate, Compose, QueueFinite
<1>3. CASE UNCHANGED composing
  BY <1>3 DEF QueueFinite
<1>4. CASE Administering
  BY <1>3, <1>4 DEF Administering, ClaimFees, SetPartner, SetPartnerRequired, SetPlatformFee,
                    InvalidateNonce, Sweep, SendStray, wireVars
<1>9. CASE Ordering
  <2>1. ASSUME NEW m, NEW trade, NEW partner, NEW bps, NEW recipient,
               Submit(m, trade, partner, bps, recipient)
        PROVE  UNCHANGED composing
    BY <2>1 DEF Submit
  <2> QED
    BY <1>3, <1>9, <2>1 DEF Ordering, SubmitOpen, SubmitVia
<1>5. CASE \E n \in notices : HearNotice(n)
  BY <1>3, <1>5 DEF HearNotice, NoticeStranded, NoticeCancelled, NoticeIgnored, ReceiveNotice
<1>6. CASE HomeAnswers
  BY <1>3, <1>6 DEF HomeAnswers, Answer, Hold, Kill, Consume
<1>7. CASE Bridging
  BY <1>1, <1>3, <1>7 DEF Bridging, DirectSend
<1>8. CASE UNCHANGED mirrorVars
  BY <1>3, <1>8 DEF mirrorVars, wireVars
<1> QED
  BY <1>2, <1>4, <1>5, <1>6, <1>7, <1>8, <1>9 DEF PromiseNext, MirrorNext, Settling

(* An owner's call, a claim and a stray transfer leave the payouts covered.*)
LEMMA AdministeringCovers ==
  ASSUME ~SweepWhileComposing, MirrorInv, QueueFinite, PayoutsCovered, Administering,
         NEW mm \in Mirrors, NEW tt \in Tokens
  PROVE  mirrorToken'[mm][tt].bal[Contract] >= feesReserved'[mm][tt] + QueuedIn(composing, mm, tt)
<1>0. /\ MirrorTypeOK
      /\ composing \in SUBSET ReturnPacket /\ IsFiniteSet(composing)
      /\ feesReserved \in [Mirrors -> [Tokens -> Nat]]
      /\ feesClaimable \in [Mirrors -> [Tokens -> [FeeAccounts -> Nat]]]
  BY DEF MirrorInv, MirrorTypeOK, WireTypeOK, RequestTypeOK, QueueFinite
<1>1. /\ mirrorToken[mm][tt].bal[Contract] >= feesReserved[mm][tt] + QueuedIn(composing, mm, tt)
      /\ feesReserved[mm][tt] \in Nat /\ QueuedIn(composing, mm, tt) \in Nat
  <2>1. QueuedIn(composing, mm, tt) = QueuedPayouts(mm, tt)
    BY DEF QueuedIn, QueuedPayouts, Payouts, Worth
  <2> QED
    BY <1>0, <2>1, QueuedSum DEF PayoutsCovered
<1>2. Contract \in Accounts /\ World \in Accounts /\ Contract # World
      /\ FeeAccounts \subseteq Accounts /\ Users \subseteq Accounts
  BY NamedAccounts DEF FeeAccounts, Accounts, Contract, World
<1>3. ASSUME NEW m \in Mirrors, NEW t \in Tokens, NEW a \in FeeAccounts, ClaimFees(m, t, a)
      PROVE  mirrorToken'[mm][tt].bal[Contract]
               >= feesReserved'[mm][tt] + QueuedIn(composing, mm, tt)
  <2> DEFINE x == feesClaimable[m][t][a]
  <2>1. /\ x \in Nat /\ x <= feesReserved[m][t]
        /\ Pays(m, t, Contract, a, x)
        /\ feesReserved' = [feesReserved EXCEPT ![m][t] = @ - x]
    BY <1>0, <1>3 DEF ClaimFees, Pays
  <2>2. a \in Accounts
    BY <1>2
  <2> HIDE DEF x
  <2>3. /\ mirrorToken[m][t].bal[Contract] \in Nat
        /\ mirrorToken'[m][t].bal[Contract] >= mirrorToken[m][t].bal[Contract] - x
        /\ mirrorToken'[m][t].bal[Contract] \in Int
        /\ \A m2 \in Mirrors, t2 \in Tokens :
              ~(m2 = m /\ t2 = t) => mirrorToken'[m2][t2] = mirrorToken[m2][t2]
    <3>1. /\ mirrorToken[m][t].bal[Contract] \in Nat
            /\ mirrorToken'[m][t].bal[Contract]
                 = mirrorToken[m][t].bal[Contract]
                   + (IF a = Contract /\ Contract # Contract THEN x ELSE 0)
                   - (IF Contract = Contract /\ a # Contract THEN x ELSE 0)
            /\ \A m2 \in Mirrors, t2 \in Tokens :
                 ~(m2 = m /\ t2 = t) => mirrorToken'[m2][t2] = mirrorToken[m2][t2]
      BY <1>0, <1>2, <2>1, <2>2, PaymentBalances
    <3> QED
      BY <1>2, <2>1, <2>2, <3>1
  <2>4. CASE mm = m /\ tt = t
    <3>1. feesReserved'[m][t] = feesReserved[m][t] - x
      BY <1>0, <2>1
    <3> QED
      BY <1>1, <2>1, <2>3, <2>4, <3>1
  <2>5. CASE ~(mm = m /\ tt = t)
    <3>1. feesReserved'[mm][tt] = feesReserved[mm][tt]
      BY <1>0, <2>1, <2>5
    <3> QED
      BY <1>1, <2>3, <2>5, <3>1
  <2> QED
    BY <2>4, <2>5
<1>4. ASSUME NEW m \in Mirrors, NEW t \in Tokens, NEW x \in SweepAmounts, Sweep(m, t, x)
      PROVE  mirrorToken'[mm][tt].bal[Contract]
               >= feesReserved'[mm][tt] + QueuedIn(composing, mm, tt)
  <2>1. /\ x \in Nat /\ x <= mirrorToken[m][t].bal[Contract] - feesReserved[m][t]
        /\ Pays(m, t, Contract, World, x)
        /\ feesReserved' = feesReserved
        /\ \A p \in composing : p.m # m \/ p.t # t
    BY <1>4, RequestAssumption DEF Sweep, Sweepable, requestVars, Pays
  <2>2. /\ mirrorToken[m][t].bal[Contract] \in Nat
        /\ mirrorToken'[m][t].bal[Contract] = mirrorToken[m][t].bal[Contract] + 0 - x
        /\ \A m2 \in Mirrors, t2 \in Tokens :
              ~(m2 = m /\ t2 = t) => mirrorToken'[m2][t2] = mirrorToken[m2][t2]
    <3>1. /\ mirrorToken[m][t].bal[Contract] \in Nat
            /\ mirrorToken'[m][t].bal[Contract]
                 = mirrorToken[m][t].bal[Contract]
                   + (IF World = Contract /\ Contract # Contract THEN x ELSE 0)
                   - (IF Contract = Contract /\ World # Contract THEN x ELSE 0)
            /\ \A m2 \in Mirrors, t2 \in Tokens :
                 ~(m2 = m /\ t2 = t) => mirrorToken'[m2][t2] = mirrorToken[m2][t2]
      BY <1>0, <1>2, <2>1, PaymentBalances
    <3> QED
      BY <1>2, <2>1, <3>1
  <2>3. QueuedIn(composing, m, t) = 0
    BY <1>0, <2>1, QueuedNone
  <2>4. CASE mm = m /\ tt = t
    BY <1>1, <2>1, <2>2, <2>3, <2>4
  <2>5. CASE ~(mm = m /\ tt = t)
    BY <1>1, <2>1, <2>2, <2>5
  <2> QED
    BY <2>4, <2>5
<1>5. ASSUME NEW m \in Mirrors, NEW t \in Tokens, NEW u \in Users, NEW x \in StrayAmounts,
             SendStray(m, t, u, x)
      PROVE  mirrorToken'[mm][tt].bal[Contract]
               >= feesReserved'[mm][tt] + QueuedIn(composing, mm, tt)
  <2>1. /\ x \in Nat
        /\ Pays(m, t, u, Contract, x)
        /\ feesReserved' = feesReserved
    BY <1>5, RequestAssumption DEF SendStray, requestVars, Pays
  <2>2. u # Contract
    BY ContractApart
  <2>3. /\ mirrorToken[m][t].bal[Contract] \in Nat
        /\ mirrorToken'[m][t].bal[Contract] = mirrorToken[m][t].bal[Contract] + x - 0
        /\ \A m2 \in Mirrors, t2 \in Tokens :
              ~(m2 = m /\ t2 = t) => mirrorToken'[m2][t2] = mirrorToken[m2][t2]
    <3>1. /\ mirrorToken[m][t].bal[Contract] \in Nat
            /\ mirrorToken'[m][t].bal[Contract]
                 = mirrorToken[m][t].bal[Contract]
                   + (IF Contract = Contract /\ u # Contract THEN x ELSE 0)
                   - (IF u = Contract /\ Contract # Contract THEN x ELSE 0)
            /\ \A m2 \in Mirrors, t2 \in Tokens :
                 ~(m2 = m /\ t2 = t) => mirrorToken'[m2][t2] = mirrorToken[m2][t2]
      BY <1>0, <1>2, <2>1, <2>2, PaymentBalances
    <3> QED
      BY <1>2, <2>1, <2>2, <3>1
  <2>4. CASE mm = m /\ tt = t
    BY <1>1, <2>1, <2>3, <2>4
  <2>5. CASE ~(mm = m /\ tt = t)
    BY <1>1, <2>1, <2>3, <2>5
  <2> QED
    BY <2>4, <2>5
<1>6. CASE UNCHANGED <<mirrorToken, feesReserved>>
  BY <1>1, <1>6
<1> QED
  BY <1>3, <1>4, <1>5, <1>6
  DEF Administering, SetPartner, SetPartnerRequired, SetPlatformFee, InvalidateNonce, wireVars, ledgerVars

(* Taking an order and moving a settlement leave the payouts covered.      *)
LEMMA MirrorCovers ==
  ASSUME ~SweepWhileComposing, MirrorInv, MirrorTypeOK', QueueFinite, QueueFinite',
         PayoutsCovered, MirrorNext
  PROVE  PayoutsCovered'
<1> SUFFICES ASSUME NEW mm \in Mirrors, NEW tt \in Tokens
             PROVE  mirrorToken'[mm][tt].bal[Contract]
                      >= feesReserved'[mm][tt] + QueuedIn(composing', mm, tt)
  BY DEF PayoutsCovered, QueuedPayouts, Payouts, QueuedIn, Worth
<1>0. /\ MirrorTypeOK
      /\ composing \in SUBSET ReturnPacket /\ IsFiniteSet(composing)
      /\ mirrorToken \in [Mirrors -> [Tokens -> Token]]
      /\ feesReserved \in [Mirrors -> [Tokens -> Nat]]
  BY DEF MirrorInv, MirrorTypeOK, WireTypeOK, RequestTypeOK, QueueFinite
<1>1. /\ mirrorToken[mm][tt].bal[Contract] >= feesReserved[mm][tt] + QueuedIn(composing, mm, tt)
      /\ feesReserved[mm][tt] \in Nat /\ QueuedIn(composing, mm, tt) \in Nat
      /\ mirrorToken[mm][tt].bal[Contract] \in Nat
  <2>1. QueuedIn(composing, mm, tt) = QueuedPayouts(mm, tt)
    BY DEF QueuedIn, QueuedPayouts, Payouts, Worth
  <2>2. mirrorToken[mm][tt].bal[Contract] \in Nat
    BY <1>0, NamedAccounts DEF Token
  <2>3. QueuedIn(composing, mm, tt) \in Nat
    BY <1>0, QueuedSum
  <2> QED
    BY <1>0, <2>1, <2>2, <2>3 DEF PayoutsCovered
<1>2. CASE Administering
  <2>1. composing' = composing
    BY <1>2 DEF Administering, ClaimFees, SetPartner, SetPartnerRequired, SetPlatformFee,
                InvalidateNonce, Sweep, SendStray, wireVars
  <2> QED
    BY <1>2, <2>1, AdministeringCovers
<1>3. CASE Ordering
  <2>1. PICK m \in Mirrors, r \in Request, f \in FeeEscrow, p \in OrderPacket : Takes(m, r, f, p)
    BY <1>3, OrderingTakes
  <2> DEFINE t == TokenIn(r.dir)
  <2>2. EscrowTotal(f) \in Nat /\ t \in Tokens
    BY DEF FeeEscrow, EscrowTotal, Request, TokenIn, Tokens, Direction
  <2>3. PICK k \in Token :
          /\ k.bal[Contract] = mirrorToken[m][t].bal[Contract] + EscrowTotal(f)
          /\ mirrorToken' = [mirrorToken EXCEPT ![m][t] = k]
    BY <2>1 DEF Takes
  <2>4. composing' = composing /\ feesReserved' = [feesReserved EXCEPT ![m][t] = @ + EscrowTotal(f)]
    BY <2>1 DEF Takes
  <2> HIDE DEF t
  <2>5. CASE mm = m /\ tt = t
    <3>1. /\ mirrorToken'[mm][tt] = k
          /\ feesReserved'[mm][tt] = feesReserved[mm][tt] + EscrowTotal(f)
      BY <1>0, <2>2, <2>3, <2>4, <2>5
    <3> QED
      BY <1>1, <2>2, <2>3, <2>4, <2>5, <3>1
  <2>6. CASE ~(mm = m /\ tt = t)
    <3>1. /\ mirrorToken'[mm][tt] = mirrorToken[mm][tt]
          /\ feesReserved'[mm][tt] = feesReserved[mm][tt]
      BY <1>0, <2>2, <2>3, <2>4, <2>6
    <3> QED
      BY <1>1, <2>4, <3>1
  <2> QED
    BY <2>5, <2>6
<1>4. ASSUME NEW p \in composing, Settle(p)
      PROVE  mirrorToken'[mm][tt].bal[Contract]
               >= feesReserved'[mm][tt] + QueuedIn(composing', mm, tt)
  <2>1. PICK x \in Nat, y \in Nat :
          /\ y <= Worth(p, mm, tt)
          /\ mirrorToken'[mm][tt].bal[Contract] = mirrorToken[mm][tt].bal[Contract] - y - x
          /\ feesReserved'[mm][tt] = feesReserved[mm][tt] - x
    BY <1>4, SettlePays
  <2>2. composing' = composing \ {p}
    BY <1>4 DEF Settle, ComposeFill, ComposeRefund, ComposeLate, Compose
  <2>3. /\ QueuedIn(composing \ {p}, mm, tt) \in Nat /\ Worth(p, mm, tt) \in Nat
        /\ QueuedIn(composing, mm, tt) = Worth(p, mm, tt) + QueuedIn(composing \ {p}, mm, tt)
    <3>1. PICK C \in SUBSET ReturnPacket : C = composing /\ IsFiniteSet(C) /\ p \in C
      BY <1>0, <1>4
    <3>2. /\ QueuedIn(C \ {p}, mm, tt) \in Nat /\ Worth(p, mm, tt) \in Nat
          /\ QueuedIn(C, mm, tt) = Worth(p, mm, tt) + QueuedIn(C \ {p}, mm, tt)
      BY <3>1, QueuedDrops
    <3> QED
      BY <3>1, <3>2
  <2>4. PICK b, r, w, q \in Nat :
          /\ b = mirrorToken[mm][tt].bal[Contract] /\ r = feesReserved[mm][tt]
          /\ w = Worth(p, mm, tt) /\ q = QueuedIn(composing \ {p}, mm, tt)
    BY <1>1, <2>3
  <2>5. b >= r + (w + q) /\ y <= w
    BY <1>1, <2>1, <2>3, <2>4
  <2>6. b - y - x >= (r - x) + q
    BY <2>5
  <2> QED
    BY <2>1, <2>2, <2>4, <2>6
<1>5. ASSUME NEW n \in notices, HearNotice(n)
      PROVE  mirrorToken'[mm][tt].bal[Contract]
               >= feesReserved'[mm][tt] + QueuedIn(composing', mm, tt)
  <2>1. PICK x \in Nat :
          /\ mirrorToken'[mm][tt].bal[Contract] = mirrorToken[mm][tt].bal[Contract] - x
          /\ feesReserved'[mm][tt] = feesReserved[mm][tt] - x
    BY <1>5, NoticePays
  <2>2. composing' = composing
    BY <1>5 DEF HearNotice, NoticeStranded, NoticeCancelled, NoticeIgnored, ReceiveNotice
  <2> QED
    BY <1>1, <2>1, <2>2
<1>6. ASSUME NEW m \in Mirrors, NEW t \in Tokens, NEW u \in Users, NEW sd \in DirectAmounts,
             DirectSend(m, t, u, sd), UNCHANGED requestVars
      PROVE  mirrorToken'[mm][tt].bal[Contract]
               >= feesReserved'[mm][tt] + QueuedIn(composing', mm, tt)
  <2>1. mirrorToken'[mm][tt].bal[Contract] = mirrorToken[mm][tt].bal[Contract]
    BY <1>0, <1>6, DirectSendMoves
  <2>2. composing' = composing /\ feesReserved' = feesReserved
    BY <1>6 DEF DirectSend, requestVars
  <2> QED
    BY <1>1, <2>1, <2>2
<1>7. ASSUME NEW p \in returns, ReceiveReturn(p), UNCHANGED requestVars
      PROVE  mirrorToken'[mm][tt].bal[Contract]
               >= feesReserved'[mm][tt] + QueuedIn(composing', mm, tt)
  <2> DEFINE x == ToLocal(p.sd, MirrorQuantum[p.m][p.t])
             k == Mint(mirrorToken[p.m][p.t], Contract, x)
  <2>1. p \in ReturnPacket /\ p.m \in Mirrors /\ p.t \in Tokens /\ p.sd \in Nat
    BY <1>0 DEF MirrorTypeOK, WireTypeOK, ReturnPacket
  <2>2. /\ composing' = composing \cup {p} /\ feesReserved' = feesReserved
        /\ mirrorToken' = [mirrorToken EXCEPT ![p.m][p.t] = k]
    BY <1>7 DEF ReceiveReturn, requestVars
  <2>3. /\ QueuedIn(composing \cup {p}, mm, tt) \in Nat /\ Worth(p, mm, tt) \in Nat
        /\ QueuedIn(composing \cup {p}, mm, tt) <= QueuedIn(composing, mm, tt) + Worth(p, mm, tt)
    BY <1>0, <2>1, QueuedAdds
  <2>4. CASE mm = p.m /\ tt = p.t
    <3>1. Worth(p, mm, tt) = x
      BY <2>4 DEF Worth
    <3>2. mirrorToken'[mm][tt] = k
      <4> HIDE DEF k
      <4> QED
        BY <1>0, <2>2, <2>4
    <3>3. x \in Nat
      BY <2>1, MirrorWorth
    <3>4. k.bal[Contract] = mirrorToken[mm][tt].bal[Contract] + x
      <4> HIDE DEF x
      <4> QED
        BY <1>0, <2>1, <2>4, <3>3, MintMoves, NamedAccounts
    <3> HIDE DEF x, k
    <3> QED
      BY <1>1, <2>2, <2>3, <3>1, <3>2, <3>3, <3>4
  <2>5. CASE ~(mm = p.m /\ tt = p.t)
    <3>1. Worth(p, mm, tt) = 0
      BY <2>5 DEF Worth
    <3>2. mirrorToken'[mm][tt] = mirrorToken[mm][tt]
      <4> HIDE DEF k
      <4> QED
        BY <1>0, <2>2, <2>5
    <3> QED
      BY <1>1, <2>2, <2>3, <3>1, <3>2
  <2> QED
    BY <2>4, <2>5
<1> QED
  BY <1>2, <1>3, <1>4, <1>5, <1>6, <1>7 DEF MirrorNext, Bridging, Settling

(***************************************************************************)
(* The contract can always pay the settlements the endpoint has queued for *)
(* it and its fees besides, if its owner does not sweep an asset while a   *)
(* settlement in it waits.                                                 *)
(***************************************************************************)
THEOREM SettlementsCovered ==
  ASSUME ~SweepWhileComposing
  PROVE  PromiseSpec => []PayoutsCovered
<1>1. MirrorInit => QueueFinite
  BY FS_EmptySet DEF MirrorInit, WireInit, QueueFinite
<1>2. QueueFinite /\ [PromiseNext]_mirrorVars => QueueFinite'
  BY QueueStaysFinite
<1>3. PromiseSpec => []QueueFinite
  BY <1>1, <1>2, PTL DEF PromiseSpec
<1>4. MirrorInit => PayoutsCovered
  <2> SUFFICES ASSUME MirrorInit, NEW m \in Mirrors, NEW t \in Tokens
               PROVE  mirrorToken[m][t].bal[Contract] >= feesReserved[m][t] + QueuedPayouts(m, t)
    BY DEF PayoutsCovered
  <2>1. composing = {} /\ feesReserved[m][t] = 0
    BY DEF MirrorInit, WireInit, RequestInit
  <2>2. mirrorToken[m][t].bal[Contract] = 0
    <3>1. Contract \in Accounts /\ Contract \notin Users
      BY NamedAccounts, ContractApart
    <3> QED
      BY <3>1 DEF MirrorInit, WireInit
  <2>3. QueuedIn(composing, m, t) = QueuedPayouts(m, t)
    BY DEF QueuedIn, QueuedPayouts, Payouts, Worth
  <2>4. QueuedIn(composing, m, t) = 0
    BY <2>1, FS_EmptySet, QueuedNone
  <2> QED
    BY <2>1, <2>2, <2>3, <2>4
<1>5. /\ MirrorInv /\ MirrorInv' /\ QueueFinite /\ QueueFinite'
      /\ PayoutsCovered /\ [PromiseNext]_mirrorVars
      => PayoutsCovered'
  <2> SUFFICES ASSUME MirrorInv, MirrorInv', QueueFinite, QueueFinite',
                      PayoutsCovered, [PromiseNext]_mirrorVars
               PROVE  PayoutsCovered'
    OBVIOUS
  <2>1. CASE MirrorNext
    BY <2>1, MirrorCovers DEF MirrorInv
  <2>2. CASE UNCHANGED <<mirrorToken, composing, feesReserved>>
    BY <2>2 DEF PayoutsCovered, QueuedPayouts, Payouts
  <2>3. CASE HomeAnswers /\ UNCHANGED requestVars
    BY <2>2, <2>3 DEF requestVars, HomeAnswers, Answer, Hold, Kill, Consume
  <2>4. CASE UNCHANGED mirrorVars
    BY <2>2, <2>4 DEF mirrorVars, wireVars, requestVars
  <2> QED
    BY <2>1, <2>3, <2>4 DEF PromiseNext
<1> QED
  BY <1>3, <1>4, <1>5, MirrorInvariant, PTL DEF PromiseSpec

-----------------------------------------------------------------------------
(* What an order was taken on, and what its desk promises.                 *)

(* What is in escrow for request i is let go.                              *)
LetsGo(m, i, e) ==
  /\ fees[m][i].state = "ESCROWED"
  /\ fees'[m][i] = [fees[m][i] EXCEPT !.state = e]

(* Closing changes one request's status and fees, and no other's.          *)
LEMMA ClosingChanges ==
  ASSUME MirrorInv, NEW m \in Mirrors, NEW i \in Ids, NEW s \in Terminal,
         ClosesAndReleases(m, i, s)
  PROVE  /\ requests[m][i].status = "PENDING" /\ requests'[m][i].status = s
         /\ requests'[m][i].dir = requests[m][i].dir
         /\ requests'[m][i].user = requests[m][i].user
         /\ requests'[m][i].amountIn = requests[m][i].amountIn
         /\ requests'[m][i].minAmountOut = requests[m][i].minAmountOut
         /\ requests'[m][i].lzNonce = requests[m][i].lzNonce
         /\ \/ fees'[m][i] = fees[m][i] /\ fees[m][i].state # "ESCROWED"
            \/ LetsGo(m, i, IF s = "FILLED" THEN "PAID" ELSE "RETURNED")
         /\ \A mm \in Mirrors, j \in Ids : ~(mm = m /\ j = i) =>
              requests'[mm][j] = requests[mm][j] /\ fees'[mm][j] = fees[mm][j]
<1>1. /\ requests \in [Mirrors -> [Ids -> Request]]
      /\ fees \in [Mirrors -> [Ids -> FeeEscrow]]
  BY DEF MirrorInv, MirrorTypeOK, RequestTypeOK
<1>2. PICK r \in Request :
        /\ \E out \in Nat : r = [requests[m][i] EXCEPT !.status = s, !.amountOut = out]
        /\ requests' = [requests EXCEPT ![m][i] = r]
  BY DEF ClosesAndReleases, Closes
<1>3. requests[m][i] \in Request /\ requests[m][i].status = "PENDING"
  BY <1>1 DEF ClosesAndReleases, Closes
<1>4. /\ r.status = s /\ r.dir = requests[m][i].dir /\ r.user = requests[m][i].user
      /\ r.amountIn = requests[m][i].amountIn /\ r.minAmountOut = requests[m][i].minAmountOut
      /\ r.lzNonce = requests[m][i].lzNonce
  BY <1>2, <1>3 DEF Request
<1>5. /\ requests'[m][i] = r
      /\ \A mm \in Mirrors, j \in Ids : ~(mm = m /\ j = i) => requests'[mm][j] = requests[mm][j]
  BY <1>1, <1>2
<1> DEFINE e == IF s = "FILLED" THEN "PAID" ELSE "RETURNED"
           closed == [fees[m][i] EXCEPT !.state = e]
<1>6. /\ \/ fees'[m][i] = fees[m][i] /\ fees[m][i].state # "ESCROWED"
         \/ fees[m][i].state = "ESCROWED" /\ fees'[m][i] = closed
      /\ \A mm \in Mirrors, j \in Ids : ~(mm = m /\ j = i) => fees'[mm][j] = fees[mm][j]
  <2>1. CASE NothingReleased(m, i)
    BY <2>1 DEF NothingReleased
  <2>2. ASSUME NEW c, NEW x, Releases(m, i, e, c, x)
        PROVE  /\ fees[m][i].state = "ESCROWED" /\ fees'[m][i] = closed
               /\ \A mm \in Mirrors, j \in Ids : ~(mm = m /\ j = i) => fees'[mm][j] = fees[mm][j]
    <3>1. fees[m][i].state = "ESCROWED" /\ fees' = [fees EXCEPT ![m][i] = closed]
      BY <2>2 DEF Releases
    <3> HIDE DEF closed
    <3> QED
      BY <1>1, <3>1
  <2> QED
    BY <2>1, <2>2 DEF ClosesAndReleases
<1> QED
  BY <1>3, <1>4, <1>5, <1>6 DEF LetsGo

(* Taking an order writes the next id, and no other.                       *)
LEMMA TakingChanges ==
  ASSUME MirrorInv, NEW m \in Mirrors, NEW r \in Request, NEW f \in FeeEscrow,
         NEW p \in OrderPacket, Takes(m, r, f, p)
  PROVE  /\ nextRequestId[m] \in Ids
         /\ requests[m][nextRequestId[m]] = EmptyRequest
         /\ fees[m][nextRequestId[m]] = EmptyEscrow
         /\ requests'[m][nextRequestId[m]] = r
         /\ fees'[m][nextRequestId[m]] = f
         /\ r.status = "PENDING"
         /\ f.state \in {"NONE", "ESCROWED"}
         /\ \A mm \in Mirrors, j \in Ids : ~(mm = m /\ j = nextRequestId[m]) =>
              requests'[mm][j] = requests[mm][j] /\ fees'[mm][j] = fees[mm][j]
<1> DEFINE i == nextRequestId[m]
<1>1. /\ requests \in [Mirrors -> [Ids -> Request]]
      /\ fees \in [Mirrors -> [Ids -> FeeEscrow]]
  BY DEF MirrorInv, MirrorTypeOK, RequestTypeOK
<1>2. /\ i \in Ids /\ r.status = "PENDING"
      /\ requests' = [requests EXCEPT ![m][i] = r]
      /\ fees' = [fees EXCEPT ![m][i] = f]
      /\ f.state \in {"NONE", "ESCROWED"}
  BY DEF Takes, EmptyEscrow
<1>3. i \in Nat
  BY <1>2 DEF Ids
<1>4. requests[m][i] = EmptyRequest /\ fees[m][i] = EmptyEscrow
  <2>1. i >= nextRequestId[m]
    BY <1>3
  <2> QED
    BY <1>2, <2>1 DEF MirrorInv, TakenInOrder
<1> HIDE DEF i
<1>5. /\ requests'[m][i] = r /\ fees'[m][i] = f
      /\ \A mm \in Mirrors, j \in Ids : ~(mm = m /\ j = i) =>
           requests'[mm][j] = requests[mm][j] /\ fees'[mm][j] = fees[mm][j]
  BY <1>1, <1>2
<1> QED
  BY <1>2, <1>4, <1>5 DEF i

(* Fees kept as they are are earned as they were taken.                    *)
LEMMA KeptIsAsTaken ==
  ASSUME MirrorInv, NEW m \in Mirrors, NEW i \in Ids, fees'[m][i] = fees[m][i]
  PROVE  EarnsAsTaken(m, i)
<1>1. fees[m][i] \in FeeEscrow
  BY DEF MirrorInv, MirrorTypeOK, RequestTypeOK
<1>2. fees[m][i] = [fees[m][i] EXCEPT !.state = fees[m][i].state]
  BY <1>1 DEF FeeEscrow
<1> QED
  BY <1>2 DEF EarnsAsTaken

(***************************************************************************)
(* An order's fees are the ones of the day it was taken until they are     *)
(* released, and a fill pays exactly those, to the accounts of that day,   *)
(* whatever terms the owner has set since.                                 *)
(***************************************************************************)
THEOREM FeesOfTheDay == PromiseSpec => EarnedAsTaken
<1>1. MirrorInv /\ [PromiseNext]_mirrorVars
      => [\A m \in Mirrors, i \in Ids : EarnsAsTaken(m, i)]_mirrorVars
  <2> SUFFICES ASSUME MirrorInv, PromiseNext, NEW m \in Mirrors, NEW i \in Ids
               PROVE  EarnsAsTaken(m, i)
    OBVIOUS
  <2>1. CASE fees' = fees
    BY <2>1, KeptIsAsTaken
  <2>2. CASE HomeAnswers /\ UNCHANGED requestVars
    BY <2>1, <2>2 DEF requestVars
  <2>3. ASSUME NEW mm \in Mirrors, NEW r \in Request, NEW f \in FeeEscrow,
               NEW p \in OrderPacket, Takes(mm, r, f, p)
        PROVE  EarnsAsTaken(m, i)
    <3>1. CASE m = mm /\ i = nextRequestId[mm]
      <4>1. fees[m][i].state = "NONE"
        BY <2>3, <3>1, TakingChanges DEF EmptyEscrow
      <4> QED
        BY <4>1 DEF EarnsAsTaken
    <3>2. CASE ~(m = mm /\ i = nextRequestId[mm])
      BY <2>3, <3>2, TakingChanges, KeptIsAsTaken
    <3> QED
      BY <3>1, <3>2
  <2>4. ASSUME NEW mm \in Mirrors, NEW j \in Ids, NEW s \in Terminal,
               ClosesAndReleases(mm, j, s)
        PROVE  EarnsAsTaken(m, i)
    <3>1. CASE ~(m = mm /\ i = j)
      <4>1. fees'[m][i] = fees[m][i]
        BY <2>4, <3>1, ClosingChanges
      <4> QED
        BY <4>1, KeptIsAsTaken
    <3>2. CASE m = mm /\ i = j /\ fees[m][i].state = "ESCROWED"
      <4> DEFINE f == fees[m][i]
                 t == TokenIn(requests[m][i].dir)
      <4>1. f \in FeeEscrow
        BY DEF MirrorInv, MirrorTypeOK, RequestTypeOK
      <4>2. PICK e : e = IF s = "FILLED" THEN "PAID" ELSE "RETURNED"
        OBVIOUS
      <4>3. fees'[m][i] = [f EXCEPT !.state = e]
        BY <2>4, <3>2, <4>2, ClosingChanges DEF LetsGo
      <4>4. fees'[m][i].state = e
        BY <4>1, <4>3 DEF FeeEscrow
      <4>5. ASSUME e = "PAID", NEW a \in FeeAccounts
            PROVE  feesClaimable'[m][t][a] = feesClaimable[m][t][a] + DueOnFill(f, a)
        <5>1. EarnFees(m, i)
          BY <2>4, <3>2, <4>2, <4>5 DEF ClosesAndReleases
        <5>2. PICK c : /\ Releases(m, i, "PAID", c, 0)
                       /\ \A b \in FeeAccounts : c[b] = feesClaimable[m][t][b] + DueOnFill(f, b)
          BY <3>2, <5>1, FeesEarned DEF NothingReleased
        <5>3. feesClaimable' = [feesClaimable EXCEPT ![m][t] = c]
          BY <5>2 DEF Releases
        <5>4. t \in Tokens /\ feesClaimable \in [Mirrors -> [Tokens -> [FeeAccounts -> Nat]]]
          BY LedgerTypes DEF MirrorInv
        <5> HIDE DEF t
        <5> QED
          BY <5>2, <5>3, <5>4
      <4> QED
        BY <4>3, <4>4, <4>5 DEF EarnsAsTaken, FeeToken
    <3>3. CASE fees[m][i].state # "ESCROWED"
      BY <3>3 DEF EarnsAsTaken
    <3> QED
      BY <3>1, <3>2, <3>3
  <2>5. CASE MirrorNext
    BY <2>1, <2>3, <2>4, <2>5, LedgerKinds DEF ledgerVars, ClaimFees
  <2> QED
    BY <2>2, <2>5 DEF PromiseNext
<1> QED
  BY <1>1, MirrorInvariant, PTL DEF PromiseSpec, EarnedAsTaken

(* One order's entry changes, and no other's.                              *)
IsTable(F, A, B) == F = [q \in A \X B |-> F[q]]

OnlyEntry(F, G, o) == G = [F EXCEPT ![o] = G[o]]

(* Two tables that agree elsewhere differ in one entry at most.            *)
LEMMA OneEntryChanges ==
  ASSUME NEW A, NEW B, NEW m \in A, NEW i \in B, NEW F, NEW G,
         IsTable(F, A, B), IsTable(G, A, B),
         \A a \in A, b \in B : ~(a = m /\ b = i) => G[<<a, b>>] = F[<<a, b>>]
  PROVE  OnlyEntry(F, G, <<m, i>>)
<1>1. ASSUME NEW q \in A \X B, q # <<m, i>>
      PROVE  G[q] = F[q]
  <2>1. PICK a \in A, b \in B : q = <<a, b>>
    OBVIOUS
  <2> QED
    BY <1>1, <2>1
<1>2. PICK o \in A \X B : o = <<m, i>>
  OBVIOUS
<1>3. PICK D : D = A \X B
  OBVIOUS
<1>4. /\ F = [q \in D |-> F[q]] /\ G = [q \in D |-> G[q]] /\ o \in D
      /\ \A q \in D : q # o => G[q] = F[q]
  BY <1>1, <1>2, <1>3 DEF IsTable
<1>5. OnlyEntry(F, G, o)
  BY <1>4 DEF OnlyEntry
<1> QED
  BY <1>2, <1>5

DeskStatus == [o \in Mirrors \X Ids |-> requests[o[1]][o[2]].status]

DeskFees == [o \in Mirrors \X Ids |-> fees[o[1]][o[2]].state]

(* Then so do the order desk's two tables.                                 *)
LEMMA EntryChanges ==
  ASSUME NEW m \in Mirrors, NEW i \in Ids,
         \A mm \in Mirrors, j \in Ids : ~(mm = m /\ j = i) =>
           requests'[mm][j] = requests[mm][j] /\ fees'[mm][j] = fees[mm][j]
  PROVE  /\ OnlyEntry(DeskStatus, DeskStatus', <<m, i>>)
         /\ OnlyEntry(DeskFees, DeskFees', <<m, i>>)
<1>1. /\ IsTable(DeskStatus, Mirrors, Ids) /\ IsTable(DeskStatus', Mirrors, Ids)
      /\ IsTable(DeskFees, Mirrors, Ids) /\ IsTable(DeskFees', Mirrors, Ids)
  BY DEF IsTable, DeskStatus, DeskFees
<1>2. \A a \in Mirrors, b \in Ids : ~(a = m /\ b = i) =>
        DeskStatus'[<<a, b>>] = DeskStatus[<<a, b>>] /\ DeskFees'[<<a, b>>] = DeskFees[<<a, b>>]
  BY DEF DeskStatus, DeskFees
<1>3. PICK S, T, E, F : S = DeskStatus /\ T = DeskStatus' /\ E = DeskFees /\ F = DeskFees'
  OBVIOUS
<1>4. /\ IsTable(S, Mirrors, Ids) /\ IsTable(T, Mirrors, Ids)
      /\ \A a \in Mirrors, b \in Ids : ~(a = m /\ b = i) => T[<<a, b>>] = S[<<a, b>>]
  BY <1>1, <1>2, <1>3
<1>5. /\ IsTable(E, Mirrors, Ids) /\ IsTable(F, Mirrors, Ids)
      /\ \A a \in Mirrors, b \in Ids : ~(a = m /\ b = i) => F[<<a, b>>] = E[<<a, b>>]
  BY <1>1, <1>2, <1>3
<1>6. OnlyEntry(S, T, <<m, i>>)
  BY <1>4, OneEntryChanges
<1>7. OnlyEntry(E, F, <<m, i>>)
  BY <1>5, OneEntryChanges
<1> QED
  BY <1>3, <1>6, <1>7

(***************************************************************************)
(* Refinement: SwapRequest keeps what an order desk promises, facing any   *)
(* home chain that keeps its own promise.  An order is taken once, closed  *)
(* once, and its fees leave escrow once, to whom the outcome makes them    *)
(* due.                                                                    *)
(***************************************************************************)
THEOREM MirrorDeskIsKept == PromiseSpec => KeepsDesk
<1> DEFINE Orders == Mirrors \X Ids
           status == [o \in Orders |-> requests[o[1]][o[2]].status]
           fee    == [o \in Orders |-> fees[o[1]][o[2]].state]
<1>1. MirrorInit => Desk!DeskInit
  BY DEF MirrorInit, RequestInit, EmptyRequest, EmptyEscrow, Desk!DeskInit
<1>2. ASSUME MirrorInv, NEW m \in Mirrors, NEW r \in Request, NEW f \in FeeEscrow,
             NEW p \in OrderPacket, Takes(m, r, f, p)
      PROVE  Desk!DeskNext
  <2> SUFFICES ASSUME NEW i \in Ids, i = nextRequestId[m]
               PROVE  Desk!DeskNext
    BY <1>2, TakingChanges
  <2> DEFINE o == <<m, i>>
  <2>2. /\ requests[m][i] = EmptyRequest /\ fees[m][i] = EmptyEscrow
        /\ requests'[m][i] = r /\ fees'[m][i] = f
        /\ r.status = "PENDING" /\ f.state \in {"NONE", "ESCROWED"}
        /\ \A mm \in Mirrors, j \in Ids : ~(mm = m /\ j = i) =>
              requests'[mm][j] = requests[mm][j] /\ fees'[mm][j] = fees[mm][j]
    BY <1>2, TakingChanges
  <2>3. o \in Orders /\ status[o] = "NONE" /\ fee[o] = "NONE"
    BY <2>2 DEF EmptyRequest, EmptyEscrow
  <2>4. status' = [status EXCEPT ![o] = "PENDING"]
    <3>0. OnlyEntry(DeskStatus, DeskStatus', <<m, i>>)
      BY <2>2, EntryChanges
    <3>1. status' = [status EXCEPT ![o] = status'[o]]
      BY <3>0 DEF OnlyEntry, DeskStatus
    <3>2. status'[o] = "PENDING"
      BY <2>2
    <3> HIDE DEF status
    <3> QED
      BY <3>1, <3>2
  <2>5. fee' = [fee EXCEPT ![o] = f.state]
    <3>0. OnlyEntry(DeskFees, DeskFees', <<m, i>>)
      BY <2>2, EntryChanges
    <3>1. fee' = [fee EXCEPT ![o] = fee'[o]]
      BY <3>0 DEF OnlyEntry, DeskFees
    <3>2. fee'[o] = f.state
      BY <2>2
    <3> HIDE DEF fee
    <3> QED
      BY <3>1, <3>2
  <2> HIDE DEF status, fee, o
  <2>6. \E e \in {"NONE", "ESCROWED"} : fee' = [fee EXCEPT ![o] = e]
    BY <2>2, <2>5
  <2>7. Desk!Take(o)
    BY <2>3, <2>4, <2>6 DEF Desk!Take, status, fee
  <2> QED
    BY <2>3, <2>7 DEF Desk!DeskNext
<1>3. ASSUME MirrorInv, NEW m \in Mirrors, NEW i \in Ids, NEW s \in Terminal,
             ClosesAndReleases(m, i, s)
      PROVE  Desk!DeskNext
  <2> DEFINE o == <<m, i>>
             e == IF s = "FILLED" THEN "PAID" ELSE "RETURNED"
  <2>0. fees[m][i] \in FeeEscrow /\ o \in Orders
    BY <1>3 DEF MirrorInv, MirrorTypeOK, RequestTypeOK
  <2>1. /\ requests[m][i].status = "PENDING" /\ requests'[m][i].status = s
        /\ fees'[m][i] = fees[m][i] \/ LetsGo(m, i, e)
        /\ \A mm \in Mirrors, j \in Ids : ~(mm = m /\ j = i) =>
              requests'[mm][j] = requests[mm][j] /\ fees'[mm][j] = fees[mm][j]
    BY <1>3, ClosingChanges
  <2>2. \/ fees'[m][i].state = fees[m][i].state
        \/ fees[m][i].state = "ESCROWED" /\ fees'[m][i].state = e
    BY <2>0, <2>1 DEF FeeEscrow, LetsGo
  <2>3. status[o] = "PENDING" /\ status' = [status EXCEPT ![o] = s]
    <3>0. OnlyEntry(DeskStatus, DeskStatus', <<m, i>>)
      BY <2>1, EntryChanges
    <3>1. status' = [status EXCEPT ![o] = status'[o]]
      BY <3>0 DEF OnlyEntry, DeskStatus
    <3>2. status'[o] = s /\ status[o] = "PENDING"
      BY <2>1
    <3> HIDE DEF status
    <3> QED
      BY <3>1, <3>2
  <2>4. fee' = fee \/ (fee[o] = "ESCROWED" /\ fee' = [fee EXCEPT ![o] = e])
    <3>0. OnlyEntry(DeskFees, DeskFees', <<m, i>>)
      BY <2>1, EntryChanges
    <3>1. fee' = [fee EXCEPT ![o] = fee'[o]]
      BY <3>0 DEF OnlyEntry, DeskFees
    <3>2. fee'[o] = fee[o] \/ (fee[o] = "ESCROWED" /\ fee'[o] = e)
      BY <2>2
    <3>3. fee = [q \in Orders |-> fee[q]]
      OBVIOUS
    <3> HIDE DEF fee, e
    <3> QED
      BY <3>1, <3>2, <3>3
  <2>5. e = Desk!Due(s) /\ s \in Desk!Outcomes
    BY <1>3 DEF Desk!Due, Desk!Outcomes, Terminal
  <2>6. Desk!Close(o, s)
    BY <2>3, <2>4, <2>5 DEF Desk!Close
  <2> QED
    BY <2>0, <2>5, <2>6 DEF Desk!DeskNext
<1>4. MirrorInv /\ [PromiseNext]_mirrorVars => [Desk!DeskNext]_(Desk!deskVars)
  <2> SUFFICES ASSUME MirrorInv, [PromiseNext]_mirrorVars
               PROVE  [Desk!DeskNext]_(Desk!deskVars)
    OBVIOUS
  <2>1. CASE UNCHANGED <<requests, fees>>
    BY <2>1 DEF Desk!deskVars
  <2>2. CASE MirrorNext
    BY <1>2, <1>3, <2>1, <2>2, LedgerKinds DEF ledgerVars, ClaimFees
  <2>3. CASE UNCHANGED requestVars
    BY <2>1, <2>3 DEF requestVars
  <2>4. CASE UNCHANGED mirrorVars
    BY <2>3, <2>4 DEF mirrorVars
  <2> QED
    BY <2>2, <2>3, <2>4 DEF PromiseNext
<1> QED
  BY <1>1, <1>4, MirrorInvariant, PTL DEF PromiseSpec, KeepsDesk, Desk!DeskSpec

-----------------------------------------------------------------------------
(* What comes back for an order is worth what the order took.              *)

(* p answers, or may answer, a request of this mirror; if it returns the   *)
(* input, it returns the whole of it.                                      *)
Matches(p) ==
  LET r == requests[p.m][p.id] IN
  /\ p.sd > 0
  /\ r.status # "NONE"
  /\ p.t = TokenIn(r.dir) => ToLocal(p.sd, MirrorQuantum[p.m][p.t]) = r.amountIn

AnswersMatch ==
  /\ \A p \in orders :
       p.id # 0 => Matches(p) /\ p.t = TokenIn(requests[p.m][p.id].dir)
  /\ \A p \in returns : Matches(p)
  /\ \A p \in composing : Matches(p)

(* What a request was for never changes once it is taken.                  *)
EntriesKept ==
  \A m \in Mirrors, i \in Ids : requests[m][i].status # "NONE" =>
    /\ requests'[m][i].status # "NONE"
    /\ requests'[m][i].dir = requests[m][i].dir
    /\ requests'[m][i].amountIn = requests[m][i].amountIn
    /\ requests'[m][i].user = requests[m][i].user
    /\ requests'[m][i].minAmountOut = requests[m][i].minAmountOut
    /\ requests'[m][i].lzNonce = requests[m][i].lzNonce

(* No mirror transaction rewrites what an entry was taken with.            *)
LEMMA MirrorKeepsEntries ==
  ASSUME MirrorInv, MirrorNext
  PROVE  EntriesKept
<1>1. ASSUME NEW m \in Mirrors, NEW r \in Request, NEW f \in FeeEscrow, NEW p \in OrderPacket,
             Takes(m, r, f, p)
      PROVE  EntriesKept
  BY <1>1, TakingChanges DEF EntriesKept, EmptyRequest
<1>2. ASSUME NEW m \in Mirrors, NEW i \in Ids, NEW s \in Terminal, ClosesAndReleases(m, i, s)
      PROVE  EntriesKept
  <2> SUFFICES ASSUME NEW mm \in Mirrors, NEW j \in Ids, requests[mm][j].status # "NONE"
               PROVE  /\ requests'[mm][j].status # "NONE"
                      /\ requests'[mm][j].dir = requests[mm][j].dir
                      /\ requests'[mm][j].amountIn = requests[mm][j].amountIn
                      /\ requests'[mm][j].user = requests[mm][j].user
                      /\ requests'[mm][j].minAmountOut = requests[mm][j].minAmountOut
                      /\ requests'[mm][j].lzNonce = requests[mm][j].lzNonce
    BY DEF EntriesKept
  <2> QED
    BY <1>2, ClosingChanges DEF Terminal
<1>3. CASE UNCHANGED requests
  BY <1>3 DEF EntriesKept
<1> QED
  BY <1>1, <1>2, <1>3, LedgerKinds DEF ledgerVars, ClaimFees

(* So a packet that matched its request still does.                        *)
LEMMA MatchesStays ==
  ASSUME EntriesKept, NEW p, p.m \in Mirrors, p.id \in Ids, Matches(p)
  PROVE  /\ Matches(p)'
         /\ requests'[p.m][p.id].dir = requests[p.m][p.id].dir
BY DEF EntriesKept, Matches

(* What crosses names a mirror and a request of it.                        *)
LEMMA PacketIds ==
  ASSUME WireTypeOK
  PROVE  /\ \A p \in orders : p.m \in Mirrors /\ (p.id # 0 => p.id \in Ids)
         /\ \A p \in returns \cup composing : p.m \in Mirrors /\ p.id \in Ids
BY DEF WireTypeOK, OrderPacket, ReturnPacket

(* An order that is taken matches its request.                             *)
LEMMA TakenMatches ==
  ASSUME MirrorInv, NEW m \in Mirrors, NEW r \in Request, NEW f \in FeeEscrow,
         NEW p \in OrderPacket, Takes(m, r, f, p)
  PROVE  /\ orders' = orders \cup {p}
         /\ UNCHANGED <<returns, composing>>
         /\ Matches(p)'
         /\ p.t = TokenIn(requests'[p.m][p.id].dir)
<1>1. /\ p.m = m /\ p.id = nextRequestId[m] /\ p.t = TokenIn(r.dir) /\ p.sd > 0
      /\ ToLocal(p.sd, MirrorQuantum[m][p.t]) = r.amountIn
      /\ orders' = orders \cup {p} /\ returns' = returns /\ composing' = composing
  BY DEF Takes
<1>2. requests'[p.m][p.id] = r /\ r.status # "NONE"
  BY <1>1, TakingChanges
<1>3. Matches(p)'
  BY <1>1, <1>2 DEF Matches
<1> QED
  BY <1>1, <1>2, <1>3

(* Packets move from the orders to the returns to the queue, and match on  *)
(* the way.                                                                *)
LEMMA MatchesMoves ==
  ASSUME EntriesKept, WireTypeOK, AnswersMatch,
         \A p \in orders' : \/ p \in orders
                            \/ p.id = 0
                            \/ Matches(p)' /\ p.t = TokenIn(requests'[p.m][p.id].dir),
         \A p \in returns' : p \in returns \/ Matches(p)',
         \A p \in composing' : p \in returns \cup composing
  PROVE  AnswersMatch'
<1>1. ASSUME NEW p \in orders', p.id # 0
      PROVE  Matches(p)' /\ p.t = TokenIn(requests'[p.m][p.id].dir)
  <2>1. CASE p \in orders
    BY <1>1, <2>1, PacketIds, MatchesStays DEF AnswersMatch
  <2> QED
    BY <1>1, <2>1
<1>2. ASSUME NEW p \in returns'
      PROVE  Matches(p)'
  BY <1>2, PacketIds, MatchesStays DEF AnswersMatch
<1>3. ASSUME NEW p \in composing'
      PROVE  Matches(p)'
  BY <1>3, PacketIds, MatchesStays DEF AnswersMatch
<1> QED
  BY <1>1, <1>2, <1>3 DEF AnswersMatch

(* No mirror transaction makes up an answer.                               *)
LEMMA MirrorKeepsMatches ==
  ASSUME MirrorInv, AnswersMatch, MirrorNext
  PROVE  AnswersMatch'
<1>0. EntriesKept /\ WireTypeOK
  BY MirrorKeepsEntries DEF MirrorInv, MirrorTypeOK
<1>1. ASSUME NEW m \in Mirrors, NEW t \in Tokens, NEW u \in Users, NEW sd \in DirectAmounts,
             DirectSend(m, t, u, sd)
      PROVE  AnswersMatch'
  <2> DEFINE b == [m |-> m, t |-> t, nonce |-> outNonce[m][t] + 1, id |-> 0,
                   user |-> u, sd |-> sd, min |-> 0]
  <2>1. orders' = orders \cup {b} /\ b.id = 0
    BY <1>1 DEF DirectSend, SendOrder
  <2> HIDE DEF b
  <2>2. returns' = returns /\ composing' = composing
    BY <1>1 DEF DirectSend
  <2> QED
    BY <1>0, <2>1, <2>2, MatchesMoves
<1>2. ASSUME NEW p \in returns, ReceiveReturn(p)
      PROVE  AnswersMatch'
  <2>1. /\ orders' = orders /\ returns' = returns \ {p}
        /\ composing' = composing \cup {p}
    BY <1>2 DEF ReceiveReturn
  <2> QED
    BY <1>0, <2>1, MatchesMoves
<1>3. CASE Ordering
  <2>1. PICK m \in Mirrors, r \in Request, f \in FeeEscrow, p \in OrderPacket : Takes(m, r, f, p)
    BY <1>3, OrderingTakes
  <2>2. /\ orders' = orders \cup {p} /\ returns' = returns /\ composing' = composing
        /\ Matches(p)' /\ p.t = TokenIn(requests'[p.m][p.id].dir)
    BY <2>1, TakenMatches
  <2> QED
    BY <1>0, <2>2, MatchesMoves
<1>4. CASE orders' = orders /\ returns' = returns /\ composing' \subseteq composing
  BY <1>0, <1>4, MatchesMoves
<1>5. CASE Settling
  <2>1. ASSUME NEW p \in composing, Settle(p)
        PROVE  orders' = orders /\ returns' = returns /\ composing' \subseteq composing
    <3>1. Compose(p)
      BY <2>1 DEF Settle, ComposeFill, ComposeRefund, ComposeLate
    <3> QED
      BY <3>1 DEF Compose
  <2>2. ASSUME NEW n \in notices, HearNotice(n)
        PROVE  orders' = orders /\ returns' = returns /\ composing' \subseteq composing
    <3>1. ReceiveNotice(n)
      BY <2>2 DEF HearNotice, NoticeStranded, NoticeCancelled, NoticeIgnored
    <3> QED
      BY <3>1 DEF ReceiveNotice
  <2> QED
    BY <1>4, <1>5, <2>1, <2>2 DEF Settling
<1>6. CASE Administering
  BY <1>4, <1>6 DEF Administering, ClaimFees, SetPartner, SetPartnerRequired, SetPlatformFee,
                    InvalidateNonce, Sweep, SendStray, wireVars
<1> QED
  BY <1>1, <1>2, <1>3, <1>5, <1>6 DEF MirrorNext, Bridging

(* A home chain that keeps its promise answers with the output, or with    *)
(* the whole of the input.                                                 *)
LEMMA HomeKeepsMatches ==
  ASSUME MirrorInv, AnswersMatch, HomeAnswers, UNCHANGED requestVars
  PROVE  AnswersMatch'
<1>0. WireTypeOK /\ EntriesKept
  BY DEF MirrorInv, MirrorTypeOK, EntriesKept, requestVars
<1>1. PICK p \in orders :
        \/ \E t \in Tokens, sd \in Outputs \cup {p.sd}, status \in {"FILLED", "REFUNDED"} :
             Answer(p, t, sd, status)
        \/ Hold(p)
        \/ Kill(p)
        \/ Consume(p)
  BY DEF HomeAnswers
<1>2. ASSUME NEW t \in Tokens, NEW sd \in Outputs \cup {p.sd},
             NEW status \in {"FILLED", "REFUNDED"}, Answer(p, t, sd, status)
      PROVE  AnswersMatch'
  <2>0. PICK n : n = backNonce[p.m][t] + 1
    OBVIOUS
  <2> DEFINE b == [m |-> p.m, t |-> t, nonce |-> n, id |-> p.id, sd |-> sd, status |-> status]
  <2>1. /\ returns' = returns \cup {b}
        /\ b.m = p.m /\ b.t = t /\ b.id = p.id /\ b.sd = sd
    BY <1>2, <2>0 DEF Answer, SendReturn
  <2> HIDE DEF b
  <2>2. p.id # 0 /\ Matches(p) /\ p.t = TokenIn(requests[p.m][p.id].dir)
    BY <1>2 DEF Answer, AnswersMatch
  <2>3. sd > 0 /\ ((t = p.t /\ sd = p.sd) \/ t # p.t)
    <3>1. (t = p.t /\ sd = p.sd) \/ t # p.t
      BY <1>2 DEF Answer, Answers, OtherToken
    <3>2. sd \in Nat \ {0}
      <4>1. p.sd \in Nat /\ p.sd > 0
        BY <2>2 DEF Matches, MirrorInv, MirrorTypeOK, WireTypeOK, OrderPacket
      <4> QED
        BY <4>1, PromiseAssumption
    <3> QED
      BY <3>1, <3>2
  <2>4. requests' = requests
    BY DEF requestVars
  <2>5. Matches(b)'
    BY <2>1, <2>2, <2>3, <2>4 DEF Matches
  <2>6. /\ orders' \subseteq orders /\ composing' = composing
    BY <1>2 DEF Answer
  <2>7. \A x \in returns' : x \in returns \/ Matches(x)'
    BY <2>1, <2>5
  <2> QED
    BY <1>0, <2>6, <2>7, MatchesMoves
<1>3. CASE orders' \subseteq orders /\ returns' = returns /\ composing' = composing
  BY <1>0, <1>3, MatchesMoves
<1>4. CASE Hold(p) \/ Kill(p) \/ Consume(p)
  BY <1>3, <1>4 DEF Hold, Kill, Consume
<1> QED
  BY <1>1, <1>2, <1>4

(* Nor does anything the home chain may answer.                            *)
LEMMA PromiseKeepsMatches ==
  ASSUME MirrorInv, AnswersMatch, [PromiseNext]_mirrorVars
  PROVE  AnswersMatch'
<1>1. CASE UNCHANGED mirrorVars
  BY <1>1 DEF mirrorVars, wireVars, requestVars, AnswersMatch, Matches
<1> QED
  BY <1>1, MirrorKeepsMatches, HomeKeepsMatches DEF PromiseNext

(***************************************************************************)
(* Whatever comes back for an order matches it: the output, or the whole   *)
(* of its input.                                                           *)
(***************************************************************************)
LEMMA AnswersAlwaysMatch == PromiseSpec => [](MirrorInv /\ AnswersMatch)
<1>1. MirrorInit => AnswersMatch
  BY DEF MirrorInit, WireInit, AnswersMatch
<1>2. MirrorInv /\ AnswersMatch /\ [PromiseNext]_mirrorVars => (MirrorInv /\ AnswersMatch)'
  BY PromiseKeepsInv, PromiseKeepsMatches
<1> QED
  BY <1>1, <1>2, ReserveAtStart, PTL DEF PromiseSpec

(* Returned fees on top of the input make the user whole.                  *)
LEMMA ReturnedIsWhole ==
  ASSUME MirrorInv, NEW m \in Mirrors, NEW i \in Ids, requests[m][i].status = "PENDING",
         NEW held \in [Tokens -> Token],
         held[FeeToken(m, i)].bal[requests[m][i].user]
           = mirrorToken[m][FeeToken(m, i)].bal[requests[m][i].user] + requests[m][i].amountIn,
         ReturnsFees(m, i, held),
         requests'[m][i].user = requests[m][i].user,
         requests'[m][i].dir = requests[m][i].dir
  PROVE  MakesWhole(m, i)
<1> SUFFICES ASSUME NEW u, u = requests[m][i].user, NEW t, t = FeeToken(m, i)
             PROVE  mirrorToken'[m][t].bal[u] + feesClaimable'[m][t][u]
                      = mirrorToken[m][t].bal[u] + feesClaimable[m][t][u]
                        + requests[m][i].amountIn + EscrowTotal(fees[m][i])
  BY DEF MakesWhole, Wealth, FeeToken
<1>0. MirrorTypeOK /\ EscrowsRecorded
  BY DEF MirrorInv
<1>1. /\ u \in Users /\ t \in Tokens /\ u \in FeeAccounts /\ u \in Accounts
      /\ feesClaimable \in [Mirrors -> [Tokens -> [FeeAccounts -> Nat]]]
      /\ EscrowTotal(fees[m][i]) \in Nat
      /\ requests[m][i].amountIn \in Nat
      /\ mirrorToken \in [Mirrors -> [Tokens -> Token]]
  <2>1. u \in Users
    BY <1>0 DEF EscrowsRecorded
  <2>2. requests[m][i] \in Request
    BY <1>0 DEF MirrorTypeOK, RequestTypeOK
  <2> QED
    BY <1>0, <2>1, <2>2, LedgerTypes DEF FeeToken, FeeAccounts, Accounts, MirrorTypeOK, WireTypeOK,
                                         Request
<1>2. mirrorToken[m][t].bal[u] \in Nat /\ feesClaimable[m][t][u] \in Nat
  BY <1>1 DEF Token
<1>3. CASE /\ NothingReleased(m, i)
           /\ mirrorToken' = [mirrorToken EXCEPT ![m] = held]
  <2>1. EscrowTotal(fees[m][i]) = 0
    <3>1. fees[m][i] = EmptyEscrow
      BY <1>0, <1>3 DEF EscrowsRecorded, NothingReleased
    <3> QED
      BY <3>1 DEF EmptyEscrow, EscrowTotal
  <2>2. mirrorToken'[m][t] = held[t] /\ feesClaimable' = feesClaimable
    BY <1>1, <1>3 DEF NothingReleased
  <2> QED
    BY <1>1, <1>2, <2>1, <2>2
<1>4. ASSUME NEW c, NEW x, Releases(m, i, "RETURNED", c, x), NEW k \in Token,
             mirrorToken' = [mirrorToken EXCEPT ![m] = [held EXCEPT ![t] = k]],
             k.bal[u] = held[t].bal[u] + x,
             c[u] = feesClaimable[m][t][u] + (EscrowTotal(fees[m][i]) - x)
      PROVE  mirrorToken'[m][t].bal[u] + feesClaimable'[m][t][u]
               = mirrorToken[m][t].bal[u] + feesClaimable[m][t][u]
                 + requests[m][i].amountIn + EscrowTotal(fees[m][i])
  <2>1. mirrorToken'[m][t] = k
    BY <1>1, <1>4
  <2>2. /\ feesClaimable' = [feesClaimable EXCEPT ![m][t] = c]
        /\ x \in 0..EscrowTotal(fees[m][i])
    BY <1>4 DEF Releases, FeeToken
  <2>3. feesClaimable'[m][t] = c
    BY <1>1, <2>2
  <2> QED
    BY <1>1, <1>2, <1>4, <2>1, <2>2, <2>3
<1>5. CASE ~NothingReleased(m, i)
  <2>1. PICK c, x : /\ Releases(m, i, "RETURNED", c, x)
                    /\ \E k \in Token :
                         /\ mirrorToken' = [mirrorToken EXCEPT
                              ![m] = [held EXCEPT ![FeeToken(m, i)] = k]]
                         /\ k.bal[requests[m][i].user]
                              = held[FeeToken(m, i)].bal[requests[m][i].user] + x
                         /\ c[requests[m][i].user]
                              = feesClaimable[m][FeeToken(m, i)][requests[m][i].user]
                                + (EscrowTotal(fees[m][i]) - x)
    BY <1>5 DEF ReturnsFees, FeeToken
  <2>2. PICK k \in Token : /\ mirrorToken' = [mirrorToken EXCEPT ![m] = [held EXCEPT ![t] = k]]
                          /\ k.bal[u] = held[t].bal[u] + x
                          /\ c[u] = feesClaimable[m][t][u] + (EscrowTotal(fees[m][i]) - x)
    BY <2>1
  <2> QED
    BY <1>4, <2>1, <2>2
<1>6. CASE NothingReleased(m, i)
  BY <1>3, <1>6 DEF ReturnsFees, Releases, NothingReleased
<1> QED
  BY <1>5, <1>6

(* A refund by the other asset moves that asset.                           *)
LEMMA RefundIsWhole ==
  ASSUME MirrorInv, AnswersMatch, NEW p \in composing, NEW accepted \in TokenAccepts,
         ComposeRefund(p, accepted), GivesBack(p.m, p.id)
  PROVE  MakesWhole(p.m, p.id)
<1>0. Compose(p) /\ MirrorTypeOK /\ Matches(p)
  BY DEF ComposeRefund, MirrorInv, AnswersMatch
<1> SUFFICES ASSUME NEW m, m = p.m, NEW i, i = p.id, NEW u, u = requests[m][i].user,
                    NEW t, t = FeeToken(m, i)
             PROVE  MakesWhole(m, i)
  OBVIOUS
<1>1. /\ m \in Mirrors /\ p.t \in Tokens /\ i \in Ids /\ p \in ReturnPacket
      /\ PaidOut(p) \in [Tokens -> Token]
      /\ mirrorToken \in [Mirrors -> [Tokens -> Token]]
      /\ t \in Tokens /\ accepted \in BOOLEAN
  BY <1>0, ComposeType, LedgerTypes, RequestAssumption DEF MirrorTypeOK, WireTypeOK, FeeToken
<1>2. /\ requests[m][i].status = "PENDING"
      /\ requests' = [requests EXCEPT ![m][i].status = "REFUNDED"]
      /\ ReturnFees(m, i, PaidOut(p), accepted)
  BY DEF ComposeRefund
<1>3. u \in Users
  BY <1>1, <1>2 DEF MirrorInv, EscrowsRecorded
<1>4. /\ requests'[m][i].user = requests[m][i].user
      /\ requests'[m][i].dir = requests[m][i].dir
      /\ requests'[m][i].status = "REFUNDED"
  <2>1. requests \in [Mirrors -> [Ids -> Request]]
    BY <1>0 DEF MirrorTypeOK, RequestTypeOK
  <2> QED
    BY <1>1, <1>2, <2>1 DEF Request
<1>5. ReturnsFees(m, i, PaidOut(p))
  BY <1>1, <1>2, <1>3, FeesReturned
<1>6. CASE p.t = t
  <2>1. Worth(p, m, t) = requests[m][i].amountIn
    BY <1>0, <1>6 DEF Matches, FeeToken, Worth
  <2>2. PaidOut(p)[t].bal[u] = mirrorToken[m][t].bal[u] + requests[m][i].amountIn
    <3>1. PaidOut(p)[t].bal[u] = mirrorToken[p.m][t].bal[u] + Worth(p, p.m, t)
      BY <1>0, <1>1, <1>3, PaymentMoves
    <3> QED
      BY <2>1, <3>1
  <2> HIDE DEF PaidOut
  <2> QED
    BY <1>1, <1>2, <1>4, <1>5, <2>2, ReturnedIsWhole
<1>7. CASE p.t # t
  <2>1. p.t = OtherToken(t)
    BY <1>1, <1>7 DEF OtherToken, Tokens
  <2>2. mirrorToken'[m][p.t] = PaidOut(p)[p.t]
    <3>1. CASE mirrorToken' = [mirrorToken EXCEPT ![m] = PaidOut(p)]
      BY <1>1, <3>1
    <3>2. ASSUME NEW k \in Token,
                 mirrorToken' = [mirrorToken EXCEPT ![m] = [PaidOut(p) EXCEPT ![t] = k]]
          PROVE  mirrorToken'[m][p.t] = PaidOut(p)[p.t]
      BY <1>1, <1>7, <3>2
    <3> QED
      BY <1>5, <3>1, <3>2 DEF ReturnsFees, FeeToken
  <2>3. PaidOut(p)[p.t].bal[u] = mirrorToken[m][p.t].bal[u] + Worth(p, m, p.t)
        /\ mirrorToken[m][p.t].bal[u] \in Nat /\ Worth(p, m, p.t) \in Nat
    BY <1>0, <1>1, <1>3, PaymentMoves
  <2>4. Worth(p, m, p.t) # 0
    <3>1. p.sd \in Nat /\ p.sd > 0 /\ MirrorQuantum[m][p.t] \in Nat \ {0}
      BY <1>0, <1>1, WireAssumption DEF Matches, ReturnPacket
    <3>2. p.sd * MirrorQuantum[m][p.t] > 0
      BY <3>1
    <3> QED
      BY <3>2 DEF Worth, ToLocal
  <2>5. mirrorToken'[m][p.t] # mirrorToken[m][p.t]
    <3>1. PICK b, w \in Nat : b = mirrorToken[m][p.t].bal[u] /\ w = Worth(p, m, p.t)
      BY <2>3
    <3>2. b + w # b
      <4>1. \A j, k \in Nat : k # 0 => j + k # j
        OBVIOUS
      <4> QED
        BY <2>4, <3>1, <4>1
    <3>3. PaidOut(p)[p.t].bal[u] = b + w
      BY <2>3, <3>1
    <3> HIDE DEF PaidOut
    <3>4. PaidOut(p)[p.t] # mirrorToken[m][p.t]
      BY <3>1, <3>2, <3>3
    <3> QED
      BY <2>2, <3>4
  <2> QED
    BY <1>4, <2>1, <2>5 DEF GivesBack
<1> QED
  BY <1>6, <1>7

(* A cancellation creates the burned input again.                          *)
LEMMA CancellationIsWhole ==
  ASSUME MirrorInv, NEW n \in notices, NEW i \in Ids, NEW accepted \in TokenAccepts,
         NoticeCancelled(n, i, accepted)
  PROVE  MakesWhole(n.m, i)
<1> SUFFICES ASSUME NEW m, m = n.m, NEW u, u = requests[m][i].user, NEW t, t = FeeToken(m, i)
             PROVE  MakesWhole(m, i)
  OBVIOUS
<1>0. MirrorTypeOK
  BY DEF MirrorInv
<1>1. /\ m \in Mirrors /\ t \in Tokens /\ accepted \in BOOLEAN
      /\ mirrorToken \in [Mirrors -> [Tokens -> Token]]
      /\ requests \in [Mirrors -> [Ids -> Request]]
  BY <1>0, LedgerTypes, RequestAssumption
     DEF MirrorTypeOK, WireTypeOK, RequestTypeOK, Notice, FeeToken
<1> DEFINE r == requests[m][i]
           credited == RecoveryCredit(mirrorToken[m][t], u, r.amountIn)
           restored == [mirrorToken[m] EXCEPT ![t] = credited]
<1>2. /\ i \in Concerned(n) /\ ReturnFees(m, i, restored, accepted)
      /\ requests' = [requests EXCEPT ![m][i].status = "CANCELLED"]
  BY DEF NoticeCancelled, FeeToken
<1>3. r.status = "PENDING" /\ r \in Request
  BY <1>1, <1>2 DEF Concerned
<1>4. u \in Users /\ u \in Accounts
  BY <1>1, <1>3 DEF MirrorInv, EscrowsRecorded, Accounts
<1>5. /\ requests'[m][i].user = r.user
      /\ requests'[m][i].dir = r.dir
  BY <1>1, <1>2 DEF Request
<1>6. credited \in Token /\ credited.bal[u] = mirrorToken[m][t].bal[u] + r.amountIn
  BY <1>1, <1>3, <1>4, MintType, MintMoves DEF RecoveryCredit, Request
<1>7. restored \in [Tokens -> Token] /\ restored[t] = credited
  <2> HIDE DEF credited
  <2> QED
    BY <1>1, <1>6
<1> HIDE DEF restored, credited
<1>8. ReturnsFees(m, i, restored)
  BY <1>1, <1>2, <1>4, <1>7, FeesReturned
<1> QED
  BY <1>1, <1>3, <1>5, <1>6, <1>7, <1>8, ReturnedIsWhole

(***************************************************************************)
(* Who gets an order back gets all of it: a cancellation, and a refund by  *)
(* the input, give the user the bridged input and both fees, in the token  *)
(* or as a claim, whatever the user's token accepts.                       *)
(***************************************************************************)
THEOREM OrdersComeBackWhole == PromiseSpec => MadeWhole
<1>1. MirrorInv /\ AnswersMatch /\ [PromiseNext]_mirrorVars
      => [\A m \in Mirrors, i \in Ids : GivesBack(m, i) => MakesWhole(m, i)]_mirrorVars
  <2> SUFFICES ASSUME MirrorInv, AnswersMatch, PromiseNext, NEW m \in Mirrors, NEW i \in Ids,
                      GivesBack(m, i)
               PROVE  MakesWhole(m, i)
    OBVIOUS
  <2>0. /\ requests[m][i].status = "PENDING"
        /\ requests'[m][i].status \in {"CANCELLED", "REFUNDED"}
        /\ requests \in [Mirrors -> [Ids -> Request]]
    BY DEF GivesBack, MirrorInv, MirrorTypeOK, RequestTypeOK
  <2>1. CASE UNCHANGED requests
    BY <2>0, <2>1
  <2>2. CASE Ordering
    <3>1. PICK mm \in Mirrors, r \in Request, f \in FeeEscrow, p \in OrderPacket : Takes(mm, r, f, p)
      BY <2>2, OrderingTakes
    <3>2. requests'[m][i] = requests[m][i] \/ requests[m][i] = EmptyRequest
      BY <3>1, TakingChanges
    <3> QED
      BY <2>0, <3>2 DEF EmptyRequest
  <2>3. ASSUME NEW p \in composing, ComposeFill(p)
        PROVE  MakesWhole(m, i)
    <3>1. /\ p.m \in Mirrors /\ p.id \in Ids
          /\ requests' = [requests EXCEPT ![p.m][p.id].status = "FILLED",
                            ![p.m][p.id].amountOut = ToLocal(p.sd, MirrorQuantum[p.m][p.t])]
      BY <2>3, PacketIds DEF ComposeFill, MirrorInv, MirrorTypeOK
    <3>2. requests'[m][i] = requests[m][i] \/ requests'[m][i].status = "FILLED"
      BY <2>0, <3>1 DEF Request
    <3> QED
      BY <2>0, <3>2
  <2>4. ASSUME NEW p \in composing, NEW accepted \in TokenAccepts, ComposeRefund(p, accepted)
        PROVE  MakesWhole(m, i)
    <3>1. /\ p.m \in Mirrors /\ p.id \in Ids
          /\ requests' = [requests EXCEPT ![p.m][p.id].status = "REFUNDED"]
      BY <2>4, PacketIds DEF ComposeRefund, MirrorInv, MirrorTypeOK
    <3>2. m = p.m /\ i = p.id
      BY <2>0, <3>1
    <3> QED
      BY <2>4, <3>2, RefundIsWhole
  <2>5. ASSUME NEW n \in notices, NEW j \in Ids, NEW accepted \in TokenAccepts,
               NoticeStranded(n, j, accepted)
        PROVE  MakesWhole(m, i)
    <3>1. /\ n.m \in Mirrors
          /\ requests' = [requests EXCEPT ![n.m][j].status = "STRANDED"]
      BY <2>5 DEF NoticeStranded, MirrorInv, MirrorTypeOK, WireTypeOK, Notice
    <3>2. requests'[m][i] = requests[m][i] \/ requests'[m][i].status = "STRANDED"
      BY <2>0, <3>1 DEF Request
    <3> QED
      BY <2>0, <3>2
  <2>6. ASSUME NEW n \in notices, NEW j \in Ids, NEW accepted \in TokenAccepts,
               NoticeCancelled(n, j, accepted)
        PROVE  MakesWhole(m, i)
    <3>1. /\ n.m \in Mirrors
          /\ requests' = [requests EXCEPT ![n.m][j].status = "CANCELLED"]
      BY <2>6 DEF NoticeCancelled, MirrorInv, MirrorTypeOK, WireTypeOK, Notice
    <3>2. m = n.m /\ i = j
      BY <2>0, <3>1
    <3> QED
      BY <2>6, <3>2, CancellationIsWhole
  <2>7. CASE Settling
    BY <2>1, <2>3, <2>4, <2>5, <2>6, <2>7
       DEF Settling, Settle, HearNotice, ComposeLate, NoticeIgnored
  <2>8. CASE Bridging \/ Administering
    BY <2>1, <2>8 DEF Bridging, Administering, requestVars, ledgerVars, ClaimFees, SetPartner,
                      SetPartnerRequired, SetPlatformFee, InvalidateNonce, Sweep, SendStray
  <2> QED
    BY <2>1, <2>2, <2>7, <2>8 DEF PromiseNext, MirrorNext, requestVars
<1> QED
  BY <1>1, AnswersAlwaysMatch, PTL DEF PromiseSpec, MadeWhole

-----------------------------------------------------------------------------
(* The assets of the mirrors, as every transaction there moves them.       *)

(* Asset t of mirror m loses `out` to other chains, and gains `in`; the    *)
(* other assets and mirrors are at rest.                                   *)
CellFlows(m, t, out, in) ==
  \A mm \in Mirrors, tt \in Tokens :
    Flows(mirrorToken[mm][tt], mirrorToken'[mm][tt],
          IF mm = m /\ tt = t THEN out ELSE 0, IF mm = m /\ tt = t THEN in ELSE 0)

NoFlows ==
  \A m \in Mirrors, t \in Tokens : Flows(mirrorToken[m][t], mirrorToken'[m][t], 0, 0)

SameCancelled ==
  \A m \in Mirrors, i \in Ids :
    requests'[m][i].status = "CANCELLED" <=> requests[m][i].status = "CANCELLED"

(* A packet leaves with what was burned for it.                            *)
Departs(p) ==
  /\ p \in OrderPacket
  /\ CellFlows(p.m, p.t, ToLocal(p.sd, MirrorQuantum[p.m][p.t]), 0)
  /\ orders' = orders \cup {p}
  /\ IF p.id = 0 THEN p.nonce = outNonce[p.m][p.t] + 1
     ELSE requests[p.m][p.id].status = "NONE"
  /\ p.id # 0 =>
       /\ requests'[p.m][p.id].status # "NONE"
       /\ ToLocal(p.sd, MirrorQuantum[p.m][p.t]) = requests'[p.m][p.id].amountIn
  /\ SameCancelled
  /\ UNCHANGED <<returns, backNonce>>

(* What the home chain sent is minted.                                     *)
Arrives(p) ==
  /\ CellFlows(p.m, p.t, 0, ToLocal(p.sd, MirrorQuantum[p.m][p.t]))
  /\ returns' = returns \ {p}
  /\ SameCancelled
  /\ UNCHANGED <<orders, backNonce>>

(* A cancellation restores what its request sent.                          *)
RestoresInput(m, i) ==
  /\ CellFlows(m, TokenIn(requests[m][i].dir), 0, requests[m][i].amountIn)
  /\ requests[m][i].status = "PENDING"
  /\ \A mm \in Mirrors, ii \in Ids :
       requests'[mm][ii].status = "CANCELLED" <=>
         requests[mm][ii].status = "CANCELLED" \/ (mm = m /\ ii = i)
  /\ UNCHANGED <<orders, returns, backNonce>>

Rests ==
  NoFlows /\ SameCancelled /\ UNCHANGED <<orders, returns, backNonce>>

(* One asset is written.                                                   *)
LEMMA CellWritten ==
  ASSUME WireTypeOK, NEW m \in Mirrors, NEW t \in Tokens, NEW k, NEW out, NEW in,
         Flows(mirrorToken[m][t], k, out, in),
         mirrorToken' = [mirrorToken EXCEPT ![m][t] = k]
  PROVE  CellFlows(m, t, out, in)
<1> SUFFICES ASSUME NEW mm \in Mirrors, NEW tt \in Tokens
             PROVE  Flows(mirrorToken[mm][tt], mirrorToken'[mm][tt],
                          IF mm = m /\ tt = t THEN out ELSE 0, IF mm = m /\ tt = t THEN in ELSE 0)
  BY DEF CellFlows
<1>1. mirrorToken[mm][tt] \in Token
  BY DEF WireTypeOK
<1>2. CASE mm = m /\ tt = t
  <2>1. mirrorToken'[mm][tt] = k
    BY <1>2 DEF WireTypeOK
  <2> QED
    BY <1>2, <2>1
<1>3. CASE ~(mm = m /\ tt = t)
  <2>1. mirrorToken'[mm][tt] = mirrorToken[mm][tt]
    BY <1>3 DEF WireTypeOK
  <2> QED
    BY <1>1, <1>3, <2>1, FlowsAtRest
<1> QED
  BY <1>2, <1>3

(* All assets of a mirror are.                                             *)
LEMMA RowWritten ==
  ASSUME WireTypeOK, NEW m \in Mirrors, NEW t \in Tokens, NEW held \in [Tokens -> Token],
         NEW out, NEW in,
         \A tt \in Tokens : Flows(mirrorToken[m][tt], held[tt],
                                  IF tt = t THEN out ELSE 0, IF tt = t THEN in ELSE 0),
         mirrorToken' = [mirrorToken EXCEPT ![m] = held]
  PROVE  CellFlows(m, t, out, in)
<1> SUFFICES ASSUME NEW mm \in Mirrors, NEW tt \in Tokens
             PROVE  Flows(mirrorToken[mm][tt], mirrorToken'[mm][tt],
                          IF mm = m /\ tt = t THEN out ELSE 0, IF mm = m /\ tt = t THEN in ELSE 0)
  BY DEF CellFlows
<1>1. mirrorToken[mm][tt] \in Token
  BY DEF WireTypeOK
<1>2. CASE mm = m
  <2>1. mirrorToken'[mm][tt] = held[tt]
    BY <1>2 DEF WireTypeOK
  <2>2. Flows(mirrorToken[m][tt], held[tt],
              IF tt = t THEN out ELSE 0, IF tt = t THEN in ELSE 0)
    OBVIOUS
  <2>3. CASE tt = t
    BY <1>2, <2>1, <2>2, <2>3
  <2>4. CASE tt # t
    BY <1>2, <2>1, <2>2, <2>4
  <2> QED
    BY <2>3, <2>4
<1>3. CASE mm # m
  <2>1. mirrorToken'[mm][tt] = mirrorToken[mm][tt]
    BY <1>3 DEF WireTypeOK
  <2> QED
    BY <1>1, <1>3, <2>1, FlowsAtRest
<1> QED
  BY <1>2, <1>3

(* A flow of nothing is none.                                              *)
LEMMA NothingFlows ==
  ASSUME NEW m, NEW t, CellFlows(m, t, 0, 0)
  PROVE  NoFlows
<1> SUFFICES ASSUME NEW mm \in Mirrors, NEW tt \in Tokens
             PROVE  Flows(mirrorToken[mm][tt], mirrorToken'[mm][tt], 0, 0)
  BY DEF NoFlows
<1>1. Flows(mirrorToken[mm][tt], mirrorToken'[mm][tt],
            IF mm = m /\ tt = t THEN 0 ELSE 0, IF mm = m /\ tt = t THEN 0 ELSE 0)
  BY DEF CellFlows
<1>2. CASE mm = m /\ tt = t
  BY <1>1, <1>2
<1>3. CASE ~(mm = m /\ tt = t)
  BY <1>1, <1>3
<1> QED
  BY <1>2, <1>3

(* Nothing is written.                                                     *)
LEMMA SameAssets ==
  ASSUME WireTypeOK, mirrorToken' = mirrorToken
  PROVE  NoFlows
BY FlowsAtRest DEF WireTypeOK, NoFlows

(* Requests that stay are cancelled as they were.                          *)
LEMMA SameRequests ==
  ASSUME requests' = requests
  PROVE  SameCancelled
BY DEF SameCancelled

-----------------------------------------------------------------------------
(* An order is taken.                                                      *)
LEMMA TakingDeparts ==
  ASSUME MirrorInv, NEW m \in Mirrors, NEW r \in Request, NEW f \in FeeEscrow,
         NEW p \in OrderPacket, Takes(m, r, f, p)
  PROVE  Departs(p)
<1> DEFINE i == nextRequestId[m]
           t == TokenIn(r.dir)
<1>1. /\ i \in Ids /\ i # 0 /\ p.m = m /\ p.t = t /\ p.id = i
      /\ ToLocal(p.sd, MirrorQuantum[m][t]) = r.amountIn
      /\ requests' = [requests EXCEPT ![m][i] = r] /\ r.status = "PENDING"
      /\ orders' = orders \cup {p} /\ UNCHANGED <<returns, backNonce>>
  BY DEF Takes, Ids
<1>2. PICK k \in Token : /\ Flows(mirrorToken[m][t], k, r.amountIn, 0)
                         /\ mirrorToken' = [mirrorToken EXCEPT ![m][t] = k]
  BY DEF Takes
<1>3. WireTypeOK /\ requests \in [Mirrors -> [Ids -> Request]] /\ i \in Nat
  BY DEF MirrorInv, MirrorTypeOK, RequestTypeOK
<1>4. requests[m][i].status = "NONE"
  BY <1>1, <1>3 DEF MirrorInv, TakenInOrder, EmptyRequest
<1>5. t \in Tokens
  BY <1>1 DEF OrderPacket
<1> HIDE DEF i, t
<1>6. CellFlows(m, t, r.amountIn, 0)
  BY <1>2, <1>3, <1>5, CellWritten
<1>7. SameCancelled
  BY <1>1, <1>3, <1>4 DEF SameCancelled
<1>8. requests'[m][i] = r
  BY <1>1, <1>3
<1> QED
  BY <1>1, <1>4, <1>6, <1>7, <1>8 DEF Departs

(* A user bridges to the home chain.                                       *)
LEMMA DirectDeparts ==
  ASSUME WireTypeOK, NEW m \in Mirrors, NEW t \in Tokens, NEW u \in Users,
         NEW sd \in DirectAmounts, DirectSend(m, t, u, sd), requests' = requests
  PROVE  \E p : Departs(p)
<1>1. sd \in Nat /\ u \in Accounts
  BY WireAssumption, NamedAccounts
<1>2. PICK x \in Nat : x = ToLocal(sd, MirrorQuantum[m][t])
  BY <1>1, MirrorWorth
<1>3. PICK k \in Token : k = mirrorToken[m][t]
  BY DEF WireTypeOK
<1>4. CanPay(k, u, x) /\ mirrorToken' = [mirrorToken EXCEPT ![m][t] = Burn(k, u, x)]
  BY <1>2, <1>3 DEF DirectSend
<1>5. Flows(mirrorToken[m][t], Burn(k, u, x), x, 0)
  BY <1>1, <1>3, <1>4, BurnFlows
<1>6. CellFlows(m, t, x, 0)
  <2>1. PICK l : l = Burn(k, u, x)
    OBVIOUS
  <2> QED
    BY <1>4, <1>5, <2>1, CellWritten
<1>7. SendOrder(m, t, 0, u, sd, 0) /\ UNCHANGED <<returns, backNonce>>
  BY DEF DirectSend
<1> DEFINE p == [m |-> m, t |-> t, nonce |-> outNonce[m][t] + 1, id |-> 0,
                 user |-> u, sd |-> sd, min |-> 0]
<1>8. orders' = orders \cup {p}
  BY <1>7 DEF SendOrder
<1>9. p \in OrderPacket
  BY <1>1 DEF OrderPacket, WireTypeOK
<1>10. p.m = m /\ p.t = t /\ p.id = 0 /\ p.sd = sd /\ p.nonce = outNonce[m][t] + 1
  OBVIOUS
<1> HIDE DEF p
<1>11. SameCancelled
  BY SameRequests
<1> QED
  BY <1>2, <1>6, <1>7, <1>8, <1>9, <1>10, <1>11 DEF Departs

(* A return is credited.                                                   *)
LEMMA ReturnArrives ==
  ASSUME WireTypeOK, NEW p \in returns, ReceiveReturn(p), requests' = requests
  PROVE  Arrives(p)
<1>1. p.m \in Mirrors /\ p.t \in Tokens /\ p.sd \in Nat
  BY DEF WireTypeOK, ReturnPacket
<1>2. PICK x \in Nat : x = ToLocal(p.sd, MirrorQuantum[p.m][p.t])
  BY <1>1, MirrorWorth
<1>3. PICK k \in Token : k = mirrorToken[p.m][p.t]
  BY <1>1 DEF WireTypeOK
<1>4. /\ mirrorToken' = [mirrorToken EXCEPT ![p.m][p.t] = Mint(k, Contract, x)]
      /\ returns' = returns \ {p} /\ UNCHANGED <<orders, backNonce>>
  BY <1>2, <1>3 DEF ReceiveReturn
<1>5. PICK l : l = Mint(k, Contract, x)
  OBVIOUS
<1>6. Flows(k, l, 0, x)
  BY <1>5, NamedAccounts, MintFlows
<1>7. CellFlows(p.m, p.t, 0, x)
  BY <1>1, <1>3, <1>4, <1>5, <1>6, CellWritten
<1> QED
  BY <1>2, <1>4, <1>7, SameRequests DEF Arrives

-----------------------------------------------------------------------------
(* A payment between two accounts.                                         *)
LEMMA PaymentRests ==
  ASSUME WireTypeOK, NEW m \in Mirrors, NEW t \in Tokens, NEW a \in Accounts,
         NEW b \in Accounts, NEW x \in Nat, CanPay(mirrorToken[m][t], a, x),
         mirrorToken' = [mirrorToken EXCEPT ![m][t] = Transfer(@, a, b, x)]
  PROVE  NoFlows
<1>1. PICK k \in Token : k = mirrorToken[m][t]
  BY DEF WireTypeOK
<1>2. PICK l : l = Transfer(k, a, b, x)
  OBVIOUS
<1>3. Flows(k, l, 0, 0)
  BY <1>1, <1>2, TransferFlows
<1>4. mirrorToken' = [mirrorToken EXCEPT ![m][t] = l]
  BY <1>1, <1>2
<1> QED
  BY <1>1, <1>3, <1>4, CellWritten, NothingFlows

(* What a settlement pays stays on the chain.                              *)
LEMMA PaidOutFlows ==
  ASSUME MirrorTypeOK, NEW p \in composing, Compose(p),
         requests[p.m][p.id].user \in Users
  PROVE  /\ PaidOut(p) \in [Tokens -> Token]
         /\ \A t \in Tokens : Flows(mirrorToken[p.m][t], PaidOut(p)[t], 0, 0)
<1>1. p.m \in Mirrors /\ p.t \in Tokens /\ p.sd \in Nat /\ PaidOut(p) \in [Tokens -> Token]
  BY ComposeType
<1>2. PICK x \in Nat : x = ToLocal(p.sd, MirrorQuantum[p.m][p.t])
  BY <1>1, MirrorWorth
<1>3. PICK row \in [Tokens -> Token] : row = mirrorToken[p.m]
  BY <1>1 DEF MirrorTypeOK, WireTypeOK
<1>4. PICK u \in Accounts : u = requests[p.m][p.id].user
  BY NamedAccounts
<1>5. CanPay(row[p.t], Contract, x) /\ row[p.t] \in Token
  BY <1>1, <1>2, <1>3 DEF Compose
<1>6. PICK l : l = Transfer(row[p.t], Contract, u, x)
  OBVIOUS
<1>7. Flows(row[p.t], l, 0, 0)
  BY <1>5, <1>6, NamedAccounts, TransferFlows
<1>8. PaidOut(p) = [row EXCEPT ![p.t] = l]
  BY <1>2, <1>3, <1>4, <1>6 DEF PaidOut
<1>9. ASSUME NEW t \in Tokens PROVE Flows(row[t], PaidOut(p)[t], 0, 0)
  <2>1. CASE t = p.t
    BY <1>7, <1>8, <2>1
  <2>2. CASE t # p.t
    BY <1>8, <2>2, FlowsAtRest
  <2> QED
    BY <2>1, <2>2
<1> QED
  BY <1>1, <1>3, <1>9

(* Fees that go back to the user stay on the chain.                        *)
LEMMA ReturningFlows ==
  ASSUME WireTypeOK, NEW m \in Mirrors, NEW i \in Ids, TokenIn(requests[m][i].dir) \in Tokens,
         NEW held \in [Tokens -> Token], ReturnsFees(m, i, held),
         NEW t \in Tokens, NEW out \in Nat, NEW in \in Nat,
         \A tt \in Tokens : Flows(mirrorToken[m][tt], held[tt],
                                  IF tt = t THEN out ELSE 0, IF tt = t THEN in ELSE 0)
  PROVE  CellFlows(m, t, out, in)
<1>1. CASE mirrorToken' = [mirrorToken EXCEPT ![m] = held]
  BY <1>1, RowWritten
<1>2. CASE mirrorToken' # [mirrorToken EXCEPT ![m] = held]
  <2>1. PICK ft \in Tokens : ft = TokenIn(requests[m][i].dir)
    OBVIOUS
  <2>2. PICK k \in Token :
          /\ mirrorToken' = [mirrorToken EXCEPT ![m] = [held EXCEPT ![ft] = k]]
          /\ Flows(held[ft], k, 0, 0)
    BY <1>2, <2>1 DEF ReturnsFees
  <2>3. PICK after : after = [held EXCEPT ![ft] = k]
    OBVIOUS
  <2>4. after \in [Tokens -> Token] /\ after[ft] = k
        /\ \A tt \in Tokens : tt # ft => after[tt] = held[tt]
    BY <2>3
  <2>5. ASSUME NEW tt \in Tokens
        PROVE  Flows(mirrorToken[m][tt], after[tt],
                     IF tt = t THEN out ELSE 0, IF tt = t THEN in ELSE 0)
    <3>1. PICK o \in Nat, n \in Nat :
            /\ o = IF tt = t THEN out ELSE 0
            /\ n = IF tt = t THEN in ELSE 0
      OBVIOUS
    <3>2. Flows(mirrorToken[m][tt], held[tt], o, n) /\ mirrorToken[m][tt] \in Token
      <4>1. CASE tt = t
        BY <3>1, <4>1 DEF WireTypeOK
      <4>2. CASE tt # t
        BY <3>1, <4>2 DEF WireTypeOK
      <4> QED
        BY <4>1, <4>2
    <3>3. Flows(held[tt], after[tt], 0, 0)
      BY <2>2, <2>4, FlowsAtRest
    <3>4. Flows(mirrorToken[m][tt], after[tt], o + 0, n + 0)
      BY <3>2, <3>3, FlowsThrough
    <3>5. o + 0 = o /\ n + 0 = n
      BY <3>1
    <3> QED
      BY <3>1, <3>4, <3>5
  <2> QED
    BY <2>2, <2>3, <2>4, <2>5, RowWritten
<1> QED
  BY <1>1, <1>2

(* lzCompose moves tokens within the chain.                                *)
LEMMA SettlingRests ==
  ASSUME MirrorInv, NEW p \in composing, Settle(p)
  PROVE  Rests
<1>0. Compose(p) /\ MirrorTypeOK /\ WireTypeOK
  BY DEF Settle, ComposeFill, ComposeRefund, ComposeLate, MirrorInv, MirrorTypeOK
<1>1. /\ p.m \in Mirrors /\ p.t \in Tokens /\ p.id \in Ids
      /\ UNCHANGED <<orders, returns, backNonce>>
  BY <1>0, ComposeType
<1>2. requests \in [Mirrors -> [Ids -> Request]] /\ requests[p.m][p.id] \in Request
      /\ TokenIn(requests[p.m][p.id].dir) \in Tokens
  BY <1>0, <1>1, EscrowTypes DEF MirrorTypeOK, RequestTypeOK
<1>3. requests[p.m][p.id].status = "PENDING" => requests[p.m][p.id].user \in Users
  BY <1>1 DEF MirrorInv, EscrowsRecorded
<1>4. requests[p.m][p.id].user # NoUser => requests[p.m][p.id].user \in Users
  BY <1>2 DEF Request
<1>5. ASSUME NEW s, s # "CANCELLED", requests[p.m][p.id].status = "PENDING",
             NEW r, r.status = s, requests' = [requests EXCEPT ![p.m][p.id] = r]
      PROVE  SameCancelled
  BY <1>1, <1>2, <1>5 DEF SameCancelled
<1>6. ASSUME requests[p.m][p.id].user \in Users,
             mirrorToken' = [mirrorToken EXCEPT ![p.m] = PaidOut(p)]
      PROVE  NoFlows
  <2>1. PICK held \in [Tokens -> Token] : held = PaidOut(p)
    BY <1>0, <1>6, PaidOutFlows
  <2>2. \A tt \in Tokens : Flows(mirrorToken[p.m][tt], held[tt],
             IF tt = p.t THEN 0 ELSE 0, IF tt = p.t THEN 0 ELSE 0)
    BY <1>0, <1>6, <2>1, PaidOutFlows
  <2>3. CellFlows(p.m, p.t, 0, 0)
    BY <1>0, <1>1, <1>6, <2>1, <2>2, RowWritten
  <2> QED
    BY <2>3, NothingFlows
<1>7. CASE ComposeFill(p)
  <2>1. PICK out : out = ToLocal(p.sd, MirrorQuantum[p.m][p.t])
    OBVIOUS
  <2>2. /\ requests[p.m][p.id].status = "PENDING"
        /\ requests' = [requests EXCEPT ![p.m][p.id] =
                          [requests[p.m][p.id] EXCEPT !.status = "FILLED", !.amountOut = out]]
        /\ mirrorToken' = [mirrorToken EXCEPT ![p.m] = PaidOut(p)]
    BY <1>7, <2>1 DEF ComposeFill
  <2>3. PICK r : r = [requests[p.m][p.id] EXCEPT !.status = "FILLED", !.amountOut = out]
    OBVIOUS
  <2>4. r.status = "FILLED"
    BY <1>2, <2>3 DEF Request
  <2>5. SameCancelled
    BY <1>5, <2>2, <2>3, <2>4
  <2>6. NoFlows
    BY <1>3, <1>6, <2>2
  <2> QED
    BY <1>1, <2>5, <2>6 DEF Rests
<1>8. ASSUME NEW accepted \in TokenAccepts, ComposeRefund(p, accepted)
      PROVE  Rests
  <2>1. /\ requests[p.m][p.id].status = "PENDING"
        /\ requests' = [requests EXCEPT ![p.m][p.id] =
                          [requests[p.m][p.id] EXCEPT !.status = "REFUNDED"]]
        /\ ReturnFees(p.m, p.id, PaidOut(p), accepted)
    BY <1>8 DEF ComposeRefund
  <2>2. PICK r : r = [requests[p.m][p.id] EXCEPT !.status = "REFUNDED"]
    OBVIOUS
  <2>3. r.status = "REFUNDED"
    BY <1>2, <2>2 DEF Request
  <2>4. SameCancelled
    BY <1>5, <2>1, <2>2, <2>3
  <2>5. requests[p.m][p.id].user \in Users /\ accepted \in BOOLEAN
    BY <1>3, <2>1, RequestAssumption
  <2>6. PICK held \in [Tokens -> Token] : held = PaidOut(p)
    BY <1>0, <2>5, PaidOutFlows
  <2>7. ReturnsFees(p.m, p.id, held)
    BY <1>1, <2>1, <2>5, <2>6, FeesReturned
  <2>8. \A tt \in Tokens : Flows(mirrorToken[p.m][tt], held[tt],
             IF tt = p.t THEN 0 ELSE 0, IF tt = p.t THEN 0 ELSE 0)
    BY <1>0, <2>5, <2>6, PaidOutFlows
  <2>9. CellFlows(p.m, p.t, 0, 0)
    BY <1>0, <1>1, <1>2, <2>7, <2>8, ReturningFlows
  <2> QED
    BY <1>1, <2>4, <2>9, NothingFlows DEF Rests
<1>9. CASE ComposeLate(p)
  <2>1. requests' = requests
    BY <1>9 DEF ComposeLate
  <2>2. CASE requests[p.m][p.id].user = NoUser
    <3>1. mirrorToken' = [mirrorToken EXCEPT ![p.m] = mirrorToken[p.m]]
      BY <1>9, <2>2 DEF ComposeLate
    <3>2. mirrorToken' = mirrorToken
      BY <1>0, <3>1 DEF WireTypeOK
    <3> QED
      BY <1>0, <1>1, <2>1, <3>2, SameAssets, SameRequests DEF Rests
  <2>3. CASE requests[p.m][p.id].user # NoUser
    <3>1. mirrorToken' = [mirrorToken EXCEPT ![p.m] = PaidOut(p)]
      BY <1>9, <2>3 DEF ComposeLate
    <3> QED
      BY <1>1, <1>4, <1>6, <2>1, <2>3, <3>1, SameRequests DEF Rests
  <2> QED
    BY <2>2, <2>3
<1> QED
  BY <1>7, <1>8, <1>9 DEF Settle

(* So does a notice, unless it restores a cancelled order's input.         *)
LEMMA NoticeFlows ==
  ASSUME MirrorInv, NEW n \in notices, HearNotice(n)
  PROVE  \/ Rests
         \/ \E i \in Ids, accepted \in TokenAccepts :
              NoticeCancelled(n, i, accepted) /\ RestoresInput(n.m, i)
<1>0. WireTypeOK /\ MirrorTypeOK /\ ReceiveNotice(n)
  BY DEF MirrorInv, MirrorTypeOK, HearNotice, NoticeStranded, NoticeCancelled, NoticeIgnored
<1>1. n.m \in Mirrors /\ UNCHANGED <<orders, returns, backNonce>>
  BY <1>0 DEF WireTypeOK, Notice, ReceiveNotice
<1>2. PICK row \in [Tokens -> Token] : row = mirrorToken[n.m]
  BY <1>0, <1>1 DEF WireTypeOK
<1>3. CASE NoticeIgnored(n)
  BY <1>0, <1>1, <1>3, SameAssets, SameRequests DEF NoticeIgnored, Rests
<1>4. ASSUME NEW i \in Ids, NEW accepted \in TokenAccepts
      PROVE  /\ NoticeStranded(n, i, accepted) => Rests
             /\ NoticeCancelled(n, i, accepted) => RestoresInput(n.m, i)
  <2>1. /\ requests \in [Mirrors -> [Ids -> Request]] /\ requests[n.m][i] \in Request
        /\ TokenIn(requests[n.m][i].dir) \in Tokens
    BY <1>0, <1>1, EscrowTypes DEF MirrorTypeOK, RequestTypeOK
  <2>2. PICK t \in Tokens : t = TokenIn(requests[n.m][i].dir)
    BY <2>1
  <2>3. accepted \in BOOLEAN
    BY RequestAssumption
  <2>4. i \in Concerned(n) => requests[n.m][i].status = "PENDING"
    BY DEF Concerned
  <2>5. requests[n.m][i].status = "PENDING" => requests[n.m][i].user \in Users
    BY <1>1 DEF MirrorInv, EscrowsRecorded
  <2>6. ASSUME NoticeStranded(n, i, accepted)
        PROVE  Rests
    <3>1. /\ requests[n.m][i].status = "PENDING" /\ requests[n.m][i].user \in Users
          /\ requests' = [requests EXCEPT ![n.m][i] =
                            [requests[n.m][i] EXCEPT !.status = "STRANDED"]]
          /\ ReturnFees(n.m, i, row, accepted)
      BY <1>2, <2>4, <2>5, <2>6 DEF NoticeStranded
    <3>2. ReturnsFees(n.m, i, row)
      BY <1>1, <2>3, <3>1, FeesReturned
    <3>3. \A tt \in Tokens : Flows(mirrorToken[n.m][tt], row[tt],
               IF tt = t THEN 0 ELSE 0, IF tt = t THEN 0 ELSE 0)
      BY <1>2, FlowsAtRest
    <3>4. CellFlows(n.m, t, 0, 0)
      BY <1>0, <1>1, <2>1, <3>2, <3>3, ReturningFlows
    <3>5. PICK r : r = [requests[n.m][i] EXCEPT !.status = "STRANDED"]
      OBVIOUS
    <3>6. r.status = "STRANDED" /\ requests' = [requests EXCEPT ![n.m][i] = r]
      BY <2>1, <3>1, <3>5 DEF Request
    <3>7. SameCancelled
      BY <1>1, <2>1, <3>1, <3>6 DEF SameCancelled
    <3> QED
      BY <1>1, <3>4, <3>7, NothingFlows DEF Rests
  <2>7. ASSUME NoticeCancelled(n, i, accepted)
        PROVE  RestoresInput(n.m, i)
    <3>1. PICK u \in Accounts, x \in Nat :
            u = requests[n.m][i].user /\ x = requests[n.m][i].amountIn
      BY <2>1, <2>4, <2>5, <2>7, NamedAccounts DEF NoticeCancelled, Request
    <3>2. PICK l : l = Mint(row[t], u, x)
      OBVIOUS
    <3>3. l \in Token /\ Flows(row[t], l, 0, x)
      BY <3>2, MintType, MintFlows
    <3>4. PICK held : held = [row EXCEPT ![t] = l]
      OBVIOUS
    <3>5. held \in [Tokens -> Token] /\ held[t] = l
          /\ \A tt \in Tokens : tt # t => held[tt] = row[tt]
      BY <3>3, <3>4
    <3>6. held = [mirrorToken[n.m] EXCEPT ![TokenIn(requests[n.m][i].dir)] =
                    RecoveryCredit(@, requests[n.m][i].user, requests[n.m][i].amountIn)]
      BY <1>2, <2>2, <3>1, <3>2, <3>4 DEF RecoveryCredit
    <3>7. /\ requests[n.m][i].status = "PENDING" /\ requests[n.m][i].user \in Users
          /\ requests' = [requests EXCEPT ![n.m][i] =
                            [requests[n.m][i] EXCEPT !.status = "CANCELLED"]]
          /\ ReturnFees(n.m, i, held, accepted)
      BY <2>4, <2>5, <2>7, <3>6 DEF NoticeCancelled
    <3>8. ReturnsFees(n.m, i, held)
      BY <1>1, <2>3, <3>5, <3>7, FeesReturned
    <3>9. ASSUME NEW tt \in Tokens
          PROVE  Flows(mirrorToken[n.m][tt], held[tt],
                       IF tt = t THEN 0 ELSE 0, IF tt = t THEN x ELSE 0)
      <4>1. CASE tt = t
        BY <1>2, <3>3, <3>5, <4>1
      <4>2. CASE tt # t
        BY <1>2, <3>5, <4>2, FlowsAtRest
      <4> QED
        BY <4>1, <4>2
    <3>10. CellFlows(n.m, t, 0, x)
      BY <1>0, <1>1, <2>1, <3>1, <3>5, <3>8, <3>9, ReturningFlows
    <3>11. PICK r : r = [requests[n.m][i] EXCEPT !.status = "CANCELLED"]
      OBVIOUS
    <3>12. r.status = "CANCELLED" /\ requests' = [requests EXCEPT ![n.m][i] = r]
      BY <2>1, <3>7, <3>11 DEF Request
    <3>13. \A mm \in Mirrors, ii \in Ids :
             requests'[mm][ii].status = "CANCELLED" <=>
               requests[mm][ii].status = "CANCELLED" \/ (mm = n.m /\ ii = i)
      BY <1>1, <2>1, <3>12
    <3> QED
      BY <1>1, <2>2, <3>1, <3>7, <3>10, <3>13 DEF RestoresInput
  <2> QED
    BY <2>6, <2>7
<1> QED
  BY <1>3, <1>4 DEF HearNotice

(* Claims, sweeps and stray transfers stay on the chain.                   *)
LEMMA AdministeringRests ==
  ASSUME MirrorInv, Administering
  PROVE  Rests
<1>0. WireTypeOK /\ MirrorTypeOK
  BY DEF MirrorInv, MirrorTypeOK
<1>1. ASSUME UNCHANGED <<mirrorToken, orders, returns, backNonce, requests>>
      PROVE  Rests
  BY <1>0, <1>1, SameAssets, SameRequests DEF Rests
<1>2. ASSUME NEW m \in Mirrors, NEW t \in Tokens, NEW a \in FeeAccounts, ClaimFees(m, t, a)
      PROVE  Rests
  <2>1. PICK x \in Nat : x = feesClaimable[m][t][a]
    BY <1>0 DEF MirrorTypeOK, RequestTypeOK
  <2>2. /\ CanPay(mirrorToken[m][t], Contract, x)
        /\ mirrorToken' = [mirrorToken EXCEPT ![m][t] = Transfer(@, Contract, a, x)]
        /\ UNCHANGED <<orders, returns, backNonce, requests>>
    BY <1>2, <2>1 DEF ClaimFees
  <2> QED
    BY <1>0, <2>2, PaymentRests, NamedAccounts, SameRequests DEF Rests
<1>3. ASSUME NEW m \in Mirrors, NEW t \in Tokens, NEW x \in SweepAmounts, Sweep(m, t, x)
      PROVE  Rests
  <2>1. x \in Nat /\ CanPay(mirrorToken[m][t], Contract, x)
    <3>1. /\ x \in Nat /\ mirrorToken[m][t].bal[Contract] \in Nat /\ feesReserved[m][t] \in Nat
      BY <1>0, RequestAssumption, NamedAccounts DEF MirrorTypeOK, WireTypeOK, RequestTypeOK, Token
    <3> QED
      BY <1>3, <3>1 DEF Sweep, Sweepable, CanPay
  <2>2. /\ mirrorToken' = [mirrorToken EXCEPT ![m][t] = Transfer(@, Contract, World, x)]
        /\ UNCHANGED <<orders, returns, backNonce, requests>>
    BY <1>3 DEF Sweep, requestVars
  <2> QED
    BY <1>0, <2>1, <2>2, PaymentRests, NamedAccounts, SameRequests DEF Rests
<1>4. ASSUME NEW m \in Mirrors, NEW t \in Tokens, NEW u \in Users, NEW x \in StrayAmounts,
             SendStray(m, t, u, x)
      PROVE  Rests
  <2>1. x \in Nat
    BY RequestAssumption
  <2>2. /\ CanPay(mirrorToken[m][t], u, x)
        /\ mirrorToken' = [mirrorToken EXCEPT ![m][t] = Transfer(@, u, Contract, x)]
        /\ UNCHANGED <<orders, returns, backNonce, requests>>
    BY <1>4 DEF SendStray, requestVars
  <2> QED
    BY <1>0, <2>1, <2>2, PaymentRests, NamedAccounts, SameRequests DEF Rests
<1>5. ASSUME NEW m \in Mirrors, NEW id \in PartnerIds, NEW terms \in PartnerTerms,
             SetPartner(m, id, terms)
      PROVE  Rests
  BY <1>1, <1>5 DEF SetPartner, wireVars, ledgerVars
<1>6. ASSUME NEW m \in Mirrors, NEW required \in PartnerOnly, SetPartnerRequired(m, required)
      PROVE  Rests
  BY <1>1, <1>6 DEF SetPartnerRequired, wireVars, ledgerVars
<1>7. ASSUME NEW m \in Mirrors, NEW terms \in PlatformTerms, SetPlatformFee(m, terms)
      PROVE  Rests
  BY <1>1, <1>7 DEF SetPlatformFee, wireVars, ledgerVars
<1>8. ASSUME NEW m \in Mirrors, NEW n \in InvalidatedNonces, InvalidateNonce(m, n[1], n[2])
      PROVE  Rests
  BY <1>1, <1>8 DEF InvalidateNonce, wireVars, ledgerVars
<1> QED
  BY <1>2, <1>3, <1>4, <1>5, <1>6, <1>7, <1>8 DEF Administering

(***************************************************************************)
(* What a transaction on a mirror does to the assets there.                *)
(***************************************************************************)
LEMMA MirrorFlowKinds ==
  ASSUME MirrorInv, MirrorNext
  PROVE  \/ \E p : Departs(p)
         \/ \E p \in returns : Arrives(p)
         \/ \E n \in notices, i \in Ids, accepted \in TokenAccepts :
              NoticeCancelled(n, i, accepted) /\ RestoresInput(n.m, i)
         \/ Rests
<1>0. WireTypeOK
  BY DEF MirrorInv, MirrorTypeOK
<1>1. CASE Bridging
  BY <1>0, <1>1, DirectDeparts, ReturnArrives DEF Bridging, requestVars
<1>2. CASE Ordering
  <2>1. PICK m \in Mirrors, r \in Request, f \in FeeEscrow, p \in OrderPacket : Takes(m, r, f, p)
    BY <1>2, OrderingTakes
  <2> QED
    BY <2>1, TakingDeparts
<1>3. CASE Settling
  BY <1>3, SettlingRests, NoticeFlows DEF Settling
<1>4. CASE Administering
  BY <1>4, AdministeringRests
<1> QED
  BY <1>1, <1>2, <1>3, <1>4 DEF MirrorNext

-----------------------------------------------------------------------------
(***************************************************************************)
(* What is on the wire.  Every send counts whole units out of one chain    *)
(* and puts as many on the wire, every arrival takes them off the wire and *)
(* counts them in, and a cancellation counts in what the packet it killed  *)
(* carried.  All of it is said in shared units, so what is counted is kept *)
(* whole.                                                                  *)
(***************************************************************************)

Whole(x, q) == x = ToLocal(ToShared(x, q), q)

(* Units added to whole ones.                                              *)
LEMMA WholeMore ==
  ASSUME NEW q \in Nat \ {0}, NEW x \in Nat, NEW y, NEW s \in Nat,
         Whole(x, q), y = x + ToLocal(s, q)
  PROVE  Whole(y, q) /\ ToShared(y, q) = ToShared(x, q) + s
<1>1. PICK n : n = ToShared(x, q)
  OBVIOUS
<1>2. n \in Nat
  BY <1>1, AmountTypes
<1>3. y = ToLocal(n + s, q)
  <2>1. (n + s) * q = n * q + s * q
    BY <1>2
  <2> QED
    BY <1>1, <2>1 DEF Whole, ToLocal
<1>4. ToShared(y, q) = n + s
  <2>1. n + s \in Nat
    BY <1>2
  <2> QED
    BY <1>3, <2>1, UnitsExact
<1> QED
  BY <1>1, <1>3, <1>4 DEF Whole

(* Units taken from them.                                                  *)
LEMMA WholeLess ==
  ASSUME NEW q \in Nat \ {0}, NEW x \in Nat, NEW y \in Nat, NEW s \in Nat,
         Whole(x, q), x = y + ToLocal(s, q)
  PROVE  Whole(y, q) /\ ToShared(y, q) + s = ToShared(x, q)
<1>1. PICK n : n = ToShared(x, q)
  OBVIOUS
<1>2. n \in Nat /\ x = n * q /\ x = y + s * q
  BY <1>1, AmountTypes DEF Whole, ToLocal
<1>3. s <= n
  <2> SUFFICES ASSUME n + 1 <= s
               PROVE  FALSE
    BY <1>2
  <2>1. (n + 1) * q <= s * q
    BY <1>2, ProductOrder
  <2>2. (n + 1) * q = n * q + q /\ n * q \in Nat /\ s * q \in Nat
    BY <1>2
  <2> QED
    BY <1>2, <2>1, <2>2
<1>4. n - s \in Nat
  BY <1>2, <1>3
<1>5. PICK d \in Nat : d = n - s
  BY <1>4
<1>6. n = d + s
  BY <1>2, <1>5
<1>7. (d + s) * q = d * q + s * q /\ d * q \in Nat /\ s * q \in Nat
  OBVIOUS
<1>8. y = ToLocal(d, q)
  BY <1>2, <1>6, <1>7 DEF ToLocal
<1>9. ToShared(y, q) = d
  BY <1>8, UnitsExact
<1> QED
  BY <1>1, <1>6, <1>8, <1>9 DEF Whole

-----------------------------------------------------------------------------
(* The mirrors, all together.                                              *)

(* One mirror's term grows.                                                *)
LEMMA TermGrows ==
  ASSUME NEW f, NEW g, DOMAIN f = Mirrors, DOMAIN g = Mirrors,
         \A m \in Mirrors : f[m] \in Nat, NEW mm \in Mirrors, NEW x \in Nat,
         \A m \in Mirrors : g[m] = f[m] + (IF m = mm THEN x ELSE 0)
  PROVE  SumFunction(f) \in Nat /\ SumFunction(g) = SumFunction(f) + x
<1>1. IsFiniteSet(Mirrors)
  BY WireAssumption
<1>2. /\ \A m \in Mirrors : f[m] \in Nat /\ g[m] \in Nat
      /\ \A m \in Mirrors : m # mm => g[m] = f[m]
      /\ g[mm] = f[mm] + x
  OBVIOUS
<1>3. /\ SumFunctionOnSet(f, Mirrors) \in Nat /\ SumFunctionOnSet(g, Mirrors) \in Nat
      /\ SumFunctionOnSet(g, Mirrors) = SumFunctionOnSet(f, Mirrors) - f[mm] + g[mm]
  BY <1>1, <1>2, SumChanges
<1> QED
  BY <1>2, <1>3 DEF SumFunction

(* An asset of a mirror: its supply came in and has not gone out, and both *)
(* in whole units of the wire.                                             *)
MirrorWhole(k, q) ==
  Total(k) + k.out = k.in /\ Whole(k.out, q) /\ Whole(k.in, q)

MirrorFlow ==
  \A m \in Mirrors, t \in Tokens : MirrorWhole(mirrorToken[m][t], MirrorQuantum[m][t])

(* From k to l, a units were counted out and b in.                         *)
Counts(k, l, q, a, b) ==
  /\ MirrorWhole(l, q)
  /\ ToShared(k.out, q) \in Nat /\ ToShared(l.out, q) = ToShared(k.out, q) + a
  /\ ToShared(k.in, q) \in Nat /\ ToShared(l.in, q) = ToShared(k.in, q) + b

(* Whole units leave it, or arrive.                                        *)
LEMMA CellStaysWhole ==
  ASSUME NEW k \in Token, NEW l, NEW q \in Nat \ {0}, MirrorWhole(k, q),
         NEW a \in Nat, NEW b \in Nat, Flows(k, l, ToLocal(a, q), ToLocal(b, q))
  PROVE  Counts(k, l, q, a, b)
<1>1. PICK x, y : x = ToLocal(a, q) /\ y = ToLocal(b, q)
  OBVIOUS
<1>2. x \in Nat /\ y \in Nat
  BY <1>1, AmountTypes
<1>3. /\ l \in Token /\ l.out = k.out + x /\ l.in = k.in + y
      /\ Total(l) + x = Total(k) + y
  BY <1>1 DEF Flows
<1>4. /\ k.out \in Nat /\ k.in \in Nat /\ Total(k) \in Nat /\ Total(l) \in Nat
  BY <1>3, TotalIsNat DEF Token
<1>5. Total(k) + k.out = k.in /\ Whole(k.out, q) /\ Whole(k.in, q)
  BY DEF MirrorWhole
<1>6. Whole(l.out, q) /\ ToShared(l.out, q) = ToShared(k.out, q) + a
  BY <1>1, <1>3, <1>4, <1>5, WholeMore
<1>7. Whole(l.in, q) /\ ToShared(l.in, q) = ToShared(k.in, q) + b
  BY <1>1, <1>3, <1>4, <1>5, WholeMore
<1>8. Total(l) + l.out = l.in
  BY <1>2, <1>3, <1>4, <1>5
<1>9. ToShared(k.out, q) \in Nat /\ ToShared(k.in, q) \in Nat
  BY <1>4, AmountTypes
<1> QED
  BY <1>6, <1>7, <1>8, <1>9 DEF MirrorWhole, Counts

(* What is counted out of the mirrors and into them, all together.         *)
LEMMA CountedTypes ==
  ASSUME WireTypeOK
  PROVE  \A t \in Tokens : OutShared(t) \in Nat /\ InShared(t) \in Nat
<1> SUFFICES ASSUME NEW t \in Tokens
             PROVE  OutShared(t) \in Nat /\ InShared(t) \in Nat
  OBVIOUS
<1>1. PICK f, g :
        /\ f = [m \in Mirrors |-> ToShared(mirrorToken[m][t].out, MirrorQuantum[m][t])]
        /\ g = [m \in Mirrors |-> ToShared(mirrorToken[m][t].in, MirrorQuantum[m][t])]
  OBVIOUS
<1>2. ASSUME NEW m \in Mirrors
      PROVE  f[m] \in Nat /\ g[m] \in Nat
  <2>1. mirrorToken[m][t] \in Token /\ MirrorQuantum[m][t] \in Nat \ {0}
    BY WireAssumption DEF WireTypeOK
  <2>2. mirrorToken[m][t].out \in Nat /\ mirrorToken[m][t].in \in Nat
    BY <2>1 DEF Token
  <2> QED
    BY <1>1, <2>1, <2>2, AmountTypes
<1>3. SumFunctionOnSet(f, Mirrors) \in Nat /\ SumFunctionOnSet(g, Mirrors) \in Nat
  BY <1>2, SumIsNat, WireAssumption
<1>4. DOMAIN f = Mirrors /\ DOMAIN g = Mirrors
  BY <1>1
<1>5. OutShared(t) = SumFunction(f) /\ InShared(t) = SumFunction(g)
  BY <1>1 DEF OutShared, InShared
<1> QED
  BY <1>3, <1>4, <1>5 DEF SumFunction

(* Whole units leave one asset of one mirror, and arrive.                  *)
LEMMA CellCounted ==
  ASSUME WireTypeOK, MirrorFlow, NEW m \in Mirrors, NEW t \in Tokens, NEW a \in Nat, NEW b \in Nat,
         CellFlows(m, t, ToLocal(a, MirrorQuantum[m][t]), ToLocal(b, MirrorQuantum[m][t]))
  PROVE  /\ MirrorFlow'
         /\ \A tt \in Tokens :
              /\ OutShared(tt)' = OutShared(tt) + (IF tt = t THEN a ELSE 0)
              /\ InShared(tt)' = InShared(tt) + (IF tt = t THEN b ELSE 0)
<1>1. ASSUME NEW mm \in Mirrors, NEW tt \in Tokens
      PROVE  Counts(mirrorToken[mm][tt], mirrorToken'[mm][tt], MirrorQuantum[mm][tt],
                    IF mm = m /\ tt = t THEN a ELSE 0, IF mm = m /\ tt = t THEN b ELSE 0)
  <2>1. PICK q, k, l : /\ q = MirrorQuantum[mm][tt] /\ k = mirrorToken[mm][tt]
                       /\ l = mirrorToken'[mm][tt]
    OBVIOUS
  <2>2. k \in Token /\ q \in Nat \ {0} /\ MirrorWhole(k, q)
    BY <2>1, WireAssumption DEF WireTypeOK, MirrorFlow
  <2>3. Flows(k, l, IF mm = m /\ tt = t THEN ToLocal(a, MirrorQuantum[m][t]) ELSE 0,
                    IF mm = m /\ tt = t THEN ToLocal(b, MirrorQuantum[m][t]) ELSE 0)
    BY <2>1 DEF CellFlows
  <2>4. ToLocal(0, q) = 0
    BY <2>2 DEF ToLocal
  <2>5. CASE mm = m /\ tt = t
    <3>1. Flows(k, l, ToLocal(a, q), ToLocal(b, q))
      BY <2>1, <2>3, <2>5
    <3>2. Counts(k, l, q, a, b)
      BY <2>2, <3>1, CellStaysWhole
    <3> QED
      BY <2>1, <2>5, <3>2
  <2>6. CASE ~(mm = m /\ tt = t)
    <3>1. Flows(k, l, ToLocal(0, q), ToLocal(0, q))
      BY <2>3, <2>4, <2>6
    <3>2. Counts(k, l, q, 0, 0)
      BY <2>2, <3>1, CellStaysWhole
    <3> QED
      BY <2>1, <2>6, <3>2
  <2> QED
    BY <2>5, <2>6
<1>2. MirrorFlow'
  BY <1>1 DEF MirrorFlow, Counts
<1>3. ASSUME NEW tt \in Tokens
      PROVE  /\ OutShared(tt)' = OutShared(tt) + (IF tt = t THEN a ELSE 0)
             /\ InShared(tt)' = InShared(tt) + (IF tt = t THEN b ELSE 0)
  <2>1. PICK c, d : c = (IF tt = t THEN a ELSE 0) /\ d = (IF tt = t THEN b ELSE 0)
    OBVIOUS
  <2>2. PICK f, g :
          /\ f = [mm \in Mirrors |-> ToShared(mirrorToken[mm][tt].out, MirrorQuantum[mm][tt])]
          /\ g = [mm \in Mirrors |-> ToShared(mirrorToken'[mm][tt].out, MirrorQuantum[mm][tt])]
    OBVIOUS
  <2>3. PICK h, j :
          /\ h = [mm \in Mirrors |-> ToShared(mirrorToken[mm][tt].in, MirrorQuantum[mm][tt])]
          /\ j = [mm \in Mirrors |-> ToShared(mirrorToken'[mm][tt].in, MirrorQuantum[mm][tt])]
    OBVIOUS
  <2>4. ASSUME NEW mm \in Mirrors
        PROVE  /\ f[mm] \in Nat /\ g[mm] = f[mm] + (IF mm = m THEN c ELSE 0)
               /\ h[mm] \in Nat /\ j[mm] = h[mm] + (IF mm = m THEN d ELSE 0)
    <3>1. /\ f[mm] \in Nat /\ g[mm] = f[mm] + (IF mm = m /\ tt = t THEN a ELSE 0)
          /\ h[mm] \in Nat /\ j[mm] = h[mm] + (IF mm = m /\ tt = t THEN b ELSE 0)
      BY <1>1, <2>2, <2>3 DEF Counts
    <3> QED
      BY <2>1, <3>1
  <2>5. c \in Nat /\ d \in Nat
    BY <2>1
  <2>6. SumFunction(g) = SumFunction(f) + c
    BY <2>2, <2>4, <2>5, TermGrows
  <2>7. SumFunction(j) = SumFunction(h) + d
    BY <2>3, <2>4, <2>5, TermGrows
  <2>8. /\ OutShared(tt) = SumFunction(f) /\ OutShared(tt)' = SumFunction(g)
        /\ InShared(tt) = SumFunction(h) /\ InShared(tt)' = SumFunction(j)
    BY <2>2, <2>3 DEF OutShared, InShared
  <2> QED
    BY <2>1, <2>6, <2>7, <2>8
<1> QED
  BY <1>2, <1>3

(* Nothing does.                                                           *)
LEMMA NothingCounted ==
  ASSUME WireTypeOK, MirrorFlow, NoFlows
  PROVE  /\ MirrorFlow'
         /\ \A t \in Tokens : OutShared(t)' = OutShared(t) /\ InShared(t)' = InShared(t)
<1>1. ASSUME NEW m \in Mirrors, NEW t \in Tokens
      PROVE  /\ MirrorWhole(mirrorToken'[m][t], MirrorQuantum[m][t])
             /\ mirrorToken'[m][t].out = mirrorToken[m][t].out
             /\ mirrorToken'[m][t].in = mirrorToken[m][t].in
  <2>1. PICK k, l : k = mirrorToken[m][t] /\ l = mirrorToken'[m][t]
    OBVIOUS
  <2>2. /\ l \in Token /\ l.out = k.out + 0 /\ l.in = k.in + 0 /\ Total(l) + 0 = Total(k) + 0
    BY <2>1 DEF NoFlows, Flows
  <2>3. k \in Token /\ MirrorWhole(k, MirrorQuantum[m][t])
    BY <2>1 DEF WireTypeOK, MirrorFlow
  <2>4. /\ k.out \in Nat /\ k.in \in Nat /\ Total(k) \in Nat /\ Total(l) \in Nat
    BY <2>2, <2>3, TotalIsNat DEF Token
  <2>5. l.out = k.out /\ l.in = k.in /\ Total(l) = Total(k)
    BY <2>2, <2>4
  <2> QED
    BY <2>1, <2>3, <2>5 DEF MirrorWhole
<1>2. MirrorFlow'
  BY <1>1 DEF MirrorFlow
<1>3. ASSUME NEW t \in Tokens
      PROVE  OutShared(t)' = OutShared(t) /\ InShared(t)' = InShared(t)
  <2>1. [m \in Mirrors |-> ToShared(mirrorToken'[m][t].out, MirrorQuantum[m][t])]
          = [m \in Mirrors |-> ToShared(mirrorToken[m][t].out, MirrorQuantum[m][t])]
    BY <1>1
  <2>2. [m \in Mirrors |-> ToShared(mirrorToken'[m][t].in, MirrorQuantum[m][t])]
          = [m \in Mirrors |-> ToShared(mirrorToken[m][t].in, MirrorQuantum[m][t])]
    BY <1>1
  <2> QED
    BY <2>1, <2>2 DEF OutShared, InShared
<1> QED
  BY <1>2, <1>3

(* What circulates there is what came in and did not go out.               *)
LEMMA AbroadIsNet ==
  ASSUME WireTypeOK, MirrorFlow, NEW t \in Tokens
  PROVE  /\ AbroadShared(t) \in Nat
         /\ AbroadShared(t) + OutShared(t) = InShared(t)
<1>1. PICK f, g, h :
        /\ f = [m \in Mirrors |-> ToShared(mirrorToken[m][t].in, MirrorQuantum[m][t])]
        /\ g = [m \in Mirrors |-> ToShared(mirrorToken[m][t].out, MirrorQuantum[m][t])]
        /\ h = [m \in Mirrors |-> ToShared(SumFunction(mirrorToken[m][t].bal), MirrorQuantum[m][t])]
  OBVIOUS
<1>2. ASSUME NEW m \in Mirrors
      PROVE  f[m] \in Nat /\ g[m] \in Nat /\ h[m] \in Nat /\ h[m] + g[m] = f[m]
  <2>1. PICK k, q : k = mirrorToken[m][t] /\ q = MirrorQuantum[m][t]
    OBVIOUS
  <2>2. k \in Token /\ q \in Nat \ {0} /\ MirrorWhole(k, q)
    BY <2>1, WireAssumption DEF WireTypeOK, MirrorFlow
  <2>3. SumFunction(k.bal) = Total(k)
    <3>1. DOMAIN k.bal = Accounts
      BY <2>2 DEF Token
    <3> QED
      BY <3>1 DEF SumFunction, Total
  <2>4. k.out \in Nat /\ k.in \in Nat /\ Total(k) \in Nat
    BY <2>2, TotalIsNat DEF Token
  <2>5. PICK a : a = ToShared(k.out, q)
    OBVIOUS
  <2>6. a \in Nat
    BY <2>2, <2>4, <2>5, AmountTypes
  <2>7. k.in = Total(k) + ToLocal(a, q) /\ Whole(k.in, q)
    BY <2>2, <2>5 DEF MirrorWhole, Whole
  <2>8. ToShared(Total(k), q) + a = ToShared(k.in, q)
    BY <2>2, <2>4, <2>6, <2>7, WholeLess
  <2>9. ToShared(Total(k), q) \in Nat /\ ToShared(k.in, q) \in Nat
    BY <2>2, <2>4, AmountTypes
  <2>10. f[m] = ToShared(k.in, q) /\ g[m] = a /\ h[m] = ToShared(Total(k), q)
    BY <1>1, <2>1, <2>3, <2>5
  <2> QED
    BY <2>6, <2>8, <2>9, <2>10
<1>3. IsFiniteSet(Mirrors)
  BY WireAssumption
<1>4. SumFunctionOnSet(h, Mirrors) + SumFunctionOnSet(g, Mirrors) = SumFunctionOnSet(f, Mirrors)
  BY <1>2, <1>3, SumOfDifferences
<1>5. SumFunctionOnSet(h, Mirrors) \in Nat
  BY <1>2, <1>3, SumIsNat
<1>6. DOMAIN f = Mirrors /\ DOMAIN g = Mirrors /\ DOMAIN h = Mirrors
  BY <1>1
<1>7. AbroadShared(t) = SumFunction(h) /\ OutShared(t) = SumFunction(g) /\ InShared(t) = SumFunction(f)
  BY <1>1 DEF AbroadShared, OutShared, InShared
<1> QED
  BY <1>4, <1>5, <1>6, <1>7 DEF SumFunction

-----------------------------------------------------------------------------
(* What is on the wire.                                                    *)

(* It is counted in whole numbers.                                         *)
LEMMA SharedIsNat ==
  ASSUME NEW S, IsFiniteSet(S), \A p \in S : p.sd \in Nat, NEW t
  PROVE  SharedOf(S, t) \in Nat
<1>1. PICK f : f = [p \in S |-> IF p.t = t THEN p.sd ELSE 0]
  OBVIOUS
<1>2. DOMAIN f = S /\ \A p \in S : f[p] \in Nat
  BY <1>1
<1>3. SharedOf(S, t) = SumFunctionOnSet(f, S)
  BY <1>1, <1>2 DEF SharedOf, SumFunction
<1> QED
  BY <1>2, <1>3, SumIsNat

(* A packet is put on it.                                                  *)
LEMMA SharedGrows ==
  ASSUME NEW S, IsFiniteSet(S), NEW p, p \notin S, \A x \in S \cup {p} : x.sd \in Nat, NEW t
  PROVE  SharedOf(S \cup {p}, t) = SharedOf(S, t) + (IF p.t = t THEN p.sd ELSE 0)
<1>1. PICK U : U = S \cup {p}
  OBVIOUS
<1>2. PICK f, g : /\ f = [x \in S |-> IF x.t = t THEN x.sd ELSE 0]
                  /\ g = [x \in U |-> IF x.t = t THEN x.sd ELSE 0]
  OBVIOUS
<1>3. /\ DOMAIN f = S /\ DOMAIN g = U
      /\ \A x \in S : f[x] = g[x]
      /\ \A x \in S \cup {p} : g[x] \in Nat
      /\ g[p] = IF p.t = t THEN p.sd ELSE 0
  BY <1>1, <1>2
<1>4. SumFunctionOnSet(g, U) = SumFunctionOnSet(g, S) + g[p]
  BY <1>1, <1>3, SumAdds
<1>5. SumFunctionOnSet(f, S) = SumFunctionOnSet(g, S)
  BY <1>3, SumOfSame
<1>6. SharedOf(S, t) = SumFunctionOnSet(f, S) /\ SharedOf(U, t) = SumFunctionOnSet(g, U)
  BY <1>2, <1>3 DEF SharedOf, SumFunction
<1> QED
  BY <1>1, <1>3, <1>4, <1>5, <1>6

(* One is taken off it.                                                    *)
LEMMA SharedDrops ==
  ASSUME NEW S, IsFiniteSet(S), NEW p \in S, \A x \in S : x.sd \in Nat, NEW t
  PROVE  SharedOf(S, t) = SharedOf(S \ {p}, t) + (IF p.t = t THEN p.sd ELSE 0)
<1>1. PICK U : U = S \ {p}
  OBVIOUS
<1>2. S = U \cup {p} /\ p \notin U /\ IsFiniteSet(U)
  BY <1>1, FS_Subset
<1>3. \A x \in U \cup {p} : x.sd \in Nat
  BY <1>2
<1>4. SharedOf(U \cup {p}, t) = SharedOf(U, t) + (IF p.t = t THEN p.sd ELSE 0)
  BY <1>2, <1>3, SharedGrows
<1>5. SharedOf(S, t) = SharedOf(U \cup {p}, t)
  BY <1>2
<1> QED
  BY <1>1, <1>4, <1>5

-----------------------------------------------------------------------------
(***************************************************************************)
(* What the mirrors and the wire say of what is away from home: the        *)
(* invariant of that side, and what each kind of step does to it.          *)
(***************************************************************************)

(* No return has a number its path has not given out.                      *)
ReturnsNumbered ==
  \A p \in returns : p.nonce <= backNonce[p.m][p.t]

(* A packet on the wire carries what its request recorded, and is the only *)
(* one of its request.                                                     *)
PacketWorth ==
  \A p \in orders : p.id # 0 =>
    /\ requests[p.m][p.id].status # "NONE"
    /\ ToLocal(p.sd, MirrorQuantum[p.m][p.t]) = requests[p.m][p.id].amountIn

OnePacketEach ==
  \A p, q \in orders : p.id # 0 /\ p.m = q.m /\ p.id = q.id => p = q

WireInv ==
  /\ IsFiniteSet(orders) /\ IsFiniteSet(returns)
  /\ ReturnsNumbered
  /\ PacketWorth /\ OnePacketEach
  /\ MirrorFlow

(* What has left the home chain and not come back to it, as the mirrors    *)
(* and the wire tell.                                                      *)
Away(t) == InShared(t) + InFlight(t) - OutShared(t)

(* The packets on the wire are counted in whole numbers.                   *)
LEMMA FlightTypes ==
  ASSUME WireTypeOK, WireInv, NEW t
  PROVE  /\ IsFiniteSet(Flying) /\ IsFiniteSet(returns)
         /\ \A p \in Flying : p.sd \in Nat
         /\ \A p \in returns : p.sd \in Nat
         /\ SharedOf(Flying, t) \in Nat /\ SharedOf(returns, t) \in Nat
         /\ InFlight(t) = SharedOf(Flying, t) + SharedOf(returns, t)
         /\ InFlight(t) \in Nat
<1>0. IsFiniteSet(orders) /\ IsFiniteSet(returns)
  BY DEF WireInv
<1>1. IsFiniteSet(Flying)
  BY <1>0, FS_Subset DEF Flying
<1>2. (\A p \in Flying : p.sd \in Nat) /\ (\A p \in returns : p.sd \in Nat)
  BY DEF Flying, WireTypeOK, OrderPacket, ReturnPacket
<1>3. SharedOf(Flying, t) \in Nat /\ SharedOf(returns, t) \in Nat
  BY <1>0, <1>1, <1>2, SharedIsNat
<1>4. InFlight(t) = SharedOf(Flying, t) + SharedOf(returns, t)
  BY DEF InFlight
<1> QED
  BY <1>0, <1>1, <1>2, <1>3, <1>4

(* What is away is a whole number of units.                                *)
LEMMA AwayTypes ==
  ASSUME WireTypeOK, WireInv, NEW t \in Tokens
  PROVE  /\ InShared(t) \in Nat /\ InFlight(t) \in Nat /\ OutShared(t) \in Nat
         /\ Away(t) \in Int
<1>1. InShared(t) \in Nat /\ InFlight(t) \in Nat /\ OutShared(t) \in Nat
  BY CountedTypes, FlightTypes
<1> QED
  BY <1>1 DEF Away

(* What it is the sum of, before a step and after it.                      *)
LEMMA AwayTerms ==
  ASSUME WireTypeOK, WireInv, NEW t \in Tokens
  PROVE  /\ InShared(t) \in Nat /\ OutShared(t) \in Nat
         /\ SharedOf(Flying, t) \in Nat /\ SharedOf(returns, t) \in Nat
         /\ Away(t) = InShared(t) + SharedOf(Flying, t) + SharedOf(returns, t) - OutShared(t)
         /\ Away(t)' = InShared(t)' + (SharedOf(Flying', t) + SharedOf(returns', t)) - OutShared(t)'
<1>1. InShared(t) \in Nat /\ OutShared(t) \in Nat
  BY CountedTypes
<1>2. /\ SharedOf(Flying, t) \in Nat /\ SharedOf(returns, t) \in Nat
      /\ InFlight(t) = SharedOf(Flying, t) + SharedOf(returns, t)
  BY FlightTypes
<1>3. InFlight(t)' = SharedOf(Flying', t) + SharedOf(returns', t)
  BY DEF InFlight, SharedOf
<1>4. Away(t) = InShared(t) + InFlight(t) - OutShared(t)
  BY DEF Away
<1>5. Away(t)' = InShared(t)' + InFlight(t)' - OutShared(t)'
  BY DEF Away
<1> QED
  BY <1>1, <1>2, <1>3, <1>4, <1>5

(* A packet is restored as it was.                                         *)
LEMMA SameRestored ==
  ASSUME SameCancelled, NEW p \in OrderPacket
  PROVE  Restored(p)' <=> Restored(p)
<1>1. p.m \in Mirrors /\ p.id \in Ids \cup {0}
  BY DEF OrderPacket
<1>2. CASE p.id = 0
  BY <1>2 DEF Restored
<1>3. CASE p.id \in Ids
  BY <1>1, <1>3 DEF Restored, SameCancelled
<1> QED
  BY <1>1, <1>2, <1>3

(* Orders that stay are on the wire as they were.                          *)
LEMMA SameFlying ==
  ASSUME WireTypeOK, SameCancelled, orders' = orders
  PROVE  Flying' = Flying
<1>1. \A p \in orders : p \in OrderPacket
  BY DEF WireTypeOK
<1>2. \A p \in orders : Restored(p)' <=> Restored(p)
  BY <1>1, SameRestored
<1> QED
  BY <1>2 DEF Flying

(* The packets that stay are worth what they were.                         *)
LEMMA WorthStays ==
  ASSUME WireTypeOK, WireInv, EntriesKept, NEW p \in orders, p.id # 0
  PROVE  /\ requests'[p.m][p.id].status # "NONE"
         /\ ToLocal(p.sd, MirrorQuantum[p.m][p.t]) = requests'[p.m][p.id].amountIn
<1>1. p.m \in Mirrors /\ p.id \in Ids
  BY DEF WireTypeOK, OrderPacket
<1> QED
  BY <1>1 DEF EntriesKept, WireInv, PacketWorth

(* An order taken is on the wire once.                                     *)
LEMMA FreshPacket ==
  ASSUME WireTypeOK, WireInv, \A x \in orders : x.nonce <= outNonce[x.m][x.t],
         NEW p, Departs(p)
  PROVE  /\ p \notin orders
         /\ \A x \in orders : p.id # 0 /\ x.m = p.m => x.id # p.id
<1>1. p \in OrderPacket
  BY DEF Departs
<1>2. /\ p.m \in Mirrors /\ p.t \in Tokens /\ p.id \in Ids \cup {0} /\ p.nonce \in Nat
  BY <1>1 DEF OrderPacket
<1>3. CASE p.id = 0
  <2>1. p.nonce = outNonce[p.m][p.t] + 1 /\ outNonce[p.m][p.t] \in Nat
    BY <1>2, <1>3 DEF Departs, WireTypeOK
  <2> QED
    BY <1>3, <2>1
<1>4. CASE p.id # 0
  <2>1. requests[p.m][p.id].status = "NONE"
    BY <1>4 DEF Departs
  <2>2. \A x \in orders : x.id # 0 => requests[x.m][x.id].status # "NONE"
    BY DEF WireInv, PacketWorth
  <2> QED
    BY <1>4, <2>1, <2>2
<1> QED
  BY <1>3, <1>4

(* What left a mirror is on the wire, and so is still away.                *)
LEMMA DepartureKeepsAway ==
  ASSUME WireTypeOK, WireInv, EntriesKept,
         \A x \in orders : x.nonce <= outNonce[x.m][x.t], NEW p, Departs(p)
  PROVE  WireInv' /\ \A t \in Tokens : Away(t)' = Away(t)
<1>0. WireInv
  OBVIOUS
<1>1. /\ p \in OrderPacket /\ orders' = orders \cup {p} /\ SameCancelled
      /\ returns' = returns /\ backNonce' = backNonce
      /\ CellFlows(p.m, p.t, ToLocal(p.sd, MirrorQuantum[p.m][p.t]), 0)
  BY DEF Departs
<1>2. /\ p.m \in Mirrors /\ p.t \in Tokens /\ p.id \in Ids \cup {0} /\ p.sd \in Nat
  BY <1>1 DEF OrderPacket
<1>3. /\ p \notin orders
      /\ \A x \in orders : p.id # 0 /\ x.m = p.m => x.id # p.id
  BY FreshPacket
<1>4. IsFiniteSet(orders') /\ IsFiniteSet(returns')
  BY <1>0, <1>1, FS_AddElement DEF WireInv
<1>5. ReturnsNumbered'
  BY <1>0, <1>1 DEF WireInv, ReturnsNumbered
<1>6. PacketWorth'
  <2> SUFFICES ASSUME NEW x \in orders', x.id # 0
               PROVE  /\ requests'[x.m][x.id].status # "NONE"
                      /\ ToLocal(x.sd, MirrorQuantum[x.m][x.t]) = requests'[x.m][x.id].amountIn
    BY DEF PacketWorth
  <2>1. CASE x \in orders
    BY <2>1, WorthStays
  <2>2. CASE x = p
    BY <2>2 DEF Departs
  <2> QED
    BY <1>1, <2>1, <2>2
<1>7. OnePacketEach'
  <2> SUFFICES ASSUME NEW x \in orders', NEW y \in orders', x.id # 0, x.m = y.m, x.id = y.id
               PROVE  x = y
    BY DEF OnePacketEach
  <2>1. CASE x \in orders /\ y \in orders
    BY <1>0, <2>1 DEF WireInv, OnePacketEach
  <2>2. CASE x = p \/ y = p
    BY <1>1, <1>3, <2>2
  <2> QED
    BY <1>1, <2>1, <2>2
<1>8. /\ MirrorFlow'
      /\ \A t \in Tokens : /\ OutShared(t)' = OutShared(t) + (IF t = p.t THEN p.sd ELSE 0)
                           /\ InShared(t)' = InShared(t) + (IF t = p.t THEN 0 ELSE 0)
  <2>1. ToLocal(0, MirrorQuantum[p.m][p.t]) = 0
    BY <1>2, WireAssumption DEF ToLocal
  <2>2. CellFlows(p.m, p.t, ToLocal(p.sd, MirrorQuantum[p.m][p.t]),
                            ToLocal(0, MirrorQuantum[p.m][p.t]))
    BY <1>1, <2>1
  <2> QED
    BY <1>0, <1>2, <2>2, CellCounted DEF WireInv
<1>9. Flying' = Flying \cup {p} /\ p \notin Flying
  <2>1. \A x \in orders : Restored(x)' <=> Restored(x)
    BY <1>1, SameRestored DEF WireTypeOK
  <2>2. ~Restored(p)
    BY <1>2 DEF Restored, Departs
  <2>3. ~Restored(p)'
    BY <1>1, <2>2, SameRestored
  <2> QED
    BY <1>1, <1>3, <2>1, <2>3 DEF Flying
<1>10. ASSUME NEW t \in Tokens
       PROVE  Away(t)' = Away(t)
  <2>1. PICK d : d = (IF p.t = t THEN p.sd ELSE 0)
    OBVIOUS
  <2>2. d \in Nat
    BY <1>2, <2>1
  <2>3. /\ IsFiniteSet(Flying) /\ \A x \in Flying \cup {p} : x.sd \in Nat
        /\ SharedOf(Flying, t) \in Nat /\ SharedOf(returns, t) \in Nat
    BY <1>0, <1>2, FlightTypes
  <2>4. SharedOf(Flying \cup {p}, t) = SharedOf(Flying, t) + (IF p.t = t THEN p.sd ELSE 0)
    BY <1>9, <2>3, SharedGrows
  <2>5. SharedOf(Flying', t) = SharedOf(Flying, t) + d
    BY <1>9, <2>1, <2>4
  <2>6. SharedOf(returns', t) = SharedOf(returns, t) + 0
    BY <1>1, <2>3
  <2>7. OutShared(t)' = OutShared(t) + d /\ InShared(t)' = InShared(t) + 0
    BY <1>8, <2>1
  <2>8. Away(t)' = Away(t) + 0
    BY <2>2, <2>5, <2>6, <2>7, AwayTerms
  <2>9. Away(t) \in Int
    BY AwayTypes
  <2> QED
    BY <2>2, <2>8, <2>9
<1> QED
  BY <1>4, <1>5, <1>6, <1>7, <1>8, <1>10 DEF WireInv

(* What arrives on a mirror leaves the wire.                               *)
LEMMA ArrivalKeepsAway ==
  ASSUME WireTypeOK, WireInv, EntriesKept, NEW p \in returns, Arrives(p)
  PROVE  WireInv' /\ \A t \in Tokens : Away(t)' = Away(t)
<1>0. WireInv
  OBVIOUS
<1>1. /\ returns' = returns \ {p} /\ SameCancelled
      /\ orders' = orders /\ backNonce' = backNonce
      /\ CellFlows(p.m, p.t, 0, ToLocal(p.sd, MirrorQuantum[p.m][p.t]))
  BY DEF Arrives
<1>2. p.m \in Mirrors /\ p.t \in Tokens /\ p.sd \in Nat
  BY DEF WireTypeOK, ReturnPacket
<1>3. IsFiniteSet(orders') /\ IsFiniteSet(returns')
  BY <1>0, <1>1, FS_Subset DEF WireInv
<1>4. ReturnsNumbered'
  BY <1>0, <1>1 DEF WireInv, ReturnsNumbered
<1>5. PacketWorth' /\ OnePacketEach'
  BY <1>0, <1>1, WorthStays DEF WireInv, PacketWorth, OnePacketEach
<1>6. /\ MirrorFlow'
      /\ \A t \in Tokens : /\ OutShared(t)' = OutShared(t) + (IF t = p.t THEN 0 ELSE 0)
                           /\ InShared(t)' = InShared(t) + (IF t = p.t THEN p.sd ELSE 0)
  <2>1. ToLocal(0, MirrorQuantum[p.m][p.t]) = 0
    BY <1>2, WireAssumption DEF ToLocal
  <2>2. CellFlows(p.m, p.t, ToLocal(0, MirrorQuantum[p.m][p.t]),
                            ToLocal(p.sd, MirrorQuantum[p.m][p.t]))
    BY <1>1, <2>1
  <2> QED
    BY <1>0, <1>2, <2>2, CellCounted DEF WireInv
<1>7. Flying' = Flying
  BY <1>1, SameFlying
<1>8. ASSUME NEW t \in Tokens
      PROVE  Away(t)' = Away(t)
  <2>1. PICK d : d = (IF p.t = t THEN p.sd ELSE 0)
    OBVIOUS
  <2>2. d \in Nat
    BY <1>2, <2>1
  <2>3. /\ IsFiniteSet(returns) /\ \A x \in returns : x.sd \in Nat
        /\ SharedOf(Flying, t) \in Nat /\ SharedOf(returns, t) \in Nat
    BY <1>0, FlightTypes
  <2>4. SharedOf(returns, t) = SharedOf(returns \ {p}, t) + (IF p.t = t THEN p.sd ELSE 0)
    BY <2>3, SharedDrops
  <2>5. SharedOf(returns', t) \in Nat
    BY <1>1, <1>3, <2>3, SharedIsNat
  <2>6. SharedOf(returns', t) = SharedOf(returns, t) + (-d)
    BY <1>1, <2>1, <2>2, <2>3, <2>4, <2>5
  <2>7. SharedOf(Flying', t) = SharedOf(Flying, t) + 0
    BY <1>7, <2>3
  <2>8. OutShared(t)' = OutShared(t) + 0 /\ InShared(t)' = InShared(t) + d
    BY <1>6, <2>1
  <2>9. -d \in Int
    BY <2>2
  <2>10. Away(t)' = Away(t) + 0
    BY <2>2, <2>6, <2>7, <2>8, <2>9, AwayTerms
  <2>11. Away(t) \in Int
    BY AwayTypes
  <2> QED
    BY <2>2, <2>10, <2>11
<1> QED
  BY <1>3, <1>4, <1>5, <1>6, <1>8 DEF WireInv

(* A cancellation restores what the packet it killed carried.              *)
LEMMA RestorationKeepsAway ==
  ASSUME WireTypeOK, WireInv, EntriesKept, NEW m \in Mirrors, NEW i \in Ids,
         RestoresInput(m, i),
         NEW p \in orders, p.m = m, p.id = i, p.t = TokenIn(requests[m][i].dir)
  PROVE  WireInv' /\ \A t \in Tokens : Away(t)' = Away(t)
<1>0. WireInv
  OBVIOUS
<1>1. /\ CellFlows(m, p.t, 0, requests[m][i].amountIn)
      /\ requests[m][i].status = "PENDING"
      /\ \A mm \in Mirrors, ii \in Ids :
           requests'[mm][ii].status = "CANCELLED" <=>
             requests[mm][ii].status = "CANCELLED" \/ (mm = m /\ ii = i)
      /\ orders' = orders /\ returns' = returns /\ backNonce' = backNonce
  BY DEF RestoresInput
<1>2. p \in OrderPacket /\ p.t \in Tokens /\ p.sd \in Nat /\ i # 0
  BY DEF WireTypeOK, OrderPacket, Ids
<1>3. requests[m][i].amountIn = ToLocal(p.sd, MirrorQuantum[m][p.t])
  BY <1>0, <1>2 DEF WireInv, PacketWorth
<1>4. IsFiniteSet(orders') /\ IsFiniteSet(returns') /\ ReturnsNumbered'
  BY <1>0, <1>1 DEF WireInv, ReturnsNumbered
<1>5. PacketWorth' /\ OnePacketEach'
  BY <1>0, <1>1, WorthStays DEF WireInv, PacketWorth, OnePacketEach
<1>6. /\ MirrorFlow'
      /\ \A t \in Tokens : /\ OutShared(t)' = OutShared(t) + (IF t = p.t THEN 0 ELSE 0)
                           /\ InShared(t)' = InShared(t) + (IF t = p.t THEN p.sd ELSE 0)
  <2>1. ToLocal(0, MirrorQuantum[m][p.t]) = 0
    BY <1>2, WireAssumption DEF ToLocal
  <2>2. CellFlows(m, p.t, ToLocal(0, MirrorQuantum[m][p.t]), ToLocal(p.sd, MirrorQuantum[m][p.t]))
    BY <1>1, <1>3, <2>1
  <2> QED
    BY <1>0, <1>2, <2>2, CellCounted DEF WireInv
<1>7. p \in Flying /\ Flying' = Flying \ {p}
  <2>1. ~Restored(p) /\ Restored(p)'
    BY <1>1, <1>2 DEF Restored
  <2>2. ASSUME NEW x \in orders, x # p
        PROVE  Restored(x)' <=> Restored(x)
    <3>1. x.m \in Mirrors /\ x.id \in Ids \cup {0}
      BY DEF WireTypeOK, OrderPacket
    <3>2. ~(x.m = m /\ x.id = i)
      BY <1>0, <1>2, <2>2 DEF WireInv, OnePacketEach
    <3>3. CASE x.id = 0
      BY <3>3 DEF Restored
    <3>4. CASE x.id \in Ids
      BY <1>1, <3>1, <3>2, <3>4 DEF Restored
    <3> QED
      BY <3>1, <3>3, <3>4
  <2> QED
    BY <1>1, <2>1, <2>2 DEF Flying
<1>8. ASSUME NEW t \in Tokens
      PROVE  Away(t)' = Away(t)
  <2>1. PICK d : d = (IF p.t = t THEN p.sd ELSE 0)
    OBVIOUS
  <2>2. d \in Nat
    BY <1>2, <2>1
  <2>3. /\ IsFiniteSet(Flying) /\ \A x \in Flying : x.sd \in Nat
        /\ SharedOf(Flying, t) \in Nat /\ SharedOf(returns, t) \in Nat
    BY <1>0, FlightTypes
  <2>4. SharedOf(Flying, t) = SharedOf(Flying \ {p}, t) + (IF p.t = t THEN p.sd ELSE 0)
    BY <1>7, <2>3, SharedDrops
  <2>5. SharedOf(Flying \ {p}, t) \in Nat
    <3>1. IsFiniteSet(Flying \ {p}) /\ \A x \in Flying \ {p} : x.sd \in Nat
      BY <2>3, FS_Subset
    <3> QED
      BY <3>1, SharedIsNat
  <2>6. SharedOf(Flying', t) = SharedOf(Flying, t) + (-d)
    BY <1>7, <2>1, <2>2, <2>3, <2>4, <2>5
  <2>7. SharedOf(returns', t) = SharedOf(returns, t) + 0
    BY <1>1, <2>3
  <2>8. OutShared(t)' = OutShared(t) + 0 /\ InShared(t)' = InShared(t) + d
    BY <1>6, <2>1
  <2>9. -d \in Int
    BY <2>2
  <2>10. Away(t)' = Away(t) + 0
    BY <2>2, <2>6, <2>7, <2>8, <2>9, AwayTerms
  <2>11. Away(t) \in Int
    BY AwayTypes
  <2> QED
    BY <2>2, <2>10, <2>11
<1> QED
  BY <1>4, <1>5, <1>6, <1>8 DEF WireInv

(* A step that moves nothing between the chains.                           *)
LEMMA RestingKeepsAway ==
  ASSUME WireTypeOK, WireInv, EntriesKept, SameCancelled, NoFlows,
         UNCHANGED <<orders, returns, backNonce>>
  PROVE  WireInv' /\ \A t \in Tokens : Away(t)' = Away(t)
<1>0. WireInv
  OBVIOUS
<1>1. IsFiniteSet(orders') /\ IsFiniteSet(returns') /\ ReturnsNumbered'
  BY <1>0 DEF WireInv, ReturnsNumbered
<1>2. PacketWorth' /\ OnePacketEach'
  BY <1>0, WorthStays DEF WireInv, PacketWorth, OnePacketEach
<1>3. /\ MirrorFlow'
      /\ \A t \in Tokens : OutShared(t)' = OutShared(t) /\ InShared(t)' = InShared(t)
  BY <1>0, NothingCounted DEF WireInv
<1>4. Flying' = Flying
  BY SameFlying
<1>5. ASSUME NEW t \in Tokens
      PROVE  InFlight(t)' = InFlight(t)
  BY <1>4 DEF InFlight, SharedOf
<1> QED
  BY <1>1, <1>2, <1>3, <1>5 DEF WireInv, Away

(* The home chain takes an order off the wire.                             *)
LEMMA TakingOffAway ==
  ASSUME WireTypeOK, WireInv, NEW p \in Flying, orders' = orders \ {p},
         UNCHANGED <<mirrorToken, requests, returns, backNonce>>
  PROVE  /\ WireInv'
         /\ \A t \in Tokens : Away(t)' = Away(t) + (IF t = p.t THEN -p.sd ELSE 0)
<1>0. WireInv
  OBVIOUS
<1>1. p \in orders /\ p.t \in Tokens /\ p.sd \in Nat
  BY DEF Flying, WireTypeOK, OrderPacket
<1>2. IsFiniteSet(orders') /\ IsFiniteSet(returns')
  BY <1>0, FS_Subset DEF WireInv
<1>3. ReturnsNumbered' /\ PacketWorth' /\ OnePacketEach'
  BY <1>0 DEF WireInv, ReturnsNumbered, PacketWorth, OnePacketEach
<1>4. NoFlows
  BY SameAssets
<1>5. /\ MirrorFlow'
      /\ \A t \in Tokens : OutShared(t)' = OutShared(t) /\ InShared(t)' = InShared(t)
  BY <1>0, <1>4, NothingCounted DEF WireInv
<1>6. Flying' = Flying \ {p}
  BY DEF Flying, Restored
<1>7. ASSUME NEW t \in Tokens
      PROVE  Away(t)' = Away(t) + (IF t = p.t THEN -p.sd ELSE 0)
  <2>1. PICK d : d = (IF p.t = t THEN p.sd ELSE 0)
    OBVIOUS
  <2>2. d \in Nat /\ -d = (IF t = p.t THEN -p.sd ELSE 0)
    BY <1>1, <2>1
  <2>3. /\ IsFiniteSet(Flying) /\ \A x \in Flying : x.sd \in Nat
        /\ SharedOf(Flying, t) \in Nat /\ SharedOf(returns, t) \in Nat
    BY <1>0, FlightTypes
  <2>4. SharedOf(Flying, t) = SharedOf(Flying \ {p}, t) + (IF p.t = t THEN p.sd ELSE 0)
    BY <2>3, SharedDrops
  <2>5. SharedOf(Flying \ {p}, t) \in Nat
    <3>1. IsFiniteSet(Flying \ {p}) /\ \A x \in Flying \ {p} : x.sd \in Nat
      BY <2>3, FS_Subset
    <3> QED
      BY <3>1, SharedIsNat
  <2>6. SharedOf(Flying', t) = SharedOf(Flying, t) + (-d)
    BY <1>6, <2>1, <2>2, <2>3, <2>4, <2>5
  <2>7. SharedOf(returns', t) = SharedOf(returns, t) + 0
    BY <2>3
  <2>8. OutShared(t)' = OutShared(t) + 0 /\ InShared(t)' = InShared(t) + 0
    BY <1>5, CountedTypes
  <2>9. -d \in Int
    BY <2>2
  <2>10. Away(t)' = Away(t) + (-d)
    BY <2>2, <2>6, <2>7, <2>8, <2>9, AwayTerms
  <2> QED
    BY <2>2, <2>10
<1> QED
  BY <1>2, <1>3, <1>5, <1>7 DEF WireInv

(* The home chain puts a result on it.                                     *)
LEMMA PuttingOnAway ==
  ASSUME WireTypeOK, WireInv, NEW p \in ReturnPacket, p.nonce = backNonce[p.m][p.t] + 1,
         returns' = returns \cup {p}, backNonce' = [backNonce EXCEPT ![p.m][p.t] = @ + 1],
         UNCHANGED <<mirrorToken, requests, orders>>
  PROVE  /\ WireInv'
         /\ \A t \in Tokens : Away(t)' = Away(t) + (IF t = p.t THEN p.sd ELSE 0)
<1>0. WireInv
  OBVIOUS
<1>1. /\ p.m \in Mirrors /\ p.t \in Tokens /\ p.sd \in Nat
      /\ backNonce \in [Mirrors -> [Tokens -> Nat]]
  BY DEF ReturnPacket, WireTypeOK
<1>2. p \notin returns
  BY <1>0, <1>1 DEF WireInv, ReturnsNumbered
<1>3. IsFiniteSet(orders') /\ IsFiniteSet(returns')
  BY <1>0, FS_AddElement DEF WireInv
<1>4. ReturnsNumbered'
  <2> SUFFICES ASSUME NEW x \in returns'
               PROVE  x.nonce <= backNonce'[x.m][x.t]
    BY DEF ReturnsNumbered
  <2>1. x \in ReturnPacket
    BY DEF WireTypeOK
  <2>2. x.m \in Mirrors /\ x.t \in Tokens /\ x.nonce \in Nat
    BY <2>1 DEF ReturnPacket
  <2>3. CASE x \in returns
    <3>1. x.nonce <= backNonce[x.m][x.t] /\ backNonce[x.m][x.t] \in Nat
      BY <1>0, <1>1, <2>2, <2>3 DEF WireInv, ReturnsNumbered
    <3>2. CASE x.m = p.m /\ x.t = p.t
      BY <1>1, <2>2, <3>1, <3>2
    <3>3. CASE ~(x.m = p.m /\ x.t = p.t)
      BY <1>1, <2>2, <3>1, <3>3
    <3> QED
      BY <3>2, <3>3
  <2>4. CASE x = p
    BY <1>1, <2>4
  <2> QED
    BY <2>3, <2>4
<1>5. PacketWorth' /\ OnePacketEach'
  BY <1>0 DEF WireInv, PacketWorth, OnePacketEach
<1>6. NoFlows
  BY SameAssets
<1>7. /\ MirrorFlow'
      /\ \A t \in Tokens : OutShared(t)' = OutShared(t) /\ InShared(t)' = InShared(t)
  BY <1>0, <1>6, NothingCounted DEF WireInv
<1>8. Flying' = Flying
  BY DEF Flying, Restored
<1>9. ASSUME NEW t \in Tokens
      PROVE  Away(t)' = Away(t) + (IF t = p.t THEN p.sd ELSE 0)
  <2>1. PICK d : d = (IF p.t = t THEN p.sd ELSE 0)
    OBVIOUS
  <2>2. d \in Nat /\ d = (IF t = p.t THEN p.sd ELSE 0)
    BY <1>1, <2>1
  <2>3. /\ IsFiniteSet(returns) /\ \A x \in returns \cup {p} : x.sd \in Nat
        /\ SharedOf(Flying, t) \in Nat /\ SharedOf(returns, t) \in Nat
    BY <1>0, <1>1, FlightTypes
  <2>4. SharedOf(returns \cup {p}, t) = SharedOf(returns, t) + (IF p.t = t THEN p.sd ELSE 0)
    BY <1>2, <2>3, SharedGrows
  <2>5. SharedOf(returns', t) = SharedOf(returns, t) + d
    BY <2>1, <2>4
  <2>6. SharedOf(Flying', t) = SharedOf(Flying, t) + 0
    BY <1>8, <2>3
  <2>7. OutShared(t)' = OutShared(t) + 0 /\ InShared(t)' = InShared(t) + 0
    BY <1>7, CountedTypes
  <2>8. /\ InShared(t) \in Nat /\ OutShared(t) \in Nat
        /\ Away(t) = InShared(t) + SharedOf(Flying, t) + SharedOf(returns, t) - OutShared(t)
        /\ Away(t)' = InShared(t)' + (SharedOf(Flying', t) + SharedOf(returns', t)) - OutShared(t)'
    BY AwayTerms
  <2>9. Away(t)' = Away(t) + d
    BY <2>2, <2>3, <2>5, <2>6, <2>7, <2>8
  <2> QED
    BY <2>2, <2>9
<1> QED
  BY <1>3, <1>4, <1>5, <1>7, <1>9 DEF WireInv

(* At the start nothing is on the wire, and what the mirrors hold came     *)
(* from the home chain.                                                    *)

(* Products in another order.                                              *)
LEMMA ProductsRegroup ==
  ASSUME NEW a \in Nat, NEW b \in Nat, NEW c \in Nat
  PROVE  /\ a * b \in Nat /\ b * c \in Nat
         /\ a * (b * c) = (a * b) * c
OBVIOUS

(* A mirror's asset at the start.                                          *)
LEMMA MirrorAtStart ==
  ASSUME MirrorInit, NEW m \in Mirrors, NEW t \in Tokens
  PROVE  /\ MirrorWhole(mirrorToken[m][t], MirrorQuantum[m][t])
         /\ ToShared(mirrorToken[m][t].out, MirrorQuantum[m][t]) = 0
         /\ ToShared(mirrorToken[m][t].in, MirrorQuantum[m][t])
              = Cardinality(Users) * MirrorFloat[t]
<1>1. PICK k, q, f, n : /\ k = mirrorToken[m][t] /\ q = MirrorQuantum[m][t]
                        /\ f = MirrorFloat[t] /\ n = Cardinality(Users)
  OBVIOUS
<1>2. q \in Nat \ {0} /\ f \in Nat /\ n \in Nat
  BY <1>1, WireAssumption, FS_CardinalityType
<1>3. PICK x : x = ToLocal(f, q)
  OBVIOUS
<1>4. x \in Nat
  BY <1>2, <1>3, AmountTypes
<1>5. /\ k.out = 0 /\ k.in = n * x
      /\ k.bal = [a \in Accounts |-> IF a \in Users THEN x ELSE 0]
  BY <1>1, <1>3 DEF MirrorInit, WireInit
<1>6. Total(k) = n * x
  <2>1. \A a \in Accounts : k.bal[a] = IF a \in Users THEN x ELSE 0
    BY <1>5
  <2>2. Users \subseteq Accounts
    BY DEF Accounts
  <2>3. SumFunctionOnSet(k.bal, Accounts) = Cardinality(Users) * x
    BY <1>4, <2>1, <2>2, AccountsFinite, SumOfEqual
  <2> QED
    BY <1>1, <2>3 DEF Total
<1>7. n * x = (n * f) * q /\ n * f \in Nat /\ n * x \in Nat
  BY <1>2, <1>3, <1>4, ProductsRegroup DEF ToLocal
<1>8. k.in = ToLocal(n * f, q)
  BY <1>5, <1>7 DEF ToLocal
<1>9. ToShared(k.in, q) = n * f
  BY <1>2, <1>7, <1>8, UnitsExact
<1>10. ToShared(0, q) = 0 /\ ToLocal(0, q) = 0
  <2>1. ToLocal(0, q) = 0
    BY <1>2 DEF ToLocal
  <2> QED
    BY <1>2, <2>1, UnitsExact
<1>11. Total(k) + k.out = k.in
  BY <1>5, <1>6, <1>7
<1> QED
  BY <1>1, <1>5, <1>8, <1>9, <1>10, <1>11 DEF MirrorWhole, Whole

(* An empty wire.                                                          *)
LEMMA SharedOfNone ==
  ASSUME NEW t
  PROVE  SharedOf({}, t) = 0
<1>1. PICK f : f = [p \in {} |-> IF p.t = t THEN p.sd ELSE 0]
  OBVIOUS
<1>2. DOMAIN f = {}
  BY <1>1
<1>3. SharedOf({}, t) = SumFunction(f)
  BY <1>1 DEF SharedOf
<1> QED
  BY <1>2, <1>3, SumOfNone DEF SumFunction

(* So what is away is what the mirrors were given.                         *)
GivenShared(t) == Cardinality(Mirrors) * (Cardinality(Users) * MirrorFloat[t])

LEMMA WireAtStart ==
  ASSUME MirrorInit
  PROVE  WireInv /\ \A t \in Tokens : Away(t) = GivenShared(t)
<1>1. orders = {} /\ returns = {}
  BY DEF MirrorInit, WireInit
<1>2. /\ IsFiniteSet(orders) /\ IsFiniteSet(returns)
      /\ ReturnsNumbered /\ PacketWorth /\ OnePacketEach
  BY <1>1, FS_EmptySet DEF ReturnsNumbered, PacketWorth, OnePacketEach
<1>3. MirrorFlow
  BY MirrorAtStart DEF MirrorFlow
<1>4. ASSUME NEW t \in Tokens
      PROVE  Away(t) = GivenShared(t)
  <2>1. PICK f, g, x, c :
          /\ f = [m \in Mirrors |-> ToShared(mirrorToken[m][t].out, MirrorQuantum[m][t])]
          /\ g = [m \in Mirrors |-> ToShared(mirrorToken[m][t].in, MirrorQuantum[m][t])]
          /\ x = Cardinality(Users) * MirrorFloat[t] /\ c = Cardinality(Mirrors)
    OBVIOUS
  <2>2. x \in Nat /\ c \in Nat
    <3>1. Cardinality(Users) \in Nat /\ MirrorFloat[t] \in Nat /\ Cardinality(Mirrors) \in Nat
      BY WireAssumption, FS_CardinalityType
    <3> QED
      BY <2>1, <3>1, ProductNat
  <2>3. \A m \in Mirrors : f[m] = 0 /\ g[m] = x
    BY <2>1, MirrorAtStart
  <2>4. IsFiniteSet(Mirrors)
    BY WireAssumption
  <2>5. SumFunctionOnSet(f, Mirrors) = 0
    BY <2>3, <2>4, SumOfZeros
  <2>6. SumFunctionOnSet(g, Mirrors) = c * x
    <3>1. Mirrors \subseteq Mirrors /\ \A m \in Mirrors : g[m] = IF m \in Mirrors THEN x ELSE 0
      BY <2>3
    <3> QED
      BY <2>1, <2>2, <2>4, <3>1, SumOfEqual
  <2>7. OutShared(t) = 0 /\ InShared(t) = c * x
    <3>1. DOMAIN f = Mirrors /\ DOMAIN g = Mirrors
      BY <2>1
    <3>2. OutShared(t) = SumFunction(f) /\ InShared(t) = SumFunction(g)
      BY <2>1 DEF OutShared, InShared
    <3> QED
      BY <2>5, <2>6, <3>1, <3>2 DEF SumFunction
  <2>8. InFlight(t) = 0
    <3>1. Flying = {}
      BY <1>1 DEF Flying
    <3> QED
      BY <1>1, <3>1, SharedOfNone DEF InFlight
  <2>9. PICK y \in Nat : y = c * x
    BY <2>2, ProductNat
  <2> QED
    BY <2>1, <2>7, <2>8, <2>9 DEF Away, GivenShared
<1> QED
  BY <1>2, <1>3, <1>4 DEF WireInv

-----------------------------------------------------------------------------
(***************************************************************************)
(* What a mirror sends to its home chain: one order at a time, under the   *)
(* next nonce of its path, and what its request records is enough to write *)
(* the packet again.                                                       *)
(***************************************************************************)
OrderOf(m, id) ==
  LET r == requests[m][id]
      t == TokenIn(r.dir)
  IN  [m |-> m, t |-> t, nonce |-> r.lzNonce, id |-> id, user |-> r.user,
       sd  |-> ToShared(r.amountIn, MirrorQuantum[m][t]),
       min |-> FloorToShared(r.minAmountOut, MirrorQuantum[m][TokenOut(r.dir)])]

(* A packet leaves, for an order that was taken or a user's own transfer.  *)
SendsPacket(p) ==
  /\ p \in OrderPacket
  /\ p.nonce = outNonce[p.m][p.t] + 1 /\ p.nonce <= MaxNonce
  /\ outNonce' = [outNonce EXCEPT ![p.m][p.t] = p.nonce]
  /\ orders' = orders \cup {p}
  /\ p.id # 0 => requests'[p.m][p.id].status # "NONE" /\ p = OrderOf(p.m, p.id)'

(* buy, sell and their forms through a partner record what they send.      *)
LEMMA SubmitSendsPacket ==
  ASSUME MirrorTypeOK, MirrorTypeOK', NEW m \in Mirrors, NEW trade \in TradeType,
         NEW partner \in PartnerIds \cup {0}, NEW bps \in Nat, NEW recipient,
         Submit(m, trade, partner, bps, recipient)
  PROVE  \E p : SendsPacket(p)
<1>0. PICK i, n : i = nextRequestId[m] /\ n = outNonce[m][TokenIn(trade.dir)] + 1
  OBVIOUS
<1> DEFINE t == TokenIn(trade.dir)
           escrow == [partner |-> partner, state |-> "ESCROWED",
                      partnerRecipient |-> recipient,
                      platformRecipient |-> platformFee[m].recipient,
                      partnerFee |-> FeeOf(trade.gross, bps, FeeUnit),
                      platformFee |-> FeeOf(trade.gross, platformFee[m].bps, FeeUnit)]
           total == EscrowTotal(escrow)
           q    == MirrorQuantum[m][t]
<1>1. t \in Tokens /\ i \in Ids
  BY <1>0 DEF Submit, TradeType, TokenIn, Tokens
<1>2. /\ outNonce \in [Mirrors -> [Tokens -> Nat]]
      /\ requests \in [Mirrors -> [Ids -> Request]]
      /\ orders' \subseteq OrderPacket
  BY DEF MirrorTypeOK, WireTypeOK, RequestTypeOK
<1>3. PICK net : net = trade.gross - total
  OBVIOUS
<1> DEFINE sent == RemoveDust(net, q)
           sd   == ToShared(net, q)
           min  == FloorToShared(trade.min, MirrorQuantum[m][TokenOut(trade.dir)])
<1>4. /\ SendOrder(m, t, i, trade.user, sd, min)
      /\ requests' = [requests EXCEPT ![m][i] = NewRequest(trade, sent, n)]
  BY <1>0, <1>3 DEF Submit
<1>5. q \in Nat \ {0}
  BY <1>1, WireAssumption
<1> HIDE DEF escrow, total
<1> DEFINE p == [m |-> m, t |-> t, nonce |-> n, id |-> i,
                 user |-> trade.user, sd |-> sd, min |-> min]
<1>6. /\ outNonce' = [outNonce EXCEPT ![m][t] = n] /\ orders' = orders \cup {p}
      /\ outNonce[m][t] < MaxNonce
  BY <1>0, <1>4 DEF SendOrder
<1>7. p \in OrderPacket
  BY <1>2, <1>6
<1>8. requests'[m][i] = NewRequest(trade, sent, n)
  BY <1>1, <1>2, <1>4
<1>9. ToShared(sent, q) = sd
  <2>1. sd \in Nat
    BY <1>7 DEF OrderPacket
  <2> QED
    BY <1>5, <2>1, UnitsExact DEF RemoveDust
<1>10. OrderOf(m, i)' = p
  BY <1>8, <1>9 DEF OrderOf, NewRequest
<1>11. /\ p.m = m /\ p.t = t /\ p.nonce = n /\ p.id = i
       /\ n = outNonce[m][t] + 1 /\ n <= MaxNonce /\ requests'[m][i].status # "NONE"
  BY <1>0, <1>1, <1>2, <1>6, <1>8, WireAssumption DEF NewRequest
<1> HIDE DEF p, t
<1>12. SendsPacket(p)
  BY <1>6, <1>7, <1>10, <1>11 DEF SendsPacket
<1> QED
  BY <1>12

(* A user's own transfer is no order's.                                    *)
LEMMA DirectSendsPacket ==
  ASSUME MirrorTypeOK, MirrorTypeOK', NEW m \in Mirrors, NEW t \in Tokens, NEW u, NEW sd,
         DirectSend(m, t, u, sd)
  PROVE  \E p : SendsPacket(p)
<1> DEFINE n == outNonce[m][t] + 1
           p == [m |-> m, t |-> t, nonce |-> n, id |-> 0, user |-> u, sd |-> sd, min |-> 0]
<1>1. /\ outNonce \in [Mirrors -> [Tokens -> Nat]]
      /\ orders' \subseteq OrderPacket
  BY DEF MirrorTypeOK, WireTypeOK
<1>2. /\ outNonce' = [outNonce EXCEPT ![m][t] = n] /\ orders' = orders \cup {p}
      /\ outNonce[m][t] < MaxNonce
  BY DEF DirectSend, SendOrder
<1>3. p \in OrderPacket
  BY <1>1, <1>2
<1>4. p.m = m /\ p.t = t /\ p.nonce = n /\ p.id = 0 /\ n = outNonce[m][t] + 1 /\ n <= MaxNonce
  BY <1>1, <1>2, WireAssumption
<1> HIDE DEF p, n
<1>5. SendsPacket(p)
  BY <1>2, <1>3, <1>4 DEF SendsPacket
<1> QED
  BY <1>2, <1>5

(* Every other step on a mirror sends nothing to the home chain.           *)
LEMMA MirrorSends ==
  ASSUME MirrorTypeOK, MirrorTypeOK', MirrorNext
  PROVE  (\E p : SendsPacket(p)) \/ UNCHANGED <<orders, outNonce>>
<1>1. CASE Bridging
  BY <1>1, DirectSendsPacket DEF Bridging, ReceiveReturn
<1>2. CASE Ordering
  <2>1. ASSUME NEW m \in Mirrors, NEW trade \in Trades, SubmitOpen(m, trade)
        PROVE  \E p : SendsPacket(p)
    BY <2>1, SubmitSendsPacket, RequestAssumption DEF SubmitOpen
  <2>2. ASSUME NEW auth \in Authorizations, SubmitVia(auth)
        PROVE  \E p : SendsPacket(p)
    <3>1. /\ auth.m \in Mirrors /\ auth.trade \in TradeType /\ auth.partner \in PartnerIds
          /\ auth.feeBps \in Nat
      BY <2>2, RequestAssumption DEF AuthorizationType
    <3> QED
      BY <2>2, <3>1, SubmitSendsPacket DEF SubmitVia
  <2> QED
    BY <1>2, <2>1, <2>2 DEF Ordering
<1>3. CASE Settling
  <2>1. \A p \in composing : Settle(p) => UNCHANGED <<orders, outNonce>>
    BY DEF Settle, ComposeFill, ComposeRefund, ComposeLate, Compose
  <2>2. \A n \in notices : HearNotice(n) => UNCHANGED <<orders, outNonce>>
    BY DEF HearNotice, NoticeStranded, NoticeCancelled, NoticeIgnored, ReceiveNotice
  <2> QED
    BY <1>3, <2>1, <2>2 DEF Settling
<1>4. CASE Administering
  BY <1>4 DEF Administering, ClaimFees, SetPartner, SetPartnerRequired, SetPlatformFee,
              InvalidateNonce, Sweep, SendStray, wireVars
<1> QED
  BY <1>1, <1>2, <1>3, <1>4 DEF MirrorNext

(* No mirror writes the counter of the relay's own messages.               *)
LEMMA MirrorSendsNoNotice ==
  ASSUME MirrorNext
  PROVE  noticeNonce' = noticeNonce
<1>1. CASE Bridging
  BY <1>1 DEF Bridging, DirectSend, ReceiveReturn
<1>2. CASE Ordering
  <2>1. ASSUME NEW m, NEW trade, NEW partner, NEW bps, NEW recipient,
               Submit(m, trade, partner, bps, recipient)
        PROVE  noticeNonce' = noticeNonce
    BY <2>1 DEF Submit
  <2> QED
    BY <1>2, <2>1 DEF Ordering, SubmitOpen, SubmitVia
<1>3. CASE Settling
  <2>1. \A p \in composing : Settle(p) => noticeNonce' = noticeNonce
    BY DEF Settle, ComposeFill, ComposeRefund, ComposeLate, Compose
  <2>2. \A n \in notices : HearNotice(n) => noticeNonce' = noticeNonce
    BY DEF HearNotice, NoticeStranded, NoticeCancelled, NoticeIgnored, ReceiveNotice
  <2> QED
    BY <1>3, <2>1, <2>2 DEF Settling
<1>4. CASE Administering
  BY <1>4 DEF Administering, ClaimFees, SetPartner, SetPartnerRequired, SetPlatformFee,
              InvalidateNonce, Sweep, SendStray, wireVars
<1> QED
  BY <1>1, <1>2, <1>3, <1>4 DEF MirrorNext

(* A mirror's paths carry two times MaxNonce messages at most.             *)
LEMMA PathSlots ==
  ASSUME NEW S, S \subseteq Tokens \X (1..MaxNonce)
  PROVE  IsFiniteSet(S) /\ Cardinality(S) \in Nat /\ Cardinality(S) <= 2 * MaxNonce
<1>1. MaxNonce \in Nat
  BY WireAssumption
<1>2. IsFiniteSet(1..MaxNonce) /\ Cardinality(1..MaxNonce) = MaxNonce
  BY <1>1, FS_Interval
<1>3. IsFiniteSet(Tokens) /\ Cardinality(Tokens) = 2
  <2>1. IsFiniteSet({}) /\ Cardinality({}) = 0
    BY FS_EmptySet
  <2>2. IsFiniteSet({"base"}) /\ Cardinality({"base"}) = 1
    BY FS_Singleton
  <2>3. IsFiniteSet({"base"} \cup {"quote"}) /\ Cardinality({"base"} \cup {"quote"}) = 2
    BY <2>2, FS_AddElement
  <2>4. {"base"} \cup {"quote"} = Tokens
    BY DEF Tokens
  <2> QED
    BY <2>3, <2>4
<1>4. /\ IsFiniteSet(Tokens \X (1..MaxNonce))
      /\ Cardinality(Tokens \X (1..MaxNonce)) = 2 * MaxNonce
  <2>1. /\ IsFiniteSet(Tokens \X (1..MaxNonce))
        /\ Cardinality(Tokens \X (1..MaxNonce)) = Cardinality(Tokens) * Cardinality(1..MaxNonce)
    BY <1>2, <1>3, FS_Product
  <2> QED
    BY <2>1, <1>2, <1>3
<1>5. IsFiniteSet(S) /\ Cardinality(S) <= Cardinality(Tokens \X (1..MaxNonce))
  BY <1>4, FS_Subset
<1> QED
  BY <1>4, <1>5, FS_CardinalityType

=============================================================================
