----------------------------- MODULE OrderProofs -----------------------------
(***************************************************************************)
(* An order between the chains, for every value of the constants: its      *)
(* types, where it may be, what it is worth and what closes it.            *)
(***************************************************************************)
EXTENDS LedgerProofs, PromiseKept

-----------------------------------------------------------------------------
(* The home endpoint.                                                      *)

(* The endpoint verifies a packet, or executes it.                         *)
LEMMA DeliveringType ==
  ASSUME TypeOK, Delivering
  PROVE  WireTypeOK' /\ HomeTypeOK'
<1>1. PICK p \in orders :
        /\ Verify(p) \/ ReceiveOrder(p)
        /\ UNCHANGED <<mirrorToken, outNonce, returns, backNonce, composing, notices,
                       noticeNonce, relayVars>>
  BY DEF Delivering
<1>2. p \in OrderPacket
  BY DEF TypeOK, MirrorTypeOK, WireTypeOK
<1>3. /\ p.m \in Mirrors /\ p.t \in Tokens /\ p.sd \in Nat /\ p.nonce \in Nat
      /\ p.user \in Users
  BY <1>2 DEF OrderPacket
<1>4. CASE Verify(p)
  <2>1. verified' \in [Mirrors -> [Tokens -> SUBSET Nat]]
    BY <1>3, <1>4 DEF Verify, TypeOK, HomeTypeOK, EndpointTypeOK
  <2> QED
    BY <1>1, <1>4, <2>1 DEF Verify, TypeOK, MirrorTypeOK, WireTypeOK, HomeTypeOK,
                            EndpointTypeOK, RelayTypeOK, relayVars
<1>5. CASE ReceiveOrder(p)
  <2> DEFINE amount   == ToLocal(p.sd, HomeQuantum[p.t])
             receiver == IF p.id = 0 THEN p.user ELSE Contract
             credited == HomeCredit(homeToken[p.t], p.t, receiver, amount)
  <2>1. receiver \in Accounts /\ amount \in Nat /\ homeToken[p.t] \in Token
    BY <1>3, HomeWorth, NamedAccounts DEF TypeOK, HomeTypeOK, EndpointTypeOK
  <2>2. p.t \in Adapted => CanPay(homeToken[p.t], Vault, amount)
    BY <1>5 DEF ReceiveOrder
  <2>3. credited \in Token
    BY <2>1, <2>2, HomeCreditType
  <2>4. homeToken' = [homeToken EXCEPT ![p.t] = credited]
    BY <1>5 DEF ReceiveOrder
  <2> HIDE DEF credited
  <2>5. homeToken' \in [Tokens -> Token]
    BY <2>3, <2>4 DEF TypeOK, HomeTypeOK, EndpointTypeOK
  <2>6. verified' \in [Mirrors -> [Tokens -> SUBSET Nat]]
    BY <1>3, <1>5 DEF ReceiveOrder, TypeOK, HomeTypeOK, EndpointTypeOK
  <2>7. lazy' \in [Mirrors -> [Tokens -> Nat]]
    BY <1>3, <1>5 DEF ReceiveOrder, TypeOK, HomeTypeOK, EndpointTypeOK
  <2>8. /\ queue' \subseteq {o \in OrderPacket : o.id # 0}
        /\ orders' \subseteq OrderPacket
    BY <1>2, <1>5 DEF ReceiveOrder, TypeOK, HomeTypeOK, EndpointTypeOK, MirrorTypeOK, WireTypeOK
  <2> QED
    BY <1>1, <2>5, <2>6, <2>7, <2>8 DEF TypeOK, MirrorTypeOK, WireTypeOK, HomeTypeOK,
                                        EndpointTypeOK, RelayTypeOK, relayVars
<1> QED
  BY <1>1, <1>4, <1>5

-----------------------------------------------------------------------------
(* SwapRelay.                                                              *)

(* A return leg that is sent.                                              *)
LEMMA ReturnSentType ==
  ASSUME TypeOK, NEW r, r.m \in Mirrors, r.id \in Ids, r.t \in Tokens, r.amount \in Nat,
         r.user \in Users \cup {NoUser}, r.status \in {"FILLED", "REFUNDED"},
         NEW held \in [Tokens -> Token], NEW owed \in [Mirrors -> [Ids -> Stranded]],
         NEW funds \in Nat, NEW price \in ReturnQuotes,
         ReturnSent(r, price, held, owed, funds)
  PROVE  /\ native' \in Nat
         /\ homeToken' \in [Tokens -> Token]
         /\ dustAccrued' \in [Tokens -> Nat]
         /\ stranded' \in [Mirrors -> [Ids -> Stranded]]
         /\ returns' \subseteq ReturnPacket
         /\ backNonce' \in [Mirrors -> [Tokens -> Nat]]
         /\ notices' \subseteq Notice
         /\ noticeNonce' \in [Mirrors -> Nat]
<1> DEFINE q == HomeQuantum[r.t]
           sent == RemoveDust(r.amount, q)
<1>1. price \in Nat
  BY RelayAssumption
<1>2. q \in Nat \ {0}
  BY HomeAssumption
<1>3. /\ sent \in Nat /\ sent <= r.amount /\ ToShared(r.amount, q) \in Nat
  BY <1>2, AmountTypes
<1>4. /\ price <= funds /\ CanPay(held[r.t], Contract, r.amount)
      /\ native' = funds - price
      /\ homeToken' = [held EXCEPT ![r.t] = HomeDebit(@, r.t, Contract, sent)]
      /\ dustAccrued' = [dustAccrued EXCEPT ![r.t] = @ + (r.amount - sent)]
      /\ SendReturn(r.m, r.t, r.id, ToShared(r.amount, q), r.status)
      /\ stranded' = owed
      /\ UNCHANGED <<notices, noticeNonce>>
  BY DEF ReturnSent, Sendable
<1> HIDE DEF sent, q
<1>5. held[r.t] \in Token /\ held[r.t].bal[Contract] \in Nat
  BY NamedAccounts DEF Token
<1>6. CanPay(held[r.t], Contract, sent)
  BY <1>3, <1>4, <1>5 DEF CanPay
<1>7. HomeDebit(held[r.t], r.t, Contract, sent) \in Token
  BY <1>3, <1>5, <1>6, HomeDebitType
<1>8. homeToken' \in [Tokens -> Token]
  BY <1>4, <1>7
<1>9. dustAccrued' \in [Tokens -> Nat]
  BY <1>3, <1>4 DEF TypeOK, HomeTypeOK, RelayTypeOK
<1>10. backNonce' \in [Mirrors -> [Tokens -> Nat]] /\ returns' \subseteq ReturnPacket
  BY <1>3, <1>4, SendReturnType DEF TypeOK, MirrorTypeOK
<1> QED
  BY <1>1, <1>4, <1>8, <1>9, <1>10 DEF TypeOK, MirrorTypeOK, WireTypeOK

(* A return leg that is not: the amount is owed, and perhaps announced.    *)
LEMMA ReturnStrandedType ==
  ASSUME TypeOK, NEW r, r.m \in Mirrors, r.id \in Ids, r.t \in Tokens, r.amount \in Nat,
         r.user \in Users \cup {NoUser},
         NEW held \in [Tokens -> Token], NEW owed \in [Mirrors -> [Ids -> Stranded]],
         NEW funds \in Nat, NEW price, NEW notice \in NoticeQuotes,
         ReturnStranded(r, price, notice, held, owed, funds)
  PROVE  /\ native' \in Nat
         /\ homeToken' \in [Tokens -> Token]
         /\ dustAccrued' \in [Tokens -> Nat]
         /\ stranded' \in [Mirrors -> [Ids -> Stranded]]
         /\ returns' \subseteq ReturnPacket
         /\ backNonce' \in [Mirrors -> [Tokens -> Nat]]
         /\ notices' \subseteq Notice
         /\ noticeNonce' \in [Mirrors -> Nat]
<1> DEFINE old == owed[r.m][r.id]
           heir == IF r.user # NoUser THEN r.user ELSE old.beneficiary
           sum == old.amount + r.amount
           debt == [amount |-> sum, token |-> r.t, beneficiary |-> heir]
<1>1. old \in Stranded /\ notice \in Nat
  BY RelayAssumption
<1>2. heir \in Users \cup {NoUser} /\ sum \in Nat
  BY <1>1 DEF Stranded
<1>3. debt \in Stranded
  <2> HIDE DEF heir, sum
  <2> QED
    BY <1>2 DEF Stranded
<1>4. /\ stranded' = [owed EXCEPT ![r.m][r.id] = debt]
      /\ homeToken' = held
      /\ IF notice <= funds
         THEN /\ native' = funds - notice
              /\ SendNotice(r.m, "STRANDED", r.id, "base", 0)
         ELSE /\ native' = funds
              /\ UNCHANGED <<notices, noticeNonce>>
      /\ UNCHANGED <<dustAccrued, returns, backNonce>>
  BY DEF ReturnStranded
<1> HIDE DEF debt
<1>5. stranded' \in [Mirrors -> [Ids -> Stranded]]
  BY <1>3, <1>4
<1>6. /\ native' \in Nat /\ notices' \subseteq Notice
      /\ noticeNonce' \in [Mirrors -> Nat]
  <2>1. CASE notice <= funds
    BY <1>1, <1>4, <2>1, SendNoticeType DEF TypeOK, MirrorTypeOK, Tokens
  <2>2. CASE ~(notice <= funds)
    BY <1>4, <2>2 DEF TypeOK, MirrorTypeOK, WireTypeOK
  <2> QED
    BY <2>1, <2>2
<1> QED
  BY <1>4, <1>5, <1>6 DEF TypeOK, MirrorTypeOK, WireTypeOK, HomeTypeOK, RelayTypeOK

(* An order runs: it is filled or rejected, and answered or stranded.      *)
LEMMA ExecuteOrderType ==
  ASSUME TypeOK, NEW p \in queue, ExecuteOrder(p)
  PROVE  WireTypeOK' /\ HomeTypeOK'
<1> DEFINE input == InputOf(p)
           tOut  == OtherToken(p.t)
           funds == native + ComposeValue
<1>1. p \in OrderPacket
  BY DEF TypeOK, HomeTypeOK, EndpointTypeOK
<1>2. /\ p.m \in Mirrors /\ p.t \in Tokens /\ p.sd \in Nat /\ p.user \in Users
      /\ p.id \in Ids \cup {0}
  BY <1>1 DEF OrderPacket
<1>3. input \in Nat /\ funds \in Nat /\ tOut \in Tokens /\ tOut # p.t
  BY <1>2, HomeWorth, RelayAssumption
     DEF InputOf, OtherToken, Tokens, TypeOK, HomeTypeOK, RelayTypeOK
<1>4. /\ stranded \in [Mirrors -> [Ids -> Stranded]]
      /\ homeToken \in [Tokens -> Token]
  BY DEF TypeOK, HomeTypeOK, RelayTypeOK, EndpointTypeOK
<1>5. Handed(p)
  BY DEF ExecuteOrder, FillOrder, RejectOrder
<1>6. p.id \in Ids
  BY <1>2 DEF TypeOK, HomeTypeOK, EndpointTypeOK
<1>7. ASSUME NEW r, r.m \in Mirrors, r.id \in Ids, r.t \in Tokens, r.amount \in Nat,
             r.user \in Users \cup {NoUser}, r.status \in {"FILLED", "REFUNDED"},
             NEW held \in [Tokens -> Token],
             ReturnToMirror(r, held, stranded, funds)
      PROVE  WireTypeOK' /\ HomeTypeOK'
  <2>1. PICK price \in ReturnQuotes, notice \in NoticeQuotes :
          \/ ReturnSent(r, price, held, stranded, funds)
          \/ ReturnStranded(r, price, notice, held, stranded, funds)
    BY <1>7 DEF ReturnToMirror
  <2>2. /\ native' \in Nat
        /\ homeToken' \in [Tokens -> Token]
        /\ dustAccrued' \in [Tokens -> Nat]
        /\ stranded' \in [Mirrors -> [Ids -> Stranded]]
        /\ returns' \subseteq ReturnPacket
        /\ backNonce' \in [Mirrors -> [Tokens -> Nat]]
        /\ notices' \subseteq Notice
        /\ noticeNonce' \in [Mirrors -> Nat]
    BY <1>3, <1>4, <1>7, <2>1, ReturnSentType, ReturnStrandedType
  <2> QED
    BY <1>5, <2>2 DEF Handed, TypeOK, MirrorTypeOK, WireTypeOK, HomeTypeOK, EndpointTypeOK,
                      RelayTypeOK
<1>8. ASSUME NEW out \in PoolOutputs, FillOrder(p, out)
      PROVE  WireTypeOK' /\ HomeTypeOK'
  <2> DEFINE paid == Transfer(homeToken[p.t], Contract, World, input)
             got  == Transfer(homeToken[tOut], World, Contract, out)
             traded == [homeToken EXCEPT ![p.t] = paid, ![tOut] = got]
             r == [m |-> p.m, id |-> p.id, t |-> tOut, amount |-> out,
                   user |-> p.user, status |-> "FILLED"]
  <2>1. out \in Nat
    BY RelayAssumption
  <2>2. /\ CanPay(homeToken[p.t], Contract, input)
        /\ CanPay(homeToken[tOut], World, out)
        /\ ReturnToMirror(r, traded, stranded, funds)
    BY <1>3, <1>8 DEF FillOrder
  <2>3. paid \in Token /\ got \in Token
    BY <1>2, <1>3, <1>4, <2>1, <2>2, TransferType, NamedAccounts
  <2>4. traded \in [Tokens -> Token]
    <3> HIDE DEF paid, got
    <3> QED
      BY <1>4, <2>3
  <2> HIDE DEF traded, tOut, funds
  <2>5. /\ r.m \in Mirrors /\ r.id \in Ids /\ r.t \in Tokens /\ r.amount \in Nat
        /\ r.user \in Users \cup {NoUser} /\ r.status \in {"FILLED", "REFUNDED"}
    BY <1>2, <1>3, <1>6, <2>1
  <2> HIDE DEF r
  <2> QED
    BY <1>7, <2>2, <2>4, <2>5
<1>9. ASSUME NEW out \in PoolOutputs, RejectOrder(p, out)
      PROVE  WireTypeOK' /\ HomeTypeOK'
  <2> DEFINE r == [m |-> p.m, id |-> p.id, t |-> p.t, amount |-> input,
                   user |-> p.user, status |-> "REFUNDED"]
  <2>1. ReturnToMirror(r, homeToken, stranded, funds)
    BY <1>9 DEF RejectOrder
  <2> HIDE DEF input, funds
  <2>2. /\ r.m \in Mirrors /\ r.id \in Ids /\ r.t \in Tokens /\ r.amount \in Nat
        /\ r.user \in Users \cup {NoUser} /\ r.status \in {"FILLED", "REFUNDED"}
    BY <1>2, <1>3, <1>6
  <2> HIDE DEF r
  <2> QED
    BY <1>4, <1>7, <2>1, <2>2
<1> QED
  BY <1>8, <1>9 DEF ExecuteOrder

(* A strand is someone's, in some asset.                                   *)
LEMMA StrandedTypes ==
  ASSUME TypeOK, NEW m \in Mirrors, NEW id \in Ids
  PROVE  /\ stranded[m][id].amount \in Nat
         /\ stranded[m][id].token \in Tokens
         /\ stranded[m][id].beneficiary \in Users \cup {NoUser}
         /\ Cleared(m, id) \in [Mirrors -> [Ids -> Stranded]]
<1> DEFINE s == stranded[m][id]
           cleared == [s EXCEPT !.amount = 0]
<1>1. s \in Stranded
  BY DEF TypeOK, HomeTypeOK, RelayTypeOK
<1>2. cleared \in Stranded
  BY <1>1 DEF Stranded
<1>3. Cleared(m, id) = [stranded EXCEPT ![m][id] = cleared]
  BY DEF Cleared
<1>4. Cleared(m, id) \in [Mirrors -> [Ids -> Stranded]]
  <2> HIDE DEF cleared
  <2> QED
    BY <1>2, <1>3 DEF TypeOK, HomeTypeOK, RelayTypeOK
<1> QED
  BY <1>1, <1>4 DEF Stranded

(* retryReturn, sent or stranded again.                                    *)
LEMMA RetryType ==
  ASSUME TypeOK, NEW m \in Mirrors, NEW id \in Ids, NEW v \in FundAmounts \cup {0},
         RetrySent(m, id, v) \/ RetryStranded(m, id, v)
  PROVE  WireTypeOK' /\ HomeTypeOK'
<1> DEFINE r == Retried(m, id)
           owed == Cleared(m, id)
           funds == native + v
<1>1. /\ r.m \in Mirrors /\ r.id \in Ids /\ r.t \in Tokens /\ r.amount \in Nat
      /\ r.user \in Users \cup {NoUser} /\ r.status \in {"FILLED", "REFUNDED"}
  BY StrandedTypes DEF Retried
<1>2. owed \in [Mirrors -> [Ids -> Stranded]] /\ funds \in Nat
  BY StrandedTypes, RelayAssumption DEF TypeOK, HomeTypeOK, RelayTypeOK
<1>3. homeToken \in [Tokens -> Token]
  BY DEF TypeOK, HomeTypeOK, EndpointTypeOK
<1>4. UNCHANGED <<mirrorToken, outNonce, orders, composing, lazy, verified, queue>>
  BY DEF RetrySent, RetryStranded
<1>5. CASE RetrySent(m, id, v)
  <2>1. PICK price \in ReturnQuotes : ReturnSent(r, price, homeToken, owed, funds)
    BY <1>5 DEF RetrySent
  <2> HIDE DEF r, owed, funds
  <2>2. /\ native' \in Nat
        /\ homeToken' \in [Tokens -> Token]
        /\ dustAccrued' \in [Tokens -> Nat]
        /\ stranded' \in [Mirrors -> [Ids -> Stranded]]
        /\ returns' \subseteq ReturnPacket
        /\ backNonce' \in [Mirrors -> [Tokens -> Nat]]
        /\ notices' \subseteq Notice
        /\ noticeNonce' \in [Mirrors -> Nat]
    BY <1>1, <1>2, <1>3, <2>1, ReturnSentType
  <2> QED
    BY <1>4, <2>2 DEF TypeOK, MirrorTypeOK, WireTypeOK, HomeTypeOK, EndpointTypeOK, RelayTypeOK
<1>6. CASE RetryStranded(m, id, v)
  <2>1. PICK price \in ReturnQuotes, notice \in NoticeQuotes :
          ReturnStranded(r, price, notice, homeToken, owed, funds)
    BY <1>6 DEF RetryStranded
  <2> HIDE DEF r, owed, funds
  <2>2. /\ native' \in Nat
        /\ homeToken' \in [Tokens -> Token]
        /\ dustAccrued' \in [Tokens -> Nat]
        /\ stranded' \in [Mirrors -> [Ids -> Stranded]]
        /\ returns' \subseteq ReturnPacket
        /\ backNonce' \in [Mirrors -> [Tokens -> Nat]]
        /\ notices' \subseteq Notice
        /\ noticeNonce' \in [Mirrors -> Nat]
    BY <1>1, <1>2, <1>3, <2>1, ReturnStrandedType
  <2> QED
    BY <1>4, <2>2 DEF TypeOK, MirrorTypeOK, WireTypeOK, HomeTypeOK, EndpointTypeOK, RelayTypeOK
<1> QED
  BY <1>5, <1>6

(* A strand paid out on the home chain, in the asset it was recorded in.   *)
LEMMA ClaimStrandedType ==
  ASSUME TypeOK, NEW m \in Mirrors, NEW id \in Ids, ClaimStranded(m, id)
  PROVE  WireTypeOK' /\ HomeTypeOK'
<1> DEFINE s == stranded[m][id]
           paid == Transfer(homeToken[s.token], Contract, s.beneficiary, s.amount)
<1>1. /\ CanPay(homeToken[s.token], Contract, s.amount)
      /\ stranded' = Cleared(m, id)
      /\ homeToken' = [homeToken EXCEPT ![s.token] = paid]
      /\ UNCHANGED <<wireVars, lazy, verified, queue, native, dustAccrued>>
  BY DEF ClaimStranded
<1>2. s.amount \in Nat /\ s.token \in Tokens /\ homeToken \in [Tokens -> Token]
  BY StrandedTypes DEF TypeOK, HomeTypeOK, EndpointTypeOK
<1>3. paid \in Token
  BY <1>1, <1>2, TransferType, NamedAccounts
<1> HIDE DEF paid, s
<1>4. homeToken' \in [Tokens -> Token]
  BY <1>1, <1>2, <1>3
<1>5. stranded' \in [Mirrors -> [Ids -> Stranded]]
  BY <1>1, StrandedTypes
<1> QED
  BY <1>1, <1>4, <1>5 DEF TypeOK, MirrorTypeOK, WireTypeOK, HomeTypeOK, EndpointTypeOK,
                          RelayTypeOK, wireVars

(* The owner kills a message on the home chain and tells the mirror.       *)
LEMMA CancelStuckInboundType ==
  ASSUME TypeOK, NEW p \in orders, NEW hashGiven \in BOOLEAN,
         CancelStuckInbound(p, hashGiven)
  PROVE  WireTypeOK' /\ HomeTypeOK'
<1>1. p.m \in Mirrors /\ p.t \in Tokens /\ p.nonce \in Nat
  BY DEF TypeOK, MirrorTypeOK, WireTypeOK, OrderPacket
<1>2. PICK price \in NoticeQuotes : price <= native /\ native' = native - price
  BY DEF CancelStuckInbound
<1>3. native' \in Nat
  BY <1>2, RelayAssumption DEF TypeOK, HomeTypeOK, RelayTypeOK
<1>4. lazy' \in [Mirrors -> [Tokens -> Nat]]
  BY <1>1 DEF CancelStuckInbound, TypeOK, HomeTypeOK, EndpointTypeOK
<1>5. verified' \in [Mirrors -> [Tokens -> SUBSET Nat]]
  BY <1>1 DEF CancelStuckInbound, TypeOK, HomeTypeOK, EndpointTypeOK
<1>6. notices' \subseteq Notice /\ noticeNonce' \in [Mirrors -> Nat]
  BY <1>1, SendNoticeType DEF CancelStuckInbound, TypeOK, MirrorTypeOK
<1>7. UNCHANGED <<mirrorToken, outNonce, orders, returns, backNonce, composing,
                  queue, homeToken, stranded, dustAccrued>>
  BY DEF CancelStuckInbound
<1> QED
  BY <1>3, <1>4, <1>5, <1>6, <1>7 DEF TypeOK, MirrorTypeOK, WireTypeOK, HomeTypeOK,
                                      EndpointTypeOK, RelayTypeOK

(* The owner's calls: native in, native out, dust out.                     *)
LEMMA OperatingType ==
  ASSUME TypeOK, Operating
  PROVE  WireTypeOK' /\ HomeTypeOK'
<1>1. CASE \E v \in FundAmounts : FundNative(v)
  <2>1. native' \in Nat
    BY <1>1, RelayAssumption DEF FundNative, TypeOK, HomeTypeOK, RelayTypeOK
  <2> QED
    BY <1>1, <2>1 DEF FundNative, TypeOK, MirrorTypeOK, WireTypeOK, HomeTypeOK,
                      EndpointTypeOK, RelayTypeOK, wireVars, endpointVars
<1>2. CASE \E v \in WithdrawAmounts : WithdrawNative(v)
  <2>1. native' \in Nat
    BY <1>2, RelayAssumption DEF WithdrawNative, TypeOK, HomeTypeOK, RelayTypeOK
  <2> QED
    BY <1>2, <2>1 DEF WithdrawNative, TypeOK, MirrorTypeOK, WireTypeOK, HomeTypeOK,
                      EndpointTypeOK, RelayTypeOK, wireVars, endpointVars
<1>3. ASSUME NEW t \in Tokens, SweepDust(t)
      PROVE  WireTypeOK' /\ HomeTypeOK'
  <2> DEFINE paid == Transfer(homeToken[t], Contract, World, dustAccrued[t])
  <2>1. /\ CanPay(homeToken[t], Contract, dustAccrued[t])
        /\ dustAccrued' = [dustAccrued EXCEPT ![t] = 0]
        /\ homeToken' = [homeToken EXCEPT ![t] = paid]
        /\ UNCHANGED <<wireVars, lazy, verified, queue, native, stranded>>
    BY <1>3 DEF SweepDust
  <2>2. paid \in Token /\ homeToken \in [Tokens -> Token]
    BY <2>1, TransferType, NamedAccounts
       DEF TypeOK, HomeTypeOK, EndpointTypeOK, RelayTypeOK
  <2> HIDE DEF paid
  <2>3. homeToken' \in [Tokens -> Token] /\ dustAccrued' \in [Tokens -> Nat]
    BY <2>1, <2>2 DEF TypeOK, HomeTypeOK, RelayTypeOK
  <2> QED
    BY <2>1, <2>3 DEF TypeOK, MirrorTypeOK, WireTypeOK, HomeTypeOK, EndpointTypeOK,
                      RelayTypeOK, wireVars
<1> QED
  BY <1>1, <1>2, <1>3 DEF Operating

(* A step of the home chain leaves every variable in its type.             *)
LEMMA HomeNextType ==
  ASSUME TypeOK, HomeStep
  PROVE  TypeOK'
<1>1. WireTypeOK' /\ HomeTypeOK'
  <2>1. HomeNext
    BY DEF HomeStep
  <2>2. CASE Recovering
    BY <2>2, RetryType, ClaimStrandedType, CancelStuckInboundType DEF Recovering
  <2> QED
    BY <2>1, <2>2, DeliveringType, ExecuteOrderType, OperatingType DEF HomeNext
<1>2. RequestTypeOK'
  BY DEF HomeStep, TypeOK, MirrorTypeOK, RequestTypeOK, requestVars
<1> QED
  BY <1>1, <1>2 DEF TypeOK, MirrorTypeOK

-----------------------------------------------------------------------------
(* So is every initial state of the whole system.                          *)
LEMMA InitType ==
  ASSUME Init
  PROVE  TypeOK
<1>1. MirrorTypeOK
  BY MirrorInitType DEF Init
<1>2. Cardinality(Users) \in Nat /\ Cardinality(Mirrors) \in Nat
  BY WireAssumption, FS_CardinalityType
<1>3. \A t \in Tokens : AbroadAtStart(t) \in Nat
  <2> TAKE t \in Tokens
  <2> DEFINE each == Cardinality(Mirrors) * Cardinality(Users)
             abroad == each * MirrorFloat[t]
  <2>1. each \in Nat
    BY <1>2, ProductNat
  <2>2. abroad \in Nat
    <3> HIDE DEF each
    <3> QED
      BY <2>1, ProductNat, WireAssumption
  <2>3. AbroadAtStart(t) = abroad * HomeQuantum[t]
    BY DEF AbroadAtStart
  <2> HIDE DEF abroad
  <2> QED
    BY <2>2, <2>3, ProductNat, HomeAssumption
<1>4. EndpointTypeOK
  <2>1. \A t \in Tokens :
          [bal |-> [a \in Accounts |->
                      CASE a = World -> HomeFloat[t]
                        [] a = Vault /\ t \in Adapted -> AbroadAtStart(t)
                        [] OTHER -> 0],
           out |-> IF t \in Adapted THEN 0 ELSE AbroadAtStart(t),
           in  |-> 0] \in Token
    BY <1>3, HomeAssumption DEF Token
  <2>2. homeToken \in [Tokens -> Token]
    BY <2>1 DEF Init, HomeInit, EndpointInit, HomeTokenAtStart
  <2> QED
    BY <2>2 DEF Init, HomeInit, EndpointInit, HomeTokenAtStart, EndpointTypeOK
<1>5. RelayTypeOK
  BY RelayAssumption DEF Init, HomeInit, RelayInit, RelayTypeOK, Stranded, Tokens
<1> QED
  BY <1>1, <1>4, <1>5 DEF TypeOK, HomeTypeOK

(***************************************************************************)
(* Every reachable state is well typed, whatever the mirrors, users,       *)
(* quanta, fees, quotes and bounds.                                        *)
(***************************************************************************)
THEOREM TypeCorrect == Spec => []TypeOK
<1>1. Init => TypeOK
  BY InitType
<1>2. TypeOK /\ [Next]_vars => TypeOK'
  <2> SUFFICES ASSUME TypeOK, [Next]_vars
               PROVE  TypeOK'
    OBVIOUS
  <2>1. CASE MirrorStep
    <3>1. MirrorTypeOK'
      BY <2>1, MirrorNextType DEF MirrorStep, TypeOK
    <3>2. HomeTypeOK'
      BY <2>1 DEF MirrorStep, TypeOK, HomeTypeOK, EndpointTypeOK, RelayTypeOK,
                  homeVars, endpointVars, relayVars
    <3> QED
      BY <3>1, <3>2 DEF TypeOK
  <2>2. CASE HomeStep
    BY <2>2, HomeNextType
  <2>3. CASE UNCHANGED vars
    BY <2>3 DEF vars, mirrorVars, homeVars, wireVars, requestVars, endpointVars, relayVars,
                TypeOK, MirrorTypeOK, HomeTypeOK, WireTypeOK, RequestTypeOK,
                EndpointTypeOK, RelayTypeOK
  <2> QED
    BY <2>1, <2>2, <2>3 DEF Next
<1> QED
  BY <1>1, <1>2, PTL DEF Spec

-----------------------------------------------------------------------------
(***************************************************************************)
(* Kill, then notify: an order whose input was restored on its mirror is   *)
(* never executed on the home chain.                                       *)
(*                                                                         *)
(* The invariant has two halves.  On the home chain a killed nonce stays   *)
(* dead: the lazy nonce only grows, and nothing at or below it is verified *)
(* again.  Between the chains a path and a nonce name one order, so the    *)
(* request a notice closes is the one whose packet was killed; that needs  *)
(* every nonce recorded or in flight to have been given out.               *)
(***************************************************************************)

(* No packet and no request has a nonce its path has not given out.        *)
NoncesTaken ==
  /\ \A p \in orders : p.nonce <= outNonce[p.m][p.t]
  /\ \A m \in Mirrors, i \in Ids :
       requests[m][i].status # "NONE" =>
         requests[m][i].lzNonce <= outNonce[m][TokenIn(requests[m][i].dir)]

CancelInv ==
  /\ TypeOK
  /\ NoncesTaken
  /\ NonceNamesOrder
  /\ CancelledNeverExecutes

-----------------------------------------------------------------------------
(* What is dead stays dead: no step verifies at or below the lazy nonce,   *)
(* and no step lowers it.                                                  *)
LEMMA DeadStaysDead ==
  ASSUME TypeOK, [Next]_vars,
         NEW m \in Mirrors, NEW t \in Tokens, NEW n \in Nat, Dead(m, t, n)
  PROVE  Dead(m, t, n)'
<1>1. /\ lazy \in [Mirrors -> [Tokens -> Nat]]
      /\ verified \in [Mirrors -> [Tokens -> SUBSET Nat]]
  BY DEF TypeOK, HomeTypeOK, EndpointTypeOK
<1>2. CASE UNCHANGED <<lazy, verified>>
  BY <1>2 DEF Dead
<1>3. ASSUME NEW p \in orders, Verify(p) \/ ReceiveOrder(p) \/
                               \E h \in BOOLEAN : CancelStuckInbound(p, h)
      PROVE  Dead(m, t, n)'
  <2>1. p.m \in Mirrors /\ p.t \in Tokens /\ p.nonce \in Nat
    BY DEF TypeOK, MirrorTypeOK, WireTypeOK, OrderPacket
  <2>2. lazy'[m][t] >= lazy[m][t] /\ lazy'[m][t] \in Nat
    <3>1. CASE Verify(p)
      BY <1>1, <3>1 DEF Verify
    <3>2. CASE ReceiveOrder(p)
      BY <1>1, <2>1, <3>2 DEF ReceiveOrder
    <3>3. CASE \E h \in BOOLEAN : CancelStuckInbound(p, h)
      BY <1>1, <2>1, <3>3 DEF CancelStuckInbound, Skippable, Verifiable
    <3> QED
      BY <1>3, <3>1, <3>2, <3>3
  <2>3. n \notin verified'[m][t]
    <3>1. CASE Verify(p)
      BY <1>1, <2>1, <3>1 DEF Verify, Verifiable, Dead
    <3>2. CASE ReceiveOrder(p)
      BY <1>1, <2>1, <3>2 DEF ReceiveOrder, Dead
    <3>3. CASE \E h \in BOOLEAN : CancelStuckInbound(p, h)
      BY <1>1, <2>1, <3>3 DEF CancelStuckInbound, Dead
    <3> QED
      BY <1>3, <3>1, <3>2, <3>3
  <2> QED
    BY <1>1, <2>2, <2>3 DEF Dead
<1>4. CASE HomeStep
  <2>1. CASE Delivering
    BY <1>3, <2>1 DEF Delivering
  <2>2. CASE \E p \in queue : ExecuteOrder(p)
    BY <1>2, <2>2 DEF ExecuteOrder, FillOrder, RejectOrder, Handed
  <2>3. CASE Recovering
    BY <1>2, <1>3, <2>3 DEF Recovering, RetrySent, RetryStranded, ClaimStranded
  <2>4. CASE Operating
    BY <1>2, <2>4 DEF Operating, FundNative, WithdrawNative, SweepDust, endpointVars
  <2> QED
    BY <1>4, <2>1, <2>2, <2>3, <2>4 DEF HomeStep, HomeNext
<1> QED
  BY <1>2, <1>4 DEF Next, MirrorStep, vars, homeVars, endpointVars

(***************************************************************************)
(* What a step does to the orders, the requests and the notices: it sends  *)
(* a packet, perhaps with a new request (Sends); closes a pending request  *)
(* otherwise than by a cancellation (ClosesAs) or by one (NoticeCancelled);  *)
(* kills a message (CancelStuckInbound); or leaves the requests alone and  *)
(* at most executes an order or announces a strand (Carries).              *)
(***************************************************************************)
Sends(p) ==
  /\ p \in OrderPacket
  /\ p.nonce = outNonce[p.m][p.t] + 1
  /\ outNonce' = [outNonce EXCEPT ![p.m][p.t] = @ + 1]
  /\ orders' = orders \cup {p}
  /\ notices' = notices
  /\ \/ requests' = requests
     \/ \E r \in Request :
          /\ TokenIn(r.dir) = p.t
          /\ r.lzNonce = p.nonce
          /\ r.status = "PENDING"
          /\ p.id \in Ids
          /\ requests' = [requests EXCEPT ![p.m][p.id] = r]

ClosesAs(m, i, r) ==
  /\ r \in Request
  /\ requests[m][i].status = "PENDING"
  /\ r.dir = requests[m][i].dir
  /\ r.lzNonce = requests[m][i].lzNonce
  /\ r.status \in {"FILLED", "REFUNDED", "STRANDED"}
  /\ requests' = [requests EXCEPT ![m][i] = r]
  /\ notices' \subseteq notices
  /\ UNCHANGED <<outNonce, orders>>

Carries ==
  /\ orders' \subseteq orders
  /\ \A p \in orders : p \in orders' \/ ~Dead(p.m, p.t, p.nonce)
  /\ \A n \in notices' : n \in notices \/ n.status = "STRANDED"
  /\ UNCHANGED <<outNonce, requests>>

(* An accepted order sends its packet and records it under its nonce.      *)
LEMMA SubmitSends ==
  ASSUME TypeOK, TypeOK', NEW m \in Mirrors, NEW trade \in TradeType, NEW partner, NEW bps,
         NEW recipient, Submit(m, trade, partner, bps, recipient)
  PROVE  \E p : Sends(p)
<1> DEFINE t == TokenIn(trade.dir)
           i == nextRequestId[m]
           r == requests'[m][i]
<1>1. t \in Tokens /\ i \in Ids
  BY DEF Submit, TradeType, TokenIn, Tokens
<1>2. /\ outNonce \in [Mirrors -> [Tokens -> Nat]]
      /\ requests \in [Mirrors -> [Ids -> Request]]
      /\ requests' \in [Mirrors -> [Ids -> Request]]
      /\ orders' \subseteq OrderPacket
  BY DEF TypeOK, MirrorTypeOK, WireTypeOK, RequestTypeOK
<1> DEFINE escrow == [partner |-> partner, state |-> "ESCROWED",
                      partnerRecipient |-> recipient,
                      platformRecipient |-> platformFee[m].recipient,
                      partnerFee |-> FeeOf(trade.gross, bps, FeeUnit),
                      platformFee |-> FeeOf(trade.gross, platformFee[m].bps, FeeUnit)]
           net  == trade.gross - EscrowTotal(escrow)
           sent == RemoveDust(net, MirrorQuantum[m][t])
           sd   == ToShared(net, MirrorQuantum[m][t])
           min  == FloorToShared(trade.min, MirrorQuantum[m][TokenOut(trade.dir)])
<1>3. /\ SendOrder(m, t, i, trade.user, sd, min)
      /\ requests' = [requests EXCEPT ![m][i] =
                        NewRequest(trade, sent, outNonce[m][t] + 1)]
      /\ notices' = notices
  BY DEF Submit
<1> HIDE DEF escrow, net, sent, sd, min
<1> DEFINE p == [m |-> m, t |-> t, nonce |-> outNonce[m][t] + 1, id |-> i,
                 user |-> trade.user, sd |-> sd, min |-> min]
<1>4. outNonce' = [outNonce EXCEPT ![m][t] = @ + 1] /\ orders' = orders \cup {p}
  BY <1>3 DEF SendOrder
<1>5. p \in OrderPacket
  BY <1>2, <1>4
<1>6. r = NewRequest(trade, sent, outNonce[m][t] + 1)
  BY <1>1, <1>2, <1>3
<1>7. /\ r \in Request /\ TokenIn(r.dir) = t
      /\ r.lzNonce = outNonce[m][t] + 1 /\ r.status = "PENDING"
  BY <1>1, <1>2, <1>6 DEF NewRequest
<1>8. requests' = [requests EXCEPT ![m][i] = r]
  BY <1>3, <1>6
<1>9. p.m = m /\ p.t = t /\ p.id = i /\ p.nonce = outNonce[m][t] + 1
  OBVIOUS
<1> HIDE DEF p, t, i, r
<1>10. \E s \in Request :
         /\ TokenIn(s.dir) = p.t /\ s.lzNonce = p.nonce /\ s.status = "PENDING"
         /\ p.id \in Ids
         /\ requests' = [requests EXCEPT ![p.m][p.id] = s]
  BY <1>1, <1>7, <1>8, <1>9
<1>11. Sends(p)
  BY <1>3, <1>4, <1>5, <1>9, <1>10 DEF Sends
<1> QED
  BY <1>11

(* A settlement closes its request, or changes none.                       *)
LEMMA SettleCloses ==
  ASSUME TypeOK, TypeOK', NEW p \in composing, Settle(p)
  PROVE  (\E r : ClosesAs(p.m, p.id, r)) \/ Carries
<1>1. p.m \in Mirrors /\ p.id \in Ids
  BY DEF TypeOK, MirrorTypeOK, WireTypeOK, ReturnPacket
<1>2. /\ requests \in [Mirrors -> [Ids -> Request]]
      /\ requests' \in [Mirrors -> [Ids -> Request]]
  BY DEF TypeOK, MirrorTypeOK, RequestTypeOK
<1>3. UNCHANGED <<outNonce, orders, notices>>
  BY DEF Settle, ComposeFill, ComposeRefund, ComposeLate, Compose
<1>4. CASE ComposeLate(p)
  BY <1>3, <1>4 DEF ComposeLate, Carries
<1>5. ASSUME NEW r, requests' = [requests EXCEPT ![p.m][p.id] = r],
             requests[p.m][p.id].status = "PENDING",
             r.dir = requests[p.m][p.id].dir, r.lzNonce = requests[p.m][p.id].lzNonce,
             r.status \in {"FILLED", "REFUNDED"}
      PROVE  ClosesAs(p.m, p.id, r)
  <2>1. r \in Request
    BY <1>1, <1>2, <1>5
  <2> QED
    BY <1>3, <1>5, <2>1 DEF ClosesAs
<1>6. CASE ComposeFill(p)
  <2> DEFINE old == requests[p.m][p.id]
             r == [old EXCEPT !.status = "FILLED",
                     !.amountOut = ToLocal(p.sd, MirrorQuantum[p.m][p.t])]
  <2>1. requests' = [requests EXCEPT ![p.m][p.id] = r] /\ old.status = "PENDING"
    BY <1>6 DEF ComposeFill
  <2>2. old \in Request
    BY <1>1, <1>2
  <2>3. r.dir = old.dir /\ r.lzNonce = old.lzNonce /\ r.status = "FILLED"
    BY <2>2 DEF Request
  <2> HIDE DEF r
  <2> QED
    BY <1>5, <2>1, <2>3
<1>7. ASSUME NEW accepted, ComposeRefund(p, accepted)
      PROVE  \E r : ClosesAs(p.m, p.id, r)
  <2> DEFINE old == requests[p.m][p.id]
             r == [old EXCEPT !.status = "REFUNDED"]
  <2>1. requests' = [requests EXCEPT ![p.m][p.id] = r] /\ old.status = "PENDING"
    BY <1>7 DEF ComposeRefund
  <2>2. old \in Request
    BY <1>1, <1>2
  <2>3. r.dir = old.dir /\ r.lzNonce = old.lzNonce /\ r.status = "REFUNDED"
    BY <2>2 DEF Request
  <2> HIDE DEF r
  <2> QED
    BY <1>5, <2>1, <2>3
<1> QED
  BY <1>4, <1>6, <1>7 DEF Settle

(* So does a notice of a strand.                                           *)
LEMMA StrandedCloses ==
  ASSUME TypeOK, TypeOK', NEW n \in notices, NEW i \in Ids, NEW accepted,
         NoticeStranded(n, i, accepted)
  PROVE  \E r : ClosesAs(n.m, i, r)
<1> DEFINE old == requests[n.m][i]
           r == [old EXCEPT !.status = "STRANDED"]
<1>1. n.m \in Mirrors
  BY DEF TypeOK, MirrorTypeOK, WireTypeOK, Notice
<1>2. old \in Request /\ requests' \in [Mirrors -> [Ids -> Request]]
  BY <1>1 DEF TypeOK, MirrorTypeOK, RequestTypeOK
<1>3. requests' = [requests EXCEPT ![n.m][i] = r] /\ old.status = "PENDING"
  BY DEF NoticeStranded, Concerned
<1>4. r \in Request /\ r.dir = old.dir /\ r.lzNonce = old.lzNonce /\ r.status = "STRANDED"
  BY <1>2 DEF Request, Status
<1>5. notices' \subseteq notices /\ UNCHANGED <<outNonce, orders>>
  BY DEF NoticeStranded, ReceiveNotice
<1> HIDE DEF r
<1> QED
  BY <1>3, <1>4, <1>5 DEF ClosesAs

(* Every step is one of the five.                                          *)
LEMMA KindsOfStep ==
  ASSUME TypeOK, TypeOK', [Next]_vars
  PROVE  \/ \E p : Sends(p)
         \/ \E m \in Mirrors, i \in Ids : \E r : ClosesAs(m, i, r)
         \/ \E n \in notices, i \in Ids, accepted \in TokenAccepts :
              NoticeCancelled(n, i, accepted)
         \/ \E p \in orders, h \in BOOLEAN :
              CancelStuckInbound(p, h) /\ requests' = requests
         \/ Carries
<1>1. CASE Bridging
  <2>1. ASSUME NEW m \in Mirrors, NEW t \in Tokens, NEW u \in Users, NEW sd \in DirectAmounts,
               DirectSend(m, t, u, sd), UNCHANGED requestVars
        PROVE  \E p : Sends(p)
    <3> DEFINE p == [m |-> m, t |-> t, nonce |-> outNonce[m][t] + 1, id |-> 0,
                     user |-> u, sd |-> sd, min |-> 0]
    <3>1. /\ outNonce' = [outNonce EXCEPT ![m][t] = @ + 1] /\ orders' = orders \cup {p}
          /\ notices' = notices /\ requests' = requests
      BY <2>1 DEF DirectSend, SendOrder, requestVars
    <3>2. p \in OrderPacket
      BY <3>1 DEF TypeOK, MirrorTypeOK, WireTypeOK
    <3>3. p.m = m /\ p.t = t /\ p.nonce = outNonce[m][t] + 1
      OBVIOUS
    <3> HIDE DEF p
    <3> QED
      BY <3>1, <3>2, <3>3 DEF Sends
  <2>2. ASSUME NEW p \in returns, ReceiveReturn(p), UNCHANGED requestVars
        PROVE  Carries
    BY <2>2 DEF ReceiveReturn, requestVars, Carries
  <2> QED
    BY <1>1, <2>1, <2>2 DEF Bridging
<1>2. CASE Ordering
  <2>1. ASSUME NEW m \in Mirrors, NEW trade \in Trades, SubmitOpen(m, trade)
        PROVE  \E p : Sends(p)
    BY <2>1, SubmitSends, RequestAssumption DEF SubmitOpen
  <2>2. ASSUME NEW auth \in Authorizations, SubmitVia(auth)
        PROVE  \E p : Sends(p)
    BY <2>2, SubmitSends, RequestAssumption DEF SubmitVia, AuthorizationType
  <2> QED
    BY <1>2, <2>1, <2>2 DEF Ordering
<1>3. CASE Settling
  <2>1. ASSUME NEW p \in composing, Settle(p)
        PROVE  (\E m \in Mirrors, i \in Ids : \E r : ClosesAs(m, i, r)) \/ Carries
    <3>1. p.m \in Mirrors /\ p.id \in Ids
      BY DEF TypeOK, MirrorTypeOK, WireTypeOK, ReturnPacket
    <3> QED
      BY <2>1, <3>1, SettleCloses
  <2>2. ASSUME NEW n \in notices, NEW i \in Ids, NEW accepted \in TokenAccepts,
               NoticeStranded(n, i, accepted)
        PROVE  \E m \in Mirrors, j \in Ids : \E r : ClosesAs(m, j, r)
    <3>1. n.m \in Mirrors
      BY DEF TypeOK, MirrorTypeOK, WireTypeOK, Notice
    <3> QED
      BY <2>2, <3>1, StrandedCloses
  <2>3. ASSUME NEW n \in notices, NoticeIgnored(n)
        PROVE  Carries
    BY <2>3 DEF NoticeIgnored, ReceiveNotice, Carries
  <2> QED
    BY <1>3, <2>1, <2>2, <2>3 DEF Settling, HearNotice
<1>4. CASE Administering
  BY <1>4 DEF Administering, ClaimFees, SetPartner, SetPartnerRequired, SetPlatformFee,
              InvalidateNonce, Sweep, SendStray, wireVars, ledgerVars, requestVars, Carries
<1>5. CASE HomeStep
  <2>1. requests' = requests
    BY <1>5 DEF HomeStep, requestVars
  <2>2. CASE Delivering
    BY <2>1, <2>2 DEF Delivering, Verify, ReceiveOrder, Executable, Dead, Carries
  <2>3. ASSUME NEW r, NEW held, NEW owed, NEW funds,
               \/ \E price : ReturnSent(r, price, held, owed, funds)
               \/ \E price, notice : ReturnStranded(r, price, notice, held, owed, funds)
        PROVE  \A n \in notices' : n \in notices \/ n.status = "STRANDED"
    BY <2>3 DEF ReturnSent, ReturnStranded, SendNotice
  <2>4. CASE \E p \in queue : ExecuteOrder(p)
    <3>1. PICK p \in queue, out \in PoolOutputs : FillOrder(p, out) \/ RejectOrder(p, out)
      BY <2>4 DEF ExecuteOrder
    <3>2. UNCHANGED <<outNonce, orders>>
      BY <3>1 DEF FillOrder, RejectOrder, Handed
    <3>3. PICK r, held, owed, funds : ReturnToMirror(r, held, owed, funds)
      BY <3>1 DEF FillOrder, RejectOrder
    <3>4. \A n \in notices' : n \in notices \/ n.status = "STRANDED"
      BY <2>3, <3>3 DEF ReturnToMirror
    <3> QED
      BY <2>1, <3>2, <3>4 DEF Carries
  <2>5. ASSUME NEW m \in Mirrors, NEW i \in Ids, NEW v,
               RetrySent(m, i, v) \/ RetryStranded(m, i, v)
        PROVE  Carries
    <3>1. \A n \in notices' : n \in notices \/ n.status = "STRANDED"
      BY <2>3, <2>5 DEF RetrySent, RetryStranded
    <3> QED
      BY <2>1, <2>5, <3>1 DEF RetrySent, RetryStranded, Carries
  <2>6. ASSUME NEW m, NEW i, ClaimStranded(m, i)
        PROVE  Carries
    BY <2>1, <2>6 DEF ClaimStranded, wireVars, Carries
  <2>7. CASE Operating
    BY <2>1, <2>7 DEF Operating, FundNative, WithdrawNative, SweepDust, wireVars, Carries
  <2> QED
    BY <1>5, <2>1, <2>2, <2>4, <2>5, <2>6, <2>7 DEF HomeStep, HomeNext, Recovering
<1>6. CASE UNCHANGED vars
  BY <1>6 DEF vars, mirrorVars, wireVars, requestVars, Carries
<1> QED
  BY <1>1, <1>2, <1>3, <1>4, <1>5, <1>6 DEF Next, MirrorStep, MirrorNext

-----------------------------------------------------------------------------
(* The invariant, kind of step by kind of step.                            *)

(* An order that is sent takes a nonce that names nothing yet.             *)
LEMMA SendsKeeps ==
  ASSUME CancelInv, TypeOK', NEW p, Sends(p)
  PROVE  NoncesTaken' /\ NonceNamesOrder'
<1>1. /\ p.m \in Mirrors /\ p.t \in Tokens /\ p.nonce \in Nat
      /\ outNonce \in [Mirrors -> [Tokens -> Nat]]
      /\ orders \subseteq OrderPacket
      /\ requests \in [Mirrors -> [Ids -> Request]]
  BY DEF Sends, OrderPacket, CancelInv, TypeOK, MirrorTypeOK, WireTypeOK, RequestTypeOK
<1>2. /\ outNonce'[p.m][p.t] = p.nonce
      /\ \A m \in Mirrors, t \in Tokens : outNonce[m][t] <= outNonce'[m][t]
  BY <1>1 DEF Sends
<1>3. \A o \in orders' : o.nonce <= outNonce'[o.m][o.t]
  <2> TAKE o \in orders'
  <2>1. CASE o = p
    BY <1>1, <1>2, <2>1
  <2>2. CASE o \in orders
    <3>1. /\ o.nonce <= outNonce[o.m][o.t] /\ o.m \in Mirrors /\ o.t \in Tokens
          /\ o.nonce \in Nat
      BY <1>1, <2>2 DEF CancelInv, NoncesTaken, OrderPacket
    <3>2. outNonce'[o.m][o.t] \in Nat /\ outNonce[o.m][o.t] \in Nat
      BY <1>1, <3>1 DEF TypeOK, MirrorTypeOK, WireTypeOK
    <3> QED
      BY <1>2, <3>1, <3>2
  <2> QED
    BY <2>1, <2>2 DEF Sends
<1>4. \A m \in Mirrors, i \in Ids :
        \/ requests'[m][i] = requests[m][i]
        \/ /\ m = p.m /\ i = p.id
           /\ TokenIn(requests'[m][i].dir) = p.t /\ requests'[m][i].lzNonce = p.nonce
  <2>1. CASE requests' = requests
    BY <2>1
  <2>2. CASE requests' # requests
    <3>1. PICK r \in Request :
            /\ TokenIn(r.dir) = p.t /\ r.lzNonce = p.nonce /\ p.id \in Ids
            /\ requests' = [requests EXCEPT ![p.m][p.id] = r]
      BY <2>2 DEF Sends
    <3> QED
      BY <1>1, <3>1
  <2> QED
    BY <2>1, <2>2
<1>5. \A m \in Mirrors, i \in Ids :
        requests[m][i].status # "NONE" =>
          /\ requests[m][i].lzNonce \in Nat
          /\ TokenIn(requests[m][i].dir) \in Tokens
          /\ requests[m][i].lzNonce <= outNonce[m][TokenIn(requests[m][i].dir)]
  BY <1>1 DEF CancelInv, NoncesTaken, Request, TokenIn, Tokens
<1>6. NoncesTaken'
  <2>1. ASSUME NEW m \in Mirrors, NEW i \in Ids, requests'[m][i].status # "NONE"
        PROVE  requests'[m][i].lzNonce <= outNonce'[m][TokenIn(requests'[m][i].dir)]
    <3>1. CASE requests'[m][i] = requests[m][i]
      <4> DEFINE t == TokenIn(requests[m][i].dir)
      <4>1. requests[m][i].lzNonce <= outNonce[m][t] /\ t \in Tokens
            /\ requests[m][i].lzNonce \in Nat
        BY <1>5, <2>1, <3>1
      <4> HIDE DEF t
      <4>2. outNonce[m][t] <= outNonce'[m][t] /\ outNonce[m][t] \in Nat
            /\ outNonce'[m][t] \in Nat
        BY <1>1, <1>2, <4>1 DEF TypeOK, MirrorTypeOK, WireTypeOK
      <4>3. requests[m][i].lzNonce <= outNonce'[m][t]
        BY <4>1, <4>2
      <4> QED
        BY <3>1, <4>3 DEF t
    <3>2. CASE /\ m = p.m /\ i = p.id
               /\ TokenIn(requests'[m][i].dir) = p.t
               /\ requests'[m][i].lzNonce = p.nonce
      BY <1>1, <1>2, <3>2
    <3> QED
      BY <1>4, <3>1, <3>2
  <2> QED
    BY <1>3, <2>1 DEF NoncesTaken
<1>7. NonceNamesOrder'
  <2>1. ASSUME NEW o \in orders', NEW i \in Ids,
               requests'[o.m][i].status # "NONE",
               TokenIn(requests'[o.m][i].dir) = o.t,
               requests'[o.m][i].lzNonce = o.nonce
        PROVE  o.id = i
    <3>1. o \in OrderPacket /\ o.m \in Mirrors /\ o.t \in Tokens /\ o.nonce \in Nat
      BY DEF TypeOK, MirrorTypeOK, WireTypeOK, OrderPacket
    <3>2. outNonce[o.m][o.t] \in Nat
      BY <1>1, <3>1
    <3>3. CASE o \in orders /\ requests'[o.m][i] = requests[o.m][i]
      BY <2>1, <3>3 DEF CancelInv, NonceNamesOrder, RequestsByNonce
    <3>4. CASE o = p /\ requests'[o.m][i] = requests[o.m][i]
      <4>1. requests[o.m][i].lzNonce <= outNonce[o.m][o.t]
        BY <1>5, <2>1, <3>1, <3>4
      <4>2. o.nonce = outNonce[o.m][o.t] + 1
        BY <3>4 DEF Sends
      <4> QED
        BY <2>1, <3>2, <3>4, <4>1, <4>2
    <3>5. CASE o \in orders /\ o.m = p.m /\ i = p.id
               /\ TokenIn(requests'[o.m][i].dir) = p.t
               /\ requests'[o.m][i].lzNonce = p.nonce
      <4>1. o.nonce <= outNonce[o.m][o.t] /\ o.t = p.t /\ o.nonce = p.nonce
        BY <2>1, <3>5 DEF CancelInv, NoncesTaken
      <4>2. p.nonce = outNonce[o.m][o.t] + 1
        BY <3>5, <4>1 DEF Sends
      <4> QED
        BY <3>1, <3>2, <4>1, <4>2
    <3>6. CASE o = p /\ i = p.id
      BY <3>6
    <3> QED
      BY <1>4, <3>1, <3>3, <3>4, <3>5, <3>6 DEF Sends
  <2> QED
    BY <2>1 DEF NonceNamesOrder, RequestsByNonce
<1> QED
  BY <1>6, <1>7

(***************************************************************************)
(* A step that sends nothing and rewrites at most one pending request      *)
(* keeps the nonces: the request keeps its direction and its nonce.        *)
(***************************************************************************)
LEMMA OthersKeep ==
  ASSUME CancelInv, TypeOK', outNonce' = outNonce, orders' \subseteq orders,
         \A m \in Mirrors, i \in Ids :
           /\ requests'[m][i].dir = requests[m][i].dir
           /\ requests'[m][i].lzNonce = requests[m][i].lzNonce
           /\ requests'[m][i].status # "NONE" => requests[m][i].status # "NONE"
  PROVE  NoncesTaken' /\ NonceNamesOrder'
<1>1. NoncesTaken'
  BY DEF CancelInv, NoncesTaken
<1>2. \A p \in orders' : p.m \in Mirrors
  BY DEF TypeOK, MirrorTypeOK, WireTypeOK, OrderPacket
<1>3. NonceNamesOrder'
  BY <1>2 DEF CancelInv, NonceNamesOrder, RequestsByNonce
<1> QED
  BY <1>1, <1>3

-----------------------------------------------------------------------------
(* A notice of a cancellation finds, under its nonce, the request whose    *)
(* packet was killed: that request is closed and the packet stays dead.    *)
LEMMA RestoredIsDead ==
  ASSUME CancelInv, NEW n \in notices, NEW i \in Ids, NEW accepted,
         NoticeCancelled(n, i, accepted)
  PROVE  \E p \in Holds(orders, n.m, i) :
           /\ p.t = TokenIn(requests[n.m][i].dir)
           /\ p.nonce = requests[n.m][i].lzNonce
           /\ Dead(n.m, p.t, p.nonce)
<1>1. /\ n.status = "CANCELLED"
      /\ i \in RequestsByNonce(n.m, n.t, n.lzNonce)
  BY DEF NoticeCancelled, Concerned
<1>2. PICK p \in orders : p.m = n.m /\ p.t = n.t /\ p.nonce = n.lzNonce
  BY <1>1 DEF CancelInv, CancelledNeverExecutes
<1>3. Dead(n.m, p.t, p.nonce)
  BY <1>1, <1>2 DEF CancelInv, CancelledNeverExecutes
<1>4. p.id = i
  BY <1>1, <1>2 DEF CancelInv, NonceNamesOrder
<1> QED
  BY <1>1, <1>2, <1>3, <1>4 DEF Holds, RequestsByNonce

(* What a notice or a cancelled request says of its packet stays true.     *)
LEMMA KilledStaysKilled ==
  ASSUME CancelInv, [Next]_vars, NEW p \in orders, Dead(p.m, p.t, p.nonce),
         p \in orders'
  PROVE  Dead(p.m, p.t, p.nonce)'
<1>1. p.m \in Mirrors /\ p.t \in Tokens /\ p.nonce \in Nat
  BY DEF CancelInv, TypeOK, MirrorTypeOK, WireTypeOK, OrderPacket
<1> QED
  BY <1>1, DeadStaysDead DEF CancelInv

(* No step revives a message whose cancellation is announced or applied.   *)
LEMMA CancelStep ==
  ASSUME CancelInv, TypeOK', [Next]_vars
  PROVE  CancelInv'
<1>1. \A p \in orders : Dead(p.m, p.t, p.nonce) => p \in orders' /\ Dead(p.m, p.t, p.nonce)'
  <2> SUFFICES ASSUME NEW p \in orders, Dead(p.m, p.t, p.nonce)
               PROVE  p \in orders' /\ Dead(p.m, p.t, p.nonce)'
    OBVIOUS
  <2>1. p \in orders'
    <3>1. CASE orders \subseteq orders'
      BY <3>1
    <3>2. CASE Carries
      BY <3>2 DEF Carries
    <3> QED
      BY <3>1, <3>2, KindsOfStep
         DEF CancelInv, Sends, ClosesAs, NoticeCancelled, ReceiveNotice, CancelStuckInbound
  <2> QED
    BY <2>1, KilledStaysKilled
<1>2. orders \subseteq OrderPacket /\ orders' \subseteq OrderPacket
      /\ requests \in [Mirrors -> [Ids -> Request]]
      /\ notices \subseteq Notice /\ notices' \subseteq Notice
  BY DEF CancelInv, TypeOK, MirrorTypeOK, WireTypeOK, RequestTypeOK
<1> DEFINE Announced(n) == \E p \in orders :
             /\ p.m = n.m /\ p.t = n.t /\ p.nonce = n.lzNonce
             /\ Dead(n.m, n.t, n.lzNonce)
           Applied(m, i) == \E p \in Holds(orders, m, i) :
             /\ p.t = TokenIn(requests[m][i].dir)
             /\ p.nonce = requests[m][i].lzNonce
             /\ Dead(m, p.t, p.nonce)
<1>3. \A n : Announced(n) => Announced(n)'
  <2> SUFFICES ASSUME NEW n, Announced(n)
               PROVE  Announced(n)'
    OBVIOUS
  <2>1. PICK p \in orders : /\ p.m = n.m /\ p.t = n.t /\ p.nonce = n.lzNonce
                           /\ Dead(p.m, p.t, p.nonce)
    OBVIOUS
  <2> QED
    BY <1>1, <2>1
<1>4. CancelledNeverExecutes' <=>
        /\ \A n \in notices' : n.status = "CANCELLED" => Announced(n)'
        /\ \A m \in Mirrors, i \in Ids :
             requests'[m][i].status = "CANCELLED" => Applied(m, i)'
  BY DEF CancelledNeverExecutes
<1>5. \A n \in notices : n.status = "CANCELLED" => Announced(n)
  BY DEF CancelInv, CancelledNeverExecutes
<1>6. ASSUME NEW m \in Mirrors, NEW i \in Ids, Applied(m, i),
             requests'[m][i].dir = requests[m][i].dir,
             requests'[m][i].lzNonce = requests[m][i].lzNonce
      PROVE  Applied(m, i)'
  <2>1. PICK p \in orders :
          /\ p.m = m /\ p.id = i /\ p.t = TokenIn(requests[m][i].dir)
          /\ p.nonce = requests[m][i].lzNonce /\ Dead(p.m, p.t, p.nonce)
    BY <1>6 DEF Holds
  <2> QED
    BY <1>1, <1>6, <2>1 DEF Holds
<1>7. \A m \in Mirrors, i \in Ids : requests[m][i].status = "CANCELLED" => Applied(m, i)
  BY DEF CancelInv, CancelledNeverExecutes
<1> HIDE DEF Announced, Applied
<1>8. CASE \E p : Sends(p)
  <2>1. PICK p : Sends(p)
    BY <1>8
  <2>2. NoncesTaken' /\ NonceNamesOrder'
    BY <2>1, SendsKeeps
  <2>3. \A m \in Mirrors, i \in Ids :
          requests'[m][i].status = "CANCELLED" => requests'[m][i] = requests[m][i]
    <3>1. CASE requests' = requests
      BY <3>1
    <3>2. ASSUME NEW r \in Request, r.status = "PENDING", p.m \in Mirrors, p.id \in Ids,
                 requests' = [requests EXCEPT ![p.m][p.id] = r]
          PROVE  \A m \in Mirrors, i \in Ids :
                   requests'[m][i].status = "CANCELLED" => requests'[m][i] = requests[m][i]
      <4> SUFFICES ASSUME NEW m \in Mirrors, NEW i \in Ids,
                          requests'[m][i].status = "CANCELLED"
                   PROVE  requests'[m][i] = requests[m][i]
        OBVIOUS
      <4>1. CASE m = p.m /\ i = p.id
        <5>1. requests'[m][i] = r
          BY <1>2, <3>2, <4>1
        <5> QED
          BY <3>2, <5>1
      <4>2. CASE m # p.m \/ i # p.id
        BY <1>2, <3>2, <4>2
      <4> QED
        BY <4>1, <4>2
    <3>3. p.m \in Mirrors
      BY <2>1 DEF Sends, OrderPacket
    <3> QED
      BY <2>1, <3>1, <3>2, <3>3 DEF Sends
  <2>4. CancelledNeverExecutes'
    BY <1>3, <1>4, <1>5, <1>6, <1>7, <2>1, <2>3 DEF Sends
  <2> QED
    BY <2>2, <2>4 DEF CancelInv
<1>9. ASSUME NEW m \in Mirrors, NEW i \in Ids, NEW r, ClosesAs(m, i, r)
      PROVE  CancelInv'
  <2>1. \A m1 \in Mirrors, i1 \in Ids :
          /\ requests'[m1][i1].dir = requests[m1][i1].dir
          /\ requests'[m1][i1].lzNonce = requests[m1][i1].lzNonce
          /\ requests'[m1][i1].status # "NONE" => requests[m1][i1].status # "NONE"
          /\ requests'[m1][i1].status = "CANCELLED" =>
               requests[m1][i1].status = "CANCELLED"
    BY <1>2, <1>9 DEF ClosesAs
  <2>2. NoncesTaken' /\ NonceNamesOrder'
    BY <1>9, <2>1, OthersKeep DEF ClosesAs
  <2>3. CancelledNeverExecutes'
    BY <1>3, <1>4, <1>5, <1>6, <1>7, <1>9, <2>1 DEF ClosesAs
  <2> QED
    BY <2>2, <2>3 DEF CancelInv
<1>10. ASSUME NEW n \in notices, NEW i \in Ids, NEW accepted \in TokenAccepts,
              NoticeCancelled(n, i, accepted)
       PROVE  CancelInv'
  <2>1. n.m \in Mirrors
    BY <1>2 DEF Notice
  <2>2. /\ requests' = [requests EXCEPT ![n.m][i].status = "CANCELLED"]
        /\ requests[n.m][i].status = "PENDING"
        /\ outNonce' = outNonce /\ orders' = orders /\ notices' \subseteq notices
    BY <1>10 DEF NoticeCancelled, ReceiveNotice, Concerned
  <2>3. \A m1 \in Mirrors, i1 \in Ids :
          /\ requests'[m1][i1].dir = requests[m1][i1].dir
          /\ requests'[m1][i1].lzNonce = requests[m1][i1].lzNonce
          /\ requests'[m1][i1].status # "NONE" => requests[m1][i1].status # "NONE"
          /\ requests'[m1][i1].status = "CANCELLED" =>
               requests[m1][i1].status = "CANCELLED" \/ (m1 = n.m /\ i1 = i)
    BY <1>2, <2>1, <2>2 DEF Request
  <2>4. NoncesTaken' /\ NonceNamesOrder'
    BY <2>2, <2>3, OthersKeep
  <2>5. Applied(n.m, i)
    BY <1>10, RestoredIsDead DEF Applied
  <2>6. CancelledNeverExecutes'
    BY <1>3, <1>4, <1>5, <1>6, <1>7, <2>1, <2>2, <2>3, <2>5
  <2> QED
    BY <2>4, <2>6 DEF CancelInv
<1>11. ASSUME NEW p \in orders, NEW h \in BOOLEAN, CancelStuckInbound(p, h),
              requests' = requests
       PROVE  CancelInv'
  <2>1. /\ p.m \in Mirrors /\ p.t \in Tokens /\ p.nonce \in Nat
        /\ lazy \in [Mirrors -> [Tokens -> Nat]]
        /\ verified \in [Mirrors -> [Tokens -> SUBSET Nat]]
    BY <1>2 DEF OrderPacket, CancelInv, TypeOK, HomeTypeOK, EndpointTypeOK
  <2>2. requests' = requests
    BY <1>11
  <2>3. outNonce' = outNonce /\ orders' = orders
    BY <1>11 DEF CancelStuckInbound
  <2>4. Dead(p.m, p.t, p.nonce)'
    BY <1>11, <2>1 DEF CancelStuckInbound, Skippable, Verifiable, Dead
  <2>5. \A n \in notices' :
          n \in notices \/ (n.m = p.m /\ n.t = p.t /\ n.lzNonce = p.nonce)
    BY <1>11 DEF CancelStuckInbound, SendNotice
  <2>6. \A n \in notices' : n.status = "CANCELLED" => Announced(n)'
    BY <1>3, <1>5, <2>3, <2>4, <2>5 DEF Announced
  <2>7. NoncesTaken' /\ NonceNamesOrder'
    BY <2>2, <2>3, OthersKeep
  <2>8. CancelledNeverExecutes'
    BY <1>4, <1>6, <1>7, <2>2, <2>6
  <2> QED
    BY <2>7, <2>8 DEF CancelInv
<1>12. CASE Carries
  <2>1. /\ requests' = requests /\ outNonce' = outNonce /\ orders' \subseteq orders
        /\ \A n \in notices' : n \in notices \/ n.status = "STRANDED"
    BY <1>12 DEF Carries
  <2>2. NoncesTaken' /\ NonceNamesOrder'
    BY <2>1, OthersKeep
  <2>3. CancelledNeverExecutes'
    BY <1>3, <1>4, <1>5, <1>6, <1>7, <2>1
  <2> QED
    BY <2>2, <2>3 DEF CancelInv
<1> QED
  BY <1>8, <1>9, <1>10, <1>11, <1>12, KindsOfStep DEF CancelInv

(* The invariant holds in every reachable state.                           *)
LEMMA CancelInvariant == Spec => []CancelInv
<1>1. Init => CancelInv
  <2> SUFFICES ASSUME Init
               PROVE  CancelInv
    OBVIOUS
  <2>1. orders = {} /\ notices = {}
        /\ \A m \in Mirrors, i \in Ids : requests[m][i].status = "NONE"
    BY DEF Init, MirrorInit, WireInit, RequestInit, EmptyRequest
  <2> QED
    BY <2>1, InitType DEF CancelInv, NoncesTaken, NonceNamesOrder, CancelledNeverExecutes
<1>2. CancelInv /\ TypeOK' /\ [Next]_vars => CancelInv'
  BY CancelStep
<1> QED
  BY <1>1, <1>2, TypeCorrect, PTL DEF Spec

(***************************************************************************)
(* Restoring an input never pays it twice: in every reachable state, for   *)
(* every value of the constants, a message whose cancellation is announced *)
(* or applied is unexecuted and can never be executed.                     *)
(***************************************************************************)
THEOREM KilledBeforeRestored == Spec => []CancelledNeverExecutes
<1>1. CancelInv => CancelledNeverExecutes
  BY DEF CancelInv
<1> QED
  BY <1>1, CancelInvariant, PTL

(***************************************************************************)
(* A path and a nonce lead to the order they were given to, for every      *)
(* value of the constants: a cancellation closes no other request.         *)
(***************************************************************************)
THEOREM NonceLeadsToOrder == Spec => []NonceNamesOrder
<1>1. CancelInv => NonceNamesOrder
  BY DEF CancelInv
<1> QED
  BY <1>1, CancelInvariant, PTL

-----------------------------------------------------------------------------
(***************************************************************************)
(* What an order's amounts are worth after the decimals of two chains: a   *)
(* filled request got at least its floor, and what the relay holds as      *)
(* stranded can always cross.                                              *)
(*                                                                         *)
(* The floor is followed along its way: rounded up onto the wire, carried  *)
(* by the order's packet, raised to local units for the venue, and met in  *)
(* whole units by the settlement.  Beside it, no order of less than a unit *)
(* is ever under way.                                                      *)
(***************************************************************************)

(* The floor of a request, as it crosses.                                  *)
OrderFloor(m, i) ==
  FloorToShared(requests[m][i].minAmountOut,
                MirrorQuantum[m][TokenOut(requests[m][i].dir)])

(* Packet p of an order asks for what its request says.                    *)
CarriesFloor(p) ==
  /\ p.id < nextRequestId[p.m]
  /\ p.t = TokenIn(requests[p.m][p.id].dir)
  /\ p.min = OrderFloor(p.m, p.id)

(* Settlement p of a fill brings what its request asked for.               *)
MeetsFloor(p) ==
  /\ p.id < nextRequestId[p.m]
  /\ p.t = TokenOut(requests[p.m][p.id].dir)
  /\ p.sd > 0
  /\ p.sd >= OrderFloor(p.m, p.id)

FloorsCarried ==
  /\ \A p \in orders \cup queue : p.sd > 0 /\ (p.id # 0 => CarriesFloor(p))
  /\ \A p \in returns \cup composing : p.status = "FILLED" => MeetsFloor(p)

AmountInv ==
  /\ TypeOK
  /\ FloorsCarried
  /\ FloorHonoured
  /\ StrandsCanCross

-----------------------------------------------------------------------------
(* Arithmetic.                                                             *)

(* One unit is worth a quantum.                                            *)
LEMMA UnitWorth ==
  ASSUME NEW s \in Nat, s > 0, NEW q \in Nat \ {0}
  PROVE  s * q >= q
<1>1. 1 * q <= s * q
  BY ProductOrder
<1> QED
  BY <1>1

(* A floor rounded up is worth the floor.                                  *)
LEMMA FloorCovers ==
  ASSUME NEW x \in Nat, NEW q \in Nat \ {0}
  PROVE  x <= ToLocal(FloorToShared(x, q), q)
<1> DEFINE d == x \div q
<1>1. /\ x = (q * d) + (x % q) /\ d \in Nat /\ x % q \in 0..(q - 1)
  BY DivBelow
<1> HIDE DEF d
<1>2. CASE x % q = 0
  BY <1>1, <1>2 DEF FloorToShared, ToLocal, d
<1>3. CASE x % q # 0
  <2>1. (d + 1) * q = (q * d) + q
    BY <1>1
  <2>2. FloorToShared(x, q) = d + 1
    BY <1>3 DEF FloorToShared, d
  <2>3. x <= (q * d) + q
    BY <1>1, ProductNat
  <2> QED
    BY <2>1, <2>2, <2>3 DEF ToLocal
<1> QED
  BY <1>2, <1>3

(* What meets the floor at this venue: none of its outputs is saturated.   *)
LEMMA VenueMet ==
  ASSUME NEW out \in PoolOutputs, NEW min \in Nat, NEW q \in Nat \ {0},
         out >= VenueFloor(min, q, MaxUint)
  PROVE  out >= q /\ out \div q >= min
<1>1. out \in Nat /\ MaxUint \in Nat /\ out < MaxUint
  BY RelayAssumption, PoolAssumption
<1> QED
  BY <1>1, FloorMet

-----------------------------------------------------------------------------
(***************************************************************************)
(* What a step may do to the amounts: everything that was under way or     *)
(* recorded stays as it was, or is new and has what AmountInv asks.  What  *)
(* an accepted request asked for stays.                                    *)
(***************************************************************************)
TermsStay ==
  \A m \in Mirrors :
    /\ nextRequestId[m] <= nextRequestId'[m]
    /\ \A i \in Ids : i < nextRequestId[m] =>
         /\ requests'[m][i].dir = requests[m][i].dir
         /\ requests'[m][i].minAmountOut = requests[m][i].minAmountOut

OrdersKeep ==
  \A p \in orders' \cup queue' :
    \/ p \in orders \cup queue
    \/ p.sd > 0 /\ (p.id # 0 => CarriesFloor(p)')

ReturnsKeep ==
  \A p \in returns' \cup composing' :
    \/ p \in returns \cup composing
    \/ p.status = "FILLED" => MeetsFloor(p)'

StrandsKeep ==
  \A m \in Mirrors, i \in Ids :
    \/ stranded'[m][i] = stranded[m][i]
    \/ stranded'[m][i].amount = 0
    \/ stranded'[m][i].amount >= HomeQuantum[stranded'[m][i].token]

FillsKeep ==
  \A m \in Mirrors, i \in Ids : requests'[m][i].status = "FILLED" =>
    \/ requests'[m][i] = requests[m][i]
    \/ /\ requests'[m][i].amountOut >= requests'[m][i].minAmountOut
       /\ requests'[m][i].amountOut > 0

Keeps == TermsStay /\ OrdersKeep /\ ReturnsKeep /\ StrandsKeep /\ FillsKeep

(* A step of that kind keeps the invariant.                                *)
LEMMA KeepsInv ==
  ASSUME AmountInv, TypeOK', Keeps
  PROVE  AmountInv'
<1>1. /\ orders \cup queue \subseteq OrderPacket
      /\ returns \cup composing \subseteq ReturnPacket
      /\ nextRequestId \in [Mirrors -> Nat \ {0}]
      /\ nextRequestId' \in [Mirrors -> Nat \ {0}]
  BY DEF AmountInv, TypeOK, MirrorTypeOK, WireTypeOK, RequestTypeOK, HomeTypeOK,
         EndpointTypeOK
<1>2. ASSUME NEW m \in Mirrors, NEW i \in Ids, i < nextRequestId[m]
      PROVE  /\ i < nextRequestId'[m]
             /\ requests'[m][i].dir = requests[m][i].dir
             /\ OrderFloor(m, i)' = OrderFloor(m, i)
  <2>1. /\ nextRequestId[m] <= nextRequestId'[m]
        /\ requests'[m][i].dir = requests[m][i].dir
        /\ requests'[m][i].minAmountOut = requests[m][i].minAmountOut
    BY <1>2 DEF Keeps, TermsStay
  <2>2. nextRequestId[m] \in Nat /\ nextRequestId'[m] \in Nat /\ i \in Nat
    BY <1>1 DEF Ids
  <2> QED
    BY <1>2, <2>1, <2>2 DEF OrderFloor
<1>3. ASSUME NEW p \in orders \cup queue, p.id # 0
      PROVE  CarriesFloor(p)'
  <2>1. p.m \in Mirrors /\ p.id \in Ids
    BY <1>1, <1>3 DEF OrderPacket
  <2>2. CarriesFloor(p)
    BY <1>3 DEF AmountInv, FloorsCarried
  <2> QED
    BY <1>2, <2>1, <2>2 DEF CarriesFloor
<1>4. ASSUME NEW p \in returns \cup composing, p.status = "FILLED"
      PROVE  MeetsFloor(p)'
  <2>1. p.m \in Mirrors /\ p.id \in Ids
    BY <1>1 DEF ReturnPacket
  <2>2. MeetsFloor(p)
    BY <1>4 DEF AmountInv, FloorsCarried
  <2> QED
    BY <1>2, <2>1, <2>2 DEF MeetsFloor
<1>5. FloorsCarried'
  <2>1. \A p \in orders' \cup queue' : p.sd > 0 /\ (p.id # 0 => CarriesFloor(p)')
    BY <1>3 DEF Keeps, OrdersKeep, AmountInv, FloorsCarried
  <2>2. \A p \in returns' \cup composing' : p.status = "FILLED" => MeetsFloor(p)'
    BY <1>4 DEF Keeps, ReturnsKeep
  <2> QED
    BY <2>1, <2>2 DEF FloorsCarried
<1>6. StrandsCanCross'
  <2> SUFFICES ASSUME NEW m \in Mirrors, NEW i \in Ids, stranded'[m][i].amount > 0
               PROVE  stranded'[m][i].amount >= HomeQuantum[stranded'[m][i].token]
    BY DEF StrandsCanCross
  <2> QED
    BY DEF Keeps, StrandsKeep, AmountInv, StrandsCanCross
<1>7. FloorHonoured'
  BY DEF Keeps, FillsKeep, AmountInv, FloorHonoured
<1> QED
  BY <1>5, <1>6, <1>7 DEF AmountInv

(* Requests left alone keep their terms and their fills.                   *)
LEMMA RequestsKeep ==
  ASSUME TypeOK, UNCHANGED <<requests, nextRequestId>>
  PROVE  TermsStay /\ FillsKeep
<1>1. nextRequestId \in [Mirrors -> Nat \ {0}]
  BY DEF TypeOK, MirrorTypeOK, RequestTypeOK
<1>2. TermsStay
  BY <1>1 DEF TermsStay
<1> QED
  BY <1>2 DEF FillsKeep

(* A step that changes no request and creates nothing.                     *)
LEMMA NothingNewKeeps ==
  ASSUME TypeOK, UNCHANGED <<requests, nextRequestId>>,
         orders' \cup queue' \subseteq orders \cup queue,
         returns' \cup composing' \subseteq returns \cup composing,
         StrandsKeep
  PROVE  Keeps
BY RequestsKeep DEF Keeps, OrdersKeep, ReturnsKeep

-----------------------------------------------------------------------------
(* The mirrors.                                                            *)

(* A plain transfer brings at least a unit; a settlement arrives as it was.*)
LEMMA BridgingKeeps ==
  ASSUME TypeOK, Bridging, UNCHANGED homeVars
  PROVE  Keeps
<1>1. UNCHANGED <<requests, nextRequestId, queue, stranded>>
  BY DEF Bridging, requestVars, homeVars, endpointVars, relayVars
<1>2. StrandsKeep
  BY <1>1 DEF StrandsKeep
<1>3. ASSUME NEW m \in Mirrors, NEW t \in Tokens, NEW u \in Users,
             NEW sd \in DirectAmounts, DirectSend(m, t, u, sd)
      PROVE  Keeps
  <2>1. /\ sd > 0
        /\ orders' = orders \cup
             {[m |-> m, t |-> t, nonce |-> outNonce[m][t] + 1, id |-> 0,
               user |-> u, sd |-> sd, min |-> 0]}
        /\ UNCHANGED <<returns, composing>>
    BY <1>3 DEF DirectSend, SendOrder
  <2>2. OrdersKeep
    BY <1>1, <2>1 DEF OrdersKeep
  <2> QED
    BY <1>1, <1>2, <2>1, <2>2, RequestsKeep DEF Keeps, ReturnsKeep
<1>4. ASSUME NEW p \in returns, ReceiveReturn(p)
      PROVE  Keeps
  <2>1. /\ returns' = returns \ {p} /\ composing' = composing \cup {p}
        /\ orders' = orders
    BY <1>4 DEF ReceiveReturn
  <2> QED
    BY <1>1, <1>2, <2>1, NothingNewKeeps
<1> QED
  BY <1>3, <1>4 DEF Bridging

(* An accepted order carries its floor, and a whole unit at least.         *)
LEMMA SubmitKeeps ==
  ASSUME TypeOK, TypeOK', NEW m \in Mirrors, NEW trade \in TradeType,
         NEW partner \in PartnerIds \cup {0}, NEW bps \in Nat, NEW recipient,
         Submit(m, trade, partner, bps, recipient), UNCHANGED homeVars
  PROVE  Keeps
<1> DEFINE id == nextRequestId[m]
           t == TokenIn(trade.dir)
           q == MirrorQuantum[m][t]
           min == FloorToShared(trade.min, MirrorQuantum[m][TokenOut(trade.dir)])
           escrow == [partner |-> partner, state |-> "ESCROWED",
                      partnerRecipient |-> recipient,
                      platformRecipient |-> platformFee[m].recipient,
                      partnerFee |-> FeeOf(trade.gross, bps, FeeUnit),
                      platformFee |-> FeeOf(trade.gross, platformFee[m].bps, FeeUnit)]
           net  == trade.gross - EscrowTotal(escrow)
           sent == RemoveDust(net, q)
           sd   == ToShared(net, q)
           r    == NewRequest(trade, sent, outNonce[m][t] + 1)
<1>1. UNCHANGED <<queue, stranded>>
  BY DEF homeVars, endpointVars, relayVars
<1>2. /\ id \in Ids /\ sent > 0
      /\ requests' = [requests EXCEPT ![m][id] = r]
      /\ nextRequestId' = [nextRequestId EXCEPT ![m] = @ + 1]
      /\ UNCHANGED <<returns, composing>>
  BY DEF Submit
<1>3. PICK p : /\ orders' = orders \cup {p}
               /\ p.m = m /\ p.t = t /\ p.id = id /\ p.sd = sd /\ p.min = min
  <2> DEFINE o == [m |-> m, t |-> t, nonce |-> outNonce[m][t] + 1, id |-> id,
                   user |-> trade.user, sd |-> sd, min |-> min]
  <2>1. orders' = orders \cup {o}
    BY DEF Submit, SendOrder
  <2>2. o.m = m /\ o.t = t /\ o.id = id /\ o.sd = sd /\ o.min = min
    OBVIOUS
  <2> HIDE DEF o
  <2> QED
    BY <2>1, <2>2
<1>4. r.dir = trade.dir /\ r.minAmountOut = trade.min /\ r.status = "PENDING"
  BY DEF NewRequest
<1>5. p \in OrderPacket
  BY <1>3 DEF TypeOK, MirrorTypeOK, WireTypeOK
<1>6. sd > 0
  <2>1. sent = sd * q
    BY DEF RemoveDust, ToLocal
  <2>2. sd \in Nat
    BY <1>3, <1>5 DEF OrderPacket
  <2>3. q \in Nat
    <3>1. t \in Tokens
      BY DEF TradeType, TokenIn, Tokens
    <3> QED
      BY <3>1, WireAssumption
  <2> HIDE DEF sd, q, sent
  <2>4. CASE sd = 0
    BY <1>2, <2>1, <2>3, <2>4
  <2> QED
    BY <2>2, <2>4
<1> HIDE DEF escrow, net, sent, sd, q, r, min
<1>7. /\ requests \in [Mirrors -> [Ids -> Request]]
      /\ nextRequestId \in [Mirrors -> Nat \ {0}]
  BY DEF TypeOK, MirrorTypeOK, RequestTypeOK
<1>8. requests'[m][id] = r /\ nextRequestId'[m] = id + 1 /\ id \in Nat
  BY <1>2, <1>7
<1> HIDE DEF id
<1>9. \A m1 \in Mirrors, i \in Ids :
         requests'[m1][i] = requests[m1][i] \/ (m1 = m /\ i = id)
  BY <1>2, <1>7
<1>10. TermsStay
  <2>1. \A m1 \in Mirrors : nextRequestId[m1] <= nextRequestId'[m1]
    BY <1>2, <1>7
  <2>2. ASSUME NEW m1 \in Mirrors, NEW i \in Ids, i < nextRequestId[m1]
        PROVE  requests'[m1][i] = requests[m1][i]
    <3>1. ~(m1 = m /\ i = id)
      BY <1>8, <2>2 DEF id
    <3> QED
      BY <1>9, <3>1
  <2> QED
    BY <2>1, <2>2 DEF TermsStay
<1>11. CarriesFloor(p)'
  <2>1. /\ requests'[p.m][p.id].dir = trade.dir
        /\ requests'[p.m][p.id].minAmountOut = trade.min
    BY <1>3, <1>4, <1>8
  <2>2. p.id < nextRequestId'[p.m]
    BY <1>3, <1>8
  <2>3. p.min = OrderFloor(p.m, p.id)'
    BY <1>3, <2>1 DEF OrderFloor, min
  <2> QED
    BY <1>3, <2>1, <2>2, <2>3 DEF CarriesFloor, t
<1>12. OrdersKeep
  BY <1>1, <1>3, <1>6, <1>11 DEF OrdersKeep
<1>13. FillsKeep
  BY <1>4, <1>8, <1>9 DEF FillsKeep
<1> QED
  BY <1>1, <1>2, <1>10, <1>12, <1>13 DEF Keeps, ReturnsKeep, StrandsKeep

(* buy, sell, buyVia and sellVia.                                          *)
LEMMA OrderingKeeps ==
  ASSUME TypeOK, TypeOK', Ordering, UNCHANGED homeVars
  PROVE  Keeps
<1>1. ASSUME NEW m \in Mirrors, NEW trade \in Trades, SubmitOpen(m, trade)
      PROVE  Keeps
  <2>1. Submit(m, trade, 0, 0, NoUser) /\ trade \in TradeType
    BY <1>1, RequestAssumption DEF SubmitOpen
  <2> QED
    BY <2>1, SubmitKeeps
<1>2. ASSUME NEW auth \in Authorizations, SubmitVia(auth)
      PROVE  Keeps
  <2>1. /\ auth.m \in Mirrors /\ auth.trade \in TradeType
        /\ auth.partner \in PartnerIds /\ auth.feeBps \in Nat
    BY RequestAssumption DEF AuthorizationType
  <2>2. Submit(auth.m, auth.trade, auth.partner, auth.feeBps,
               partners[auth.m][auth.partner].recipient)
    BY <1>2 DEF SubmitVia
  <2> QED
    BY <2>1, <2>2, SubmitKeeps
<1> QED
  BY <1>1, <1>2 DEF Ordering

(***************************************************************************)
(* A fill pays what its packet brings, which is worth the floor: the       *)
(* packet meets the floor in units, and the units cover the floor.         *)
(***************************************************************************)
LEMMA FillPays ==
  ASSUME AmountInv, NEW p \in composing, ComposeFill(p)
  PROVE  FillsKeep
<1> DEFINE old  == requests[p.m][p.id]
           q    == MirrorQuantum[p.m][p.t]
           paid == ToLocal(p.sd, q)
           r    == [old EXCEPT !.status = "FILLED", !.amountOut = paid]
<1>1. p.m \in Mirrors /\ p.id \in Ids /\ p.t \in Tokens /\ p.sd \in Nat
  BY DEF AmountInv, TypeOK, MirrorTypeOK, WireTypeOK, ReturnPacket
<1>2. requests \in [Mirrors -> [Ids -> Request]] /\ old \in Request
  BY <1>1 DEF AmountInv, TypeOK, MirrorTypeOK, RequestTypeOK
<1>3. old.minAmountOut \in Nat /\ q \in Nat \ {0}
  BY <1>1, <1>2, WireAssumption DEF Request
<1>4. requests' = [requests EXCEPT ![p.m][p.id] = r] /\ p.status = "FILLED"
  BY DEF ComposeFill
<1>5. r.amountOut = paid /\ r.minAmountOut = old.minAmountOut
  BY <1>2 DEF Request
<1>6. p.sd > 0 /\ p.sd >= FloorToShared(old.minAmountOut, q)
  BY <1>4 DEF AmountInv, FloorsCarried, MeetsFloor, OrderFloor
<1> HIDE DEF old, q, r
<1>7. paid >= old.minAmountOut
  <2> DEFINE floor == FloorToShared(old.minAmountOut, q)
  <2>1. floor \in Nat
    BY <1>3, AmountTypes
  <2>2. old.minAmountOut <= floor * q
    BY <1>3, FloorCovers DEF ToLocal
  <2> HIDE DEF floor
  <2>3. floor * q <= p.sd * q
    BY <1>1, <1>3, <1>6, <2>1, ProductOrder DEF floor
  <2>4. floor * q \in Nat /\ p.sd * q \in Nat
    BY <1>1, <1>3, <2>1, ProductNat
  <2> QED
    BY <1>3, <2>2, <2>3, <2>4 DEF ToLocal
<1>8. paid > 0
  BY <1>1, <1>3, <1>6, UnitWorth, ProductNat DEF ToLocal
<1> HIDE DEF paid
<1>9. ASSUME NEW m \in Mirrors, NEW i \in Ids
      PROVE  \/ requests'[m][i] = requests[m][i]
             \/ requests'[m][i] = r
  BY <1>1, <1>2, <1>4
<1> QED
  BY <1>5, <1>7, <1>8, <1>9 DEF FillsKeep

(* A request closed otherwise than by a fill keeps its terms.              *)
LEMMA ClosingKeeps ==
  ASSUME TypeOK, NEW m \in Mirrors, NEW i \in Ids, NEW status,
         status # "FILLED",
         requests' = [requests EXCEPT ![m][i].status = status]
  PROVE  FillsKeep
<1> DEFINE old == requests[m][i]
           r   == [old EXCEPT !.status = status]
<1>1. requests \in [Mirrors -> [Ids -> Request]] /\ old \in Request
  BY DEF TypeOK, MirrorTypeOK, RequestTypeOK
<1>2. requests' = [requests EXCEPT ![m][i] = r] /\ r.status = status
  BY <1>1 DEF Request
<1> HIDE DEF r
<1>3. ASSUME NEW m1 \in Mirrors, NEW i1 \in Ids
      PROVE  requests'[m1][i1] = requests[m1][i1] \/ requests'[m1][i1] = r
  BY <1>1, <1>2
<1> QED
  BY <1>2, <1>3 DEF FillsKeep

(* A settlement or a notice changes no terms, and no packet is new.        *)
LEMMA SettlingKeeps ==
  ASSUME AmountInv, Settling, UNCHANGED homeVars
  PROVE  Keeps
<1>1. /\ UNCHANGED <<queue, stranded, orders, returns, nextRequestId>>
      /\ composing' \subseteq composing
  <2>1. UNCHANGED <<queue, stranded>>
    BY DEF homeVars, endpointVars, relayVars
  <2>2. ASSUME NEW p \in composing, Settle(p)
        PROVE  Compose(p)
    BY <2>2 DEF Settle, ComposeFill, ComposeRefund, ComposeLate
  <2>3. ASSUME NEW n \in notices, HearNotice(n)
        PROVE  ReceiveNotice(n)
    BY <2>3 DEF HearNotice, NoticeStranded, NoticeCancelled, NoticeIgnored
  <2> QED
    BY <2>1, <2>2, <2>3 DEF Settling, Compose, ReceiveNotice
<1>2. OrdersKeep /\ ReturnsKeep /\ StrandsKeep
  BY <1>1 DEF OrdersKeep, ReturnsKeep, StrandsKeep
<1>3. /\ requests \in [Mirrors -> [Ids -> Request]]
      /\ nextRequestId \in [Mirrors -> Nat \ {0}]
      /\ composing \subseteq ReturnPacket /\ notices \subseteq Notice
  BY DEF AmountInv, TypeOK, MirrorTypeOK, WireTypeOK, RequestTypeOK
<1>4. ASSUME \A m \in Mirrors, i \in Ids :
               /\ requests'[m][i].dir = requests[m][i].dir
               /\ requests'[m][i].minAmountOut = requests[m][i].minAmountOut,
             FillsKeep
      PROVE  Keeps
  <2>1. TermsStay
    BY <1>1, <1>3, <1>4 DEF TermsStay
  <2> QED
    BY <1>2, <1>4, <2>1 DEF Keeps
<1>5. ASSUME NEW m \in Mirrors, NEW i \in Ids, NEW status, status # "FILLED",
             requests' = [requests EXCEPT ![m][i].status = status]
      PROVE  Keeps
  <2>1. \A m1 \in Mirrors, i1 \in Ids :
          /\ requests'[m1][i1].dir = requests[m1][i1].dir
          /\ requests'[m1][i1].minAmountOut = requests[m1][i1].minAmountOut
    BY <1>3, <1>5 DEF Request
  <2>2. FillsKeep
    BY <1>5, ClosingKeeps DEF AmountInv
  <2> QED
    BY <1>4, <2>1, <2>2
<1>6. CASE requests' = requests
  BY <1>4, <1>6 DEF FillsKeep
<1>7. ASSUME NEW p \in composing, Settle(p)
      PROVE  Keeps
  <2>1. p.m \in Mirrors /\ p.id \in Ids
    BY <1>3 DEF ReturnPacket
  <2>2. CASE ComposeFill(p)
    <3> DEFINE old  == requests[p.m][p.id]
               paid == ToLocal(p.sd, MirrorQuantum[p.m][p.t])
               r    == [old EXCEPT !.status = "FILLED", !.amountOut = paid]
    <3>1. requests' = [requests EXCEPT ![p.m][p.id] = r]
      BY <2>2 DEF ComposeFill
    <3>2. r.dir = old.dir /\ r.minAmountOut = old.minAmountOut
      BY <1>3, <2>1 DEF Request
    <3> HIDE DEF r
    <3>3. \A m1 \in Mirrors, i1 \in Ids :
            /\ requests'[m1][i1].dir = requests[m1][i1].dir
            /\ requests'[m1][i1].minAmountOut = requests[m1][i1].minAmountOut
      BY <1>3, <2>1, <3>1, <3>2
    <3> QED
      BY <1>4, <2>2, <3>3, FillPays
  <2>3. ASSUME NEW accepted, ComposeRefund(p, accepted)
        PROVE  Keeps
    BY <1>5, <2>1, <2>3 DEF ComposeRefund
  <2>4. CASE ComposeLate(p)
    BY <1>6, <2>4 DEF ComposeLate
  <2> QED
    BY <1>7, <2>2, <2>3, <2>4 DEF Settle
<1>8. ASSUME NEW n \in notices, HearNotice(n)
      PROVE  Keeps
  <2>1. n.m \in Mirrors
    BY <1>3 DEF Notice
  <2>2. ASSUME NEW i \in Ids, NEW accepted, NoticeStranded(n, i, accepted)
        PROVE  Keeps
    BY <1>5, <2>1, <2>2 DEF NoticeStranded
  <2>3. ASSUME NEW i \in Ids, NEW accepted, NoticeCancelled(n, i, accepted)
        PROVE  Keeps
    BY <1>5, <2>1, <2>3 DEF NoticeCancelled
  <2>4. CASE NoticeIgnored(n)
    BY <1>6, <2>4 DEF NoticeIgnored
  <2> QED
    BY <1>8, <2>2, <2>3, <2>4 DEF HearNotice
<1> QED
  BY <1>7, <1>8 DEF Settling

(* Fees and the owner's calls touch no order.                              *)
LEMMA AdministeringKeeps ==
  ASSUME TypeOK, Administering, UNCHANGED homeVars
  PROVE  Keeps
<1>1. UNCHANGED <<queue, stranded>>
  BY DEF homeVars, endpointVars, relayVars
<1>2. UNCHANGED <<requests, nextRequestId, orders, returns, composing>>
  BY DEF Administering, ClaimFees, SetPartner, SetPartnerRequired, SetPlatformFee,
         InvalidateNonce, Sweep, SendStray, wireVars, ledgerVars, requestVars
<1> QED
  BY <1>1, <1>2, NothingNewKeeps DEF StrandsKeep

-----------------------------------------------------------------------------
(* The home chain.                                                         *)

(***************************************************************************)
(* The return leg of an amount worth a unit at least: a fill that is sent  *)
(* meets its floor if its units do, and what strands can cross.            *)
(***************************************************************************)
LEMMA ReturnKeeps ==
  ASSUME TypeOK, UNCHANGED <<requests, nextRequestId, orders, composing>>,
         queue' \subseteq queue,
         NEW r, r.m \in Mirrors, r.id \in Ids, r.t \in Tokens, r.amount \in Nat,
         r.amount >= HomeQuantum[r.t],
         r.status = "FILLED" =>
           /\ r.id < nextRequestId[r.m]
           /\ r.t = TokenOut(requests[r.m][r.id].dir)
           /\ r.amount \div HomeQuantum[r.t] >= OrderFloor(r.m, r.id),
         NEW held, NEW owed \in [Mirrors -> [Ids -> Stranded]], NEW funds,
         \A m \in Mirrors, i \in Ids :
           owed[m][i] = stranded[m][i] \/ owed[m][i].amount = 0,
         \/ \E price : ReturnSent(r, price, held, owed, funds)
         \/ \E price, notice : ReturnStranded(r, price, notice, held, owed, funds)
  PROVE  Keeps
<1> DEFINE q == HomeQuantum[r.t]
<1>1. q \in Nat \ {0}
  BY HomeAssumption
<1>2. TermsStay /\ FillsKeep
  BY RequestsKeep
<1>3. OrdersKeep
  BY DEF OrdersKeep
<1>4. ASSUME NEW price, ReturnSent(r, price, held, owed, funds)
      PROVE  Keeps
  <2>1. stranded' = owed
    BY <1>4 DEF ReturnSent
  <2>2. PICK p : /\ returns' = returns \cup {p}
                 /\ p.m = r.m /\ p.t = r.t /\ p.id = r.id /\ p.status = r.status
                 /\ p.sd = r.amount \div q
    <3> DEFINE o == [m |-> r.m, t |-> r.t, nonce |-> backNonce[r.m][r.t] + 1,
                     id |-> r.id, sd |-> r.amount \div q, status |-> r.status]
    <3>1. returns' = returns \cup {o}
      BY <1>4 DEF ReturnSent, SendReturn, ToShared
    <3>2. /\ o.m = r.m /\ o.t = r.t /\ o.id = r.id /\ o.status = r.status
          /\ o.sd = r.amount \div q
      OBVIOUS
    <3> HIDE DEF o
    <3> QED
      BY <3>1, <3>2
  <2>3. p.sd > 0
    <3>1. 1 * q <= r.amount
      BY <1>1
    <3>2. 1 <= r.amount \div q /\ r.amount \div q \in Nat
      BY <1>1, <3>1, UnitsKept, DivBelow
    <3> QED
      BY <2>2, <3>2
  <2>4. p.status = "FILLED" => MeetsFloor(p)
    BY <2>2, <2>3 DEF MeetsFloor
  <2>5. p.status = "FILLED" => MeetsFloor(p)'
    BY <2>4 DEF MeetsFloor, OrderFloor
  <2>6. ReturnsKeep
    BY <2>2, <2>5 DEF ReturnsKeep
  <2>7. StrandsKeep
    BY <2>1 DEF StrandsKeep
  <2> QED
    BY <1>2, <1>3, <2>6, <2>7 DEF Keeps
<1>5. ASSUME NEW price, NEW notice, ReturnStranded(r, price, notice, held, owed, funds)
      PROVE  Keeps
  <2> DEFINE old  == owed[r.m][r.id]
             sum  == old.amount + r.amount
             debt == [amount |-> sum, token |-> r.t,
                      beneficiary |-> IF r.user # NoUser THEN r.user ELSE old.beneficiary]
  <2>1. /\ stranded' = [owed EXCEPT ![r.m][r.id] = debt]
        /\ returns' = returns
    BY <1>5 DEF ReturnStranded
  <2>2. old.amount \in Nat
    BY DEF Stranded
  <2>3. sum >= q
    BY <1>1, <2>2
  <2>4. debt.amount = sum /\ debt.token = r.t
    OBVIOUS
  <2> HIDE DEF debt, sum
  <2>5. ASSUME NEW m \in Mirrors, NEW i \in Ids
        PROVE  stranded'[m][i] = owed[m][i] \/ stranded'[m][i] = debt
    BY <2>1
  <2>6. StrandsKeep
    BY <2>3, <2>4, <2>5 DEF StrandsKeep
  <2> QED
    BY <1>2, <1>3, <2>1, <2>6 DEF Keeps, ReturnsKeep
<1> QED
  BY <1>4, <1>5

(* An order's input is a unit at least, and what the venue gave met the    *)
(* floor its packet carried.                                               *)
LEMMA ExecuteKeeps ==
  ASSUME AmountInv, NEW p \in queue, ExecuteOrder(p), UNCHANGED requestVars
  PROVE  Keeps
<1>1. /\ p.m \in Mirrors /\ p.t \in Tokens /\ p.id \in Ids /\ p.id # 0
      /\ p.sd \in Nat /\ p.min \in Nat
  BY DEF AmountInv, TypeOK, HomeTypeOK, EndpointTypeOK, OrderPacket
<1>2. p.sd > 0 /\ CarriesFloor(p)
  BY <1>1 DEF AmountInv, FloorsCarried
<1>3. stranded \in [Mirrors -> [Ids -> Stranded]]
  BY DEF AmountInv, TypeOK, HomeTypeOK, RelayTypeOK
<1>4. /\ UNCHANGED <<requests, nextRequestId, orders, composing>>
      /\ queue' \subseteq queue
  BY DEF ExecuteOrder, FillOrder, RejectOrder, Handed, requestVars
<1>5. TypeOK
  BY DEF AmountInv
<1>6. ASSUME NEW out \in PoolOutputs, FillOrder(p, out)
      PROVE  Keeps
  <2> DEFINE tOut == OtherToken(p.t)
             q    == HomeQuantum[tOut]
  <2>1. tOut \in Tokens /\ out \in Nat
    BY RelayAssumption DEF OtherToken, Tokens
  <2>2. q \in Nat \ {0}
    BY <2>1, HomeAssumption
  <2>3. out >= VenueFloor(p.min, q, MaxUint)
    BY <1>6 DEF FillOrder, FloorOf
  <2>4. tOut = TokenOut(requests[p.m][p.id].dir)
    BY <1>2 DEF CarriesFloor, TokenIn, TokenOut, OtherToken
  <2>5. out >= q /\ out \div q >= OrderFloor(p.m, p.id)
    <3> HIDE DEF q
    <3>1. out >= q /\ out \div q >= p.min
      BY <1>1, <2>2, <2>3, VenueMet
    <3> QED
      BY <1>2, <3>1 DEF CarriesFloor
  <2>6. PICK r, held, funds :
          /\ r.m = p.m /\ r.id = p.id /\ r.t = tOut /\ r.amount = out
          /\ r.status = "FILLED"
          /\ ReturnToMirror(r, held, stranded, funds)
    <3> DEFINE o == [m |-> p.m, id |-> p.id, t |-> tOut, amount |-> out,
                     user |-> p.user, status |-> "FILLED"]
    <3>1. \E held, funds : ReturnToMirror(o, held, stranded, funds)
      BY <1>6 DEF FillOrder
    <3>2. o.m = p.m /\ o.id = p.id /\ o.t = tOut /\ o.amount = out /\ o.status = "FILLED"
      OBVIOUS
    <3> HIDE DEF o, tOut
    <3> QED
      BY <3>1, <3>2
  <2>7. \/ \E price : ReturnSent(r, price, held, stranded, funds)
        \/ \E price, notice : ReturnStranded(r, price, notice, held, stranded, funds)
    BY <2>6 DEF ReturnToMirror
  <2>8. p.id < nextRequestId[p.m]
    BY <1>2 DEF CarriesFloor
  <2> HIDE DEF tOut
  <2> QED
    BY <1>1, <1>3, <1>4, <1>5, <2>1, <2>4, <2>5, <2>6, <2>7, <2>8, ReturnKeeps
<1>7. ASSUME NEW out \in PoolOutputs, RejectOrder(p, out)
      PROVE  Keeps
  <2>1. InputOf(p) >= HomeQuantum[p.t] /\ InputOf(p) \in Nat
    BY <1>1, <1>2, HomeAssumption, UnitWorth, ProductNat DEF InputOf, ToLocal
  <2>2. PICK r, held, funds :
          /\ r.m = p.m /\ r.id = p.id /\ r.t = p.t /\ r.amount = InputOf(p)
          /\ r.status = "REFUNDED"
          /\ ReturnToMirror(r, held, stranded, funds)
    <3> DEFINE o == [m |-> p.m, id |-> p.id, t |-> p.t, amount |-> InputOf(p),
                     user |-> p.user, status |-> "REFUNDED"]
    <3>1. \E held, funds : ReturnToMirror(o, held, stranded, funds)
      BY <1>7 DEF RejectOrder
    <3>2. /\ o.m = p.m /\ o.id = p.id /\ o.t = p.t /\ o.amount = InputOf(p)
          /\ o.status = "REFUNDED"
      OBVIOUS
    <3> HIDE DEF o
    <3> QED
      BY <3>1, <3>2
  <2>3. \/ \E price : ReturnSent(r, price, held, stranded, funds)
        \/ \E price, notice : ReturnStranded(r, price, notice, held, stranded, funds)
    BY <2>2 DEF ReturnToMirror
  <2> QED
    BY <1>1, <1>3, <1>4, <1>5, <2>1, <2>2, <2>3, ReturnKeeps
<1> QED
  BY <1>6, <1>7 DEF ExecuteOrder

(* A strand that is retried is worth a unit, sent or stranded again.       *)
LEMMA RetryKeeps ==
  ASSUME AmountInv, NEW m \in Mirrors, NEW id \in Ids, NEW v,
         RetrySent(m, id, v) \/ RetryStranded(m, id, v), UNCHANGED requestVars
  PROVE  Keeps
<1> DEFINE r == Retried(m, id)
           owed == Cleared(m, id)
<1>1. TypeOK
  BY DEF AmountInv
<1>2. /\ r.m = m /\ r.id = id /\ r.t = stranded[m][id].token
      /\ r.amount = stranded[m][id].amount /\ r.status = "REFUNDED"
  BY DEF Retried
<1>3. /\ UNCHANGED <<requests, nextRequestId, orders, composing>>
      /\ queue' \subseteq queue
      /\ stranded[m][id].amount > 0
  BY DEF RetrySent, RetryStranded, requestVars
<1>4. r.amount >= HomeQuantum[r.t]
  BY <1>2, <1>3 DEF AmountInv, StrandsCanCross
<1>5. /\ r.t \in Tokens /\ r.amount \in Nat
      /\ owed \in [Mirrors -> [Ids -> Stranded]]
  BY <1>1, <1>2, StrandedTypes
<1>6. \A m1 \in Mirrors, i1 \in Ids :
        owed[m1][i1] = stranded[m1][i1] \/ owed[m1][i1].amount = 0
  BY <1>1 DEF Cleared, TypeOK, HomeTypeOK, RelayTypeOK, Stranded
<1>7. PICK funds :
        \/ \E price : ReturnSent(r, price, homeToken, owed, funds)
        \/ \E price, notice : ReturnStranded(r, price, notice, homeToken, owed, funds)
  BY DEF RetrySent, RetryStranded
<1> HIDE DEF r, owed
<1> QED
  BY <1>1, <1>2, <1>3, <1>4, <1>5, <1>6, <1>7, ReturnKeeps

(* Everything else the home chain does hands an order on, or pays out.     *)
LEMMA HomeKeeps ==
  ASSUME AmountInv, HomeStep
  PROVE  Keeps
<1>1. TypeOK /\ UNCHANGED requestVars
  BY DEF AmountInv, HomeStep
<1>2. UNCHANGED <<requests, nextRequestId>>
  BY <1>1 DEF requestVars
<1>3. CASE Delivering
  <2>1. PICK p \in orders :
          /\ Verify(p) \/ ReceiveOrder(p)
          /\ UNCHANGED <<returns, composing, stranded>>
    BY <1>3 DEF Delivering, relayVars
  <2>2. orders' \cup queue' \subseteq orders \cup queue
    BY <2>1 DEF Verify, ReceiveOrder
  <2>3. StrandsKeep
    BY <2>1 DEF StrandsKeep
  <2> QED
    BY <1>1, <1>2, <2>1, <2>2, <2>3, NothingNewKeeps
<1>4. ASSUME NEW m \in Mirrors, NEW id \in Ids, ClaimStranded(m, id)
      PROVE  Keeps
  <2>1. stranded' = Cleared(m, id) /\ UNCHANGED <<orders, queue, returns, composing>>
    BY <1>4 DEF ClaimStranded, wireVars
  <2>2. StrandsKeep
    BY <1>1, <2>1 DEF StrandsKeep, Cleared, TypeOK, HomeTypeOK, RelayTypeOK, Stranded
  <2> QED
    BY <1>1, <1>2, <2>1, <2>2, NothingNewKeeps
<1>5. ASSUME UNCHANGED <<orders, queue, returns, composing, stranded>>
      PROVE  Keeps
  BY <1>1, <1>2, <1>5, NothingNewKeeps DEF StrandsKeep
<1>6. CASE Recovering
  BY <1>1, <1>4, <1>5, <1>6, RetryKeeps DEF Recovering, CancelStuckInbound
<1>7. CASE Operating
  BY <1>5, <1>7 DEF Operating, FundNative, WithdrawNative, SweepDust, wireVars,
                    endpointVars
<1> QED
  BY <1>1, <1>3, <1>6, <1>7, ExecuteKeeps DEF HomeStep, HomeNext

(* Every step keeps the amounts.                                           *)
LEMMA EveryStepKeeps ==
  ASSUME AmountInv, TypeOK', [Next]_vars
  PROVE  Keeps
<1>1. TypeOK
  BY DEF AmountInv
<1>2. CASE MirrorStep
  BY <1>1, <1>2, BridgingKeeps, OrderingKeeps, SettlingKeeps, AdministeringKeeps
     DEF MirrorStep, MirrorNext
<1>3. CASE HomeStep
  BY <1>3, HomeKeeps
<1>4. CASE UNCHANGED vars
  BY <1>1, <1>4, NothingNewKeeps
     DEF vars, mirrorVars, wireVars, requestVars, homeVars, endpointVars, relayVars,
         StrandsKeep
<1> QED
  BY <1>2, <1>3, <1>4 DEF Next

(* The invariant holds in every reachable state.                           *)
LEMMA AmountInvariant == Spec => []AmountInv
<1>1. Init => AmountInv
  <2> SUFFICES ASSUME Init
               PROVE  AmountInv
    OBVIOUS
  <2>1. /\ orders = {} /\ queue = {} /\ returns = {} /\ composing = {}
        /\ \A m \in Mirrors, i \in Ids : requests[m][i].status = "NONE"
    BY DEF Init, MirrorInit, WireInit, RequestInit, EmptyRequest, HomeInit, EndpointInit, HomeTokenAtStart
  <2>2. \A m \in Mirrors, i \in Ids : stranded[m][i].amount = 0
    BY DEF Init, HomeInit, RelayInit
  <2> QED
    BY <2>1, <2>2, InitType DEF AmountInv, FloorsCarried, FloorHonoured, StrandsCanCross
<1>2. AmountInv /\ TypeOK' /\ [Next]_vars => AmountInv'
  BY EveryStepKeeps, KeepsInv
<1> QED
  BY <1>1, <1>2, TypeCorrect, PTL DEF Spec

(***************************************************************************)
(* A filled request delivered at least its minAmountOut, and never         *)
(* nothing, in every reachable state and for every value of the constants: *)
(* whatever the decimals of the two chains, and wherever the order waited. *)
(***************************************************************************)
THEOREM FloorIsHonoured == Spec => []FloorHonoured
<1>1. AmountInv => FloorHonoured
  BY DEF AmountInv
<1> QED
  BY <1>1, AmountInvariant, PTL

(***************************************************************************)
(* What the relay holds as stranded is worth a bridgeable unit, in every   *)
(* reachable state and for every value of the constants: its size never    *)
(* keeps retryReturn from sending it.                                      *)
(***************************************************************************)
THEOREM StrandsCross == Spec => []StrandsCanCross
<1>1. AmountInv => StrandsCanCross
  BY DEF AmountInv
<1> QED
  BY <1>1, AmountInvariant, PTL

-----------------------------------------------------------------------------
(***************************************************************************)
(* Where an order is.  Its packet waits for the home endpoint, its input   *)
(* for the relay; its result is stranded there, on its way back, or queued *)
(* at the mirror.  An invariant in these terms is inductive: it says that  *)
(* a packet sent is nowhere else even when it was killed, and that no      *)
(* value moves for an id that was not given out.                           *)
(***************************************************************************)
Kinds == {"orders", "queue", "stranded", "returns", "composing"}

At(k, m, i) ==
  IF k = "orders" THEN Holds(orders, m, i)
  ELSE IF k = "queue" THEN Holds(queue, m, i)
  ELSE IF k = "returns" THEN Holds(returns, m, i)
  ELSE IF k = "composing" THEN Holds(composing, m, i)
  ELSE IF stranded[m][i].amount > 0 THEN {stranded[m][i]} ELSE {}

(* A request that has none of these: not taken, or answered.               *)
Settled == {"NONE", "FILLED", "REFUNDED"}

Placed(m, i) ==
  /\ \A k \in Kinds : \A p, q \in At(k, m, i) : p = q
  /\ \A k, l \in Kinds : At(k, m, i) # {} /\ At(l, m, i) # {} => k = l
  /\ requests[m][i].status \in Settled => \A k \in Kinds : At(k, m, i) = {}

PlaceInv == \A m \in Mirrors, i \in Ids : Placed(m, i)

(* A step may leave a request's value where it is,                         *)
Stays(m, i) ==
  /\ \A k \in Kinds : At(k, m, i)' \subseteq At(k, m, i)
  /\ requests'[m][i].status = requests[m][i].status \/ requests'[m][i].status \notin Settled

(* pay it out,                                                             *)
Leaves(m, i, k) ==
  /\ k \in Kinds /\ At(k, m, i) # {} /\ At(k, m, i)' = {}
  /\ \A l \in Kinds : l # k => At(l, m, i)' \subseteq At(l, m, i)

(* move it,                                                                *)
Moves(m, i, k, l) ==
  /\ k \in Kinds /\ l \in Kinds
  /\ At(k, m, i) # {}
  /\ k # l => At(k, m, i)' = {}
  /\ \A j \in Kinds : j # k /\ j # l => At(j, m, i)' \subseteq At(j, m, i)
  /\ \E q : At(l, m, i)' \subseteq (IF k = l THEN {q} ELSE At(l, m, i) \cup {q})
  /\ requests'[m][i].status = requests[m][i].status

(* or take it in.                                                          *)
Enters(m, i) ==
  /\ requests[m][i].status = "NONE" /\ requests'[m][i].status \notin Settled
  /\ \E q : At("orders", m, i)' \subseteq At("orders", m, i) \cup {q}
  /\ \A k \in Kinds : k # "orders" => At(k, m, i)' \subseteq At(k, m, i)

(* The value of request i of mirror m is in one place after the step.      *)
LEMMA PlacedStays ==
  ASSUME NEW m, NEW i, Placed(m, i), Stays(m, i)
  PROVE  Placed(m, i)'
<1> DEFINE A(k) == At(k, m, i)
           s == requests[m][i].status
<1>1. /\ \A k \in Kinds : \A p, q \in A(k) : p = q
      /\ \A k, l \in Kinds : A(k) # {} /\ A(l) # {} => k = l
      /\ s \in Settled => \A k \in Kinds : A(k) = {}
  BY DEF Placed
<1>2. /\ \A k \in Kinds : A(k)' \subseteq A(k)
      /\ s' = s \/ s' \notin Settled
  BY DEF Stays
<1> HIDE DEF A, s
<1>3. /\ \A k \in Kinds : \A p, q \in A(k)' : p = q
      /\ \A k, l \in Kinds : A(k)' # {} /\ A(l)' # {} => k = l
      /\ s' \in Settled => \A k \in Kinds : A(k)' = {}
  BY <1>1, <1>2
<1> QED
  BY <1>3 DEF Placed, A, s

(* What is paid out is nowhere after the step.                             *)
LEMMA PlacedLeaves ==
  ASSUME NEW m, NEW i, Placed(m, i), NEW k, Leaves(m, i, k)
  PROVE  Placed(m, i)'
<1> DEFINE A(j) == At(j, m, i)
<1>1. /\ k \in Kinds /\ A(k) # {} /\ A(k)' = {}
      /\ \A l \in Kinds : l # k => A(l)' \subseteq A(l)
      /\ \A j, l \in Kinds : A(j) # {} /\ A(l) # {} => j = l
  BY DEF Placed, Leaves
<1> HIDE DEF A
<1>2. \A l \in Kinds : A(l)' = {}
  BY <1>1
<1> QED
  BY <1>2 DEF Placed, A

(* What moves is where it moved to, and only there.                        *)
LEMMA PlacedMoves ==
  ASSUME NEW m, NEW i, Placed(m, i), NEW k, NEW l, Moves(m, i, k, l)
  PROVE  Placed(m, i)'
<1> DEFINE A(j) == At(j, m, i)
           s == requests[m][i].status
<1>1. /\ \A j \in Kinds : \A p, q \in A(j) : p = q
      /\ \A j, h \in Kinds : A(j) # {} /\ A(h) # {} => j = h
      /\ s \in Settled => \A j \in Kinds : A(j) = {}
  BY DEF Placed
<1>2. /\ k \in Kinds /\ l \in Kinds /\ A(k) # {}
      /\ k # l => A(k)' = {}
      /\ \A j \in Kinds : j # k /\ j # l => A(j)' \subseteq A(j)
      /\ \E q : A(l)' \subseteq (IF k = l THEN {q} ELSE A(l) \cup {q})
      /\ s' = s
  BY DEF Moves
<1> HIDE DEF A, s
<1>3. \A j \in Kinds : j # l => A(j)' = {}
  BY <1>1, <1>2
<1>4. PICK q : A(l)' \subseteq {q}
  BY <1>1, <1>2
<1>5. /\ \A j \in Kinds : \A p, r \in A(j)' : p = r
      /\ \A j, h \in Kinds : A(j)' # {} /\ A(h)' # {} => j = h
      /\ s' \notin Settled
  BY <1>1, <1>2, <1>3, <1>4
<1> QED
  BY <1>5 DEF Placed, A, s

(* What is taken in is in the packet that was sent.                        *)
LEMMA PlacedEnters ==
  ASSUME NEW m, NEW i, Placed(m, i), Enters(m, i)
  PROVE  Placed(m, i)'
<1> DEFINE A(j) == At(j, m, i)
<1>1. \A j \in Kinds : A(j) = {}
  BY DEF Placed, Enters, Settled
<1>2. /\ requests'[m][i].status \notin Settled
      /\ \E q : A("orders")' \subseteq A("orders") \cup {q}
      /\ \A k \in Kinds : k # "orders" => A(k)' \subseteq A(k)
  BY DEF Enters
<1>3. "orders" \in Kinds
  BY DEF Kinds
<1> HIDE DEF A
<1>4. PICK q : A("orders")' \subseteq {q}
  BY <1>1, <1>2, <1>3
<1>5. \A k \in Kinds : k # "orders" => A(k)' = {}
  BY <1>1, <1>2
<1>6. /\ \A j \in Kinds : \A p, r \in A(j)' : p = r
      /\ \A j, h \in Kinds : A(j)' # {} /\ A(h)' # {} => j = h
  BY <1>4, <1>5
<1> QED
  BY <1>2, <1>6 DEF Placed, A

(* What the places hold, one by one.                                       *)
LEMMA AtKinds ==
  ASSUME NEW m, NEW i
  PROVE  /\ At("orders", m, i) = Holds(orders, m, i)
         /\ At("queue", m, i) = Holds(queue, m, i)
         /\ At("returns", m, i) = Holds(returns, m, i)
         /\ At("composing", m, i) = Holds(composing, m, i)
         /\ At("stranded", m, i) = IF stranded[m][i].amount > 0 THEN {stranded[m][i]} ELSE {}
BY DEF At

(* And what they hold after a step.                                        *)
LEMMA AtKindsNext ==
  ASSUME NEW m, NEW i
  PROVE  /\ At("orders", m, i)' = Holds(orders', m, i)
         /\ At("queue", m, i)' = Holds(queue', m, i)
         /\ At("returns", m, i)' = Holds(returns', m, i)
         /\ At("composing", m, i)' = Holds(composing', m, i)
         /\ At("stranded", m, i)' = IF stranded'[m][i].amount > 0 THEN {stranded'[m][i]} ELSE {}
BY DEF At, Holds

(* Nothing a request's value depends on changes, but for what is taken off.*)
Untouched(m, i) ==
  /\ Holds(orders', m, i) \subseteq Holds(orders, m, i)
  /\ Holds(queue', m, i) \subseteq Holds(queue, m, i)
  /\ Holds(returns', m, i) \subseteq Holds(returns, m, i)
  /\ Holds(composing', m, i) \subseteq Holds(composing, m, i)
  /\ stranded'[m][i] = stranded[m][i] \/ ~(stranded'[m][i].amount > 0)
  /\ requests'[m][i].status = requests[m][i].status \/ requests'[m][i].status \notin Settled

(* Such a request stays in one place.                                      *)
LEMMA UntouchedStays ==
  ASSUME NEW m, NEW i, Placed(m, i), Untouched(m, i)
  PROVE  Placed(m, i)'
<1>1. ASSUME NEW k \in Kinds
      PROVE  At(k, m, i)' \subseteq At(k, m, i)
  <2>1. CASE k = "stranded"
    BY <2>1, AtKinds, AtKindsNext DEF Untouched
  <2>2. CASE k # "stranded"
    BY <2>2, AtKinds, AtKindsNext DEF Untouched, Kinds
  <2> QED
    BY <2>1, <2>2
<1> QED
  BY <1>1, PlacedStays DEF Stays, Untouched

(* Taking an order.                                                        *)
LEMMA TakingPlaces ==
  ASSUME MirrorInv, PlaceInv, NEW m \in Mirrors, NEW r \in Request, NEW f \in FeeEscrow,
         NEW p \in OrderPacket, Takes(m, r, f, p), UNCHANGED homeVars
  PROVE  PlaceInv'
<1> SUFFICES ASSUME NEW mm \in Mirrors, NEW j \in Ids
             PROVE  Placed(mm, j)'
  BY DEF PlaceInv
<1>0. Placed(mm, j)
  BY DEF PlaceInv
<1>1. /\ orders' = orders \cup {p} /\ p.m = m /\ p.id = nextRequestId[m]
      /\ UNCHANGED <<returns, composing, queue, stranded>>
  BY DEF Takes, homeVars, endpointVars, relayVars
<1>2. CASE mm = m /\ j = nextRequestId[m]
  <2>1. /\ requests[mm][j].status = "NONE" /\ requests'[mm][j].status \notin Settled
    BY <1>2, TakingChanges DEF EmptyRequest, Settled
  <2>2. At("orders", mm, j)' \subseteq At("orders", mm, j) \cup {p}
    BY <1>1, AtKinds, AtKindsNext DEF Holds
  <2>3. \A k \in Kinds : k # "orders" => At(k, mm, j)' \subseteq At(k, mm, j)
    BY <1>1 DEF At, Kinds, Holds
  <2> QED
    BY <1>0, <2>1, <2>2, <2>3, PlacedEnters DEF Enters
<1>3. CASE ~(mm = m /\ j = nextRequestId[m])
  <2>1. requests'[mm][j] = requests[mm][j]
    BY <1>3, TakingChanges
  <2>2. Untouched(mm, j)
    BY <1>1, <1>3, <2>1 DEF Untouched, Holds
  <2> QED
    BY <1>0, <2>2, UntouchedStays
<1> QED
  BY <1>2, <1>3

(* A return arrives and is queued.                                         *)
LEMMA ArrivalPlaces ==
  ASSUME TypeOK, PlaceInv, NEW p \in returns, ReceiveReturn(p), UNCHANGED <<requestVars, homeVars>>
  PROVE  PlaceInv'
<1> SUFFICES ASSUME NEW m \in Mirrors, NEW i \in Ids
             PROVE  Placed(m, i)'
  BY DEF PlaceInv
<1>0. Placed(m, i)
  BY DEF PlaceInv
<1>1. /\ orders' = orders /\ returns' = returns \ {p} /\ composing' = composing \cup {p}
      /\ UNCHANGED <<queue, stranded, requests>>
  BY DEF ReceiveReturn, homeVars, endpointVars, relayVars, requestVars
<1>2. CASE p.m = m /\ p.id = i
  <2>1. p \in At("returns", m, i)
    BY <1>2, AtKinds DEF Holds
  <2>2. \A x \in At("returns", m, i) : x = p
    BY <1>0, <2>1 DEF Placed, Kinds
  <2>3. At("returns", m, i)' = {}
    BY <1>1, <2>2, AtKinds, AtKindsNext DEF Holds
  <2>4. At("composing", m, i)' \subseteq At("composing", m, i) \cup {p}
    BY <1>1, AtKinds, AtKindsNext DEF Holds
  <2>5. \A k \in Kinds : k # "returns" /\ k # "composing" => At(k, m, i)' \subseteq At(k, m, i)
    BY <1>1 DEF At, Kinds, Holds
  <2>6. Moves(m, i, "returns", "composing")
    BY <1>1, <2>1, <2>3, <2>4, <2>5 DEF Moves, Kinds
  <2> QED
    BY <1>0, <2>6, PlacedMoves
<1>3. CASE ~(p.m = m /\ p.id = i)
  <2>1. Untouched(m, i)
    BY <1>1, <1>3 DEF Untouched, Holds
  <2> QED
    BY <1>0, <2>1, UntouchedStays
<1> QED
  BY <1>2, <1>3

(* lzCompose on the mirror: what was queued is paid.                       *)
LEMMA SettlingPlaces ==
  ASSUME TypeOK, PlaceInv, NEW p \in composing, Settle(p), UNCHANGED homeVars
  PROVE  PlaceInv'
<1> SUFFICES ASSUME NEW m \in Mirrors, NEW i \in Ids
             PROVE  Placed(m, i)'
  BY DEF PlaceInv
<1>0. Placed(m, i)
  BY DEF PlaceInv
<1>1. /\ composing' = composing \ {p} /\ UNCHANGED <<orders, returns, queue, stranded>>
  BY DEF Settle, ComposeFill, ComposeRefund, ComposeLate, Compose, homeVars, endpointVars, relayVars
<1>2. CASE p.m = m /\ p.id = i
  <2>1. p \in At("composing", m, i)
    BY <1>2, AtKinds DEF Holds
  <2>2. \A x \in At("composing", m, i) : x = p
    BY <1>0, <2>1 DEF Placed, Kinds
  <2>3. At("composing", m, i)' = {}
    BY <1>1, <2>2, AtKinds, AtKindsNext DEF Holds
  <2>4. \A k \in Kinds : k # "composing" => At(k, m, i)' \subseteq At(k, m, i)
    BY <1>1 DEF At, Kinds, Holds
  <2>5. Leaves(m, i, "composing")
    BY <2>1, <2>3, <2>4 DEF Leaves, Kinds
  <2> QED
    BY <1>0, <2>5, PlacedLeaves
<1>3. CASE ~(p.m = m /\ p.id = i)
  <2>1. requests'[m][i] = requests[m][i]
    <3>1. requests \in [Mirrors -> [Ids -> Request]] /\ p.m \in Mirrors /\ p.id \in Ids
      BY PacketIds DEF TypeOK, MirrorTypeOK, RequestTypeOK
    <3> QED
      BY <1>3, <3>1 DEF Settle, ComposeFill, ComposeRefund, ComposeLate
  <2>2. Untouched(m, i)
    BY <1>1, <1>3, <2>1 DEF Untouched, Holds
  <2> QED
    BY <1>0, <2>2, UntouchedStays
<1> QED
  BY <1>2, <1>3

(* A notice strands or cancels, and moves nothing.                         *)
LEMMA NoticePlaces ==
  ASSUME TypeOK, PlaceInv, NEW n \in notices, HearNotice(n), UNCHANGED homeVars
  PROVE  PlaceInv'
<1> SUFFICES ASSUME NEW m \in Mirrors, NEW i \in Ids
             PROVE  Placed(m, i)'
  BY DEF PlaceInv
<1>1. UNCHANGED <<orders, returns, composing, queue, stranded>>
  BY DEF HearNotice, NoticeStranded, NoticeCancelled, NoticeIgnored, ReceiveNotice,
         homeVars, endpointVars, relayVars
<1>2. requests'[m][i].status = requests[m][i].status \/ requests'[m][i].status \notin Settled
  <2>1. requests \in [Mirrors -> [Ids -> Request]] /\ n.m \in Mirrors
    BY DEF TypeOK, MirrorTypeOK, RequestTypeOK, WireTypeOK, Notice
  <2>2. ASSUME NEW j \in Ids, NEW s \in {"STRANDED", "CANCELLED"},
               requests' = [requests EXCEPT ![n.m][j].status = s]
        PROVE  requests'[m][i].status = requests[m][i].status
               \/ requests'[m][i].status \notin Settled
    BY <2>1, <2>2 DEF Request, Settled
  <2> QED
    BY <2>2 DEF HearNotice, NoticeStranded, NoticeCancelled, NoticeIgnored
<1>3. Untouched(m, i)
  BY <1>1, <1>2 DEF Untouched
<1> QED
  BY <1>3, UntouchedStays DEF PlaceInv

(* The mirrors move what arrives, and take in what is new.                 *)
LEMMA MirrorPlaces ==
  ASSUME TypeOK, MirrorInv, PlaceInv, MirrorStep
  PROVE  PlaceInv'
<1>0. UNCHANGED homeVars
  BY DEF MirrorStep
<1>1. CASE Ordering
  BY <1>0, <1>1, OrderingTakes, TakingPlaces
<1>2. CASE Settling
  BY <1>0, <1>2, SettlingPlaces, NoticePlaces DEF Settling
<1>3. ASSUME UNCHANGED <<returns, composing, requests>>,
             \A p \in orders' : p \in orders \/ p.id = 0
      PROVE  PlaceInv'
  <2> SUFFICES ASSUME NEW m \in Mirrors, NEW i \in Ids
               PROVE  Placed(m, i)'
    BY DEF PlaceInv
  <2>1. i # 0
    BY DEF Ids
  <2>2. Untouched(m, i)
    BY <1>0, <1>3, <2>1 DEF Untouched, Holds, homeVars, endpointVars, relayVars
  <2> QED
    BY <2>2, UntouchedStays DEF PlaceInv
<1>4. CASE Administering
  BY <1>3, <1>4 DEF Administering, ClaimFees, SetPartner, SetPartnerRequired, SetPlatformFee,
                    InvalidateNonce, Sweep, SendStray, wireVars, requestVars, ledgerVars
<1>5. CASE Bridging
  <2>1. ASSUME NEW m \in Mirrors, NEW t \in Tokens, NEW u \in Users, NEW sd \in DirectAmounts,
               DirectSend(m, t, u, sd), UNCHANGED requestVars
        PROVE  PlaceInv'
    <3> DEFINE b == [m |-> m, t |-> t, nonce |-> outNonce[m][t] + 1, id |-> 0,
                     user |-> u, sd |-> sd, min |-> 0]
    <3>1. orders' = orders \cup {b} /\ b.id = 0
      BY <2>1 DEF DirectSend, SendOrder
    <3> HIDE DEF b
    <3>2. UNCHANGED <<returns, composing, requests>>
      BY <2>1 DEF DirectSend, requestVars
    <3>3. \A p \in orders' : p \in orders \/ p.id = 0
      BY <3>1
    <3> QED
      BY <1>3, <3>2, <3>3
  <2>2. ASSUME NEW p \in returns, ReceiveReturn(p), UNCHANGED requestVars
        PROVE  PlaceInv'
    BY <1>0, <2>2, ArrivalPlaces
  <2> QED
    BY <1>5, <2>1, <2>2 DEF Bridging
<1> QED
  BY <1>1, <1>2, <1>4, <1>5 DEF MirrorStep, MirrorNext

(* The endpoint hands an order to the relay.                               *)
LEMMA DeliveryPlaces ==
  ASSUME TypeOK, PlaceInv, NEW p \in orders, ReceiveOrder(p),
         UNCHANGED <<returns, composing, requests, stranded>>
  PROVE  PlaceInv'
<1> SUFFICES ASSUME NEW m \in Mirrors, NEW i \in Ids
             PROVE  Placed(m, i)'
  BY DEF PlaceInv
<1>0. Placed(m, i)
  BY DEF PlaceInv
<1>1. /\ orders' = orders \ {p}
      /\ queue' = IF p.id = 0 THEN queue ELSE queue \cup {p}
  BY DEF ReceiveOrder
<1>2. CASE p.m = m /\ p.id = i
  <2>1. p \in At("orders", m, i)
    BY <1>2, AtKinds DEF Holds
  <2>2. \A x \in At("orders", m, i) : x = p
    BY <1>0, <2>1 DEF Placed, Kinds
  <2>3. At("orders", m, i)' = {}
    BY <1>1, <2>2, AtKinds, AtKindsNext DEF Holds
  <2>4. At("queue", m, i)' \subseteq At("queue", m, i) \cup {p}
    BY <1>1, AtKinds, AtKindsNext DEF Holds
  <2>5. \A k \in Kinds : k # "orders" /\ k # "queue" => At(k, m, i)' \subseteq At(k, m, i)
    BY <1>1 DEF At, Kinds, Holds
  <2>6. Moves(m, i, "orders", "queue")
    BY <1>1, <2>1, <2>3, <2>4, <2>5 DEF Moves, Kinds
  <2> QED
    BY <1>0, <2>6, PlacedMoves
<1>3. CASE ~(p.m = m /\ p.id = i)
  <2>1. Untouched(m, i)
    BY <1>1, <1>3 DEF Untouched, Holds
  <2> QED
    BY <1>0, <2>1, UntouchedStays
<1> QED
  BY <1>2, <1>3

(***************************************************************************)
(* The return leg takes a request's value from the relay, or from what it  *)
(* held as stranded, and sends it or strands it.                           *)
(***************************************************************************)
LEMMA ReturnPlaces ==
  ASSUME TypeOK, PlaceInv, UNCHANGED <<orders, composing, requests>>, queue' \subseteq queue,
         NEW r, r.m \in Mirrors, r.id \in Ids,
         NEW k \in {"queue", "stranded"}, At(k, r.m, r.id) # {},
         k = "queue" => Holds(queue', r.m, r.id) = {},
         NEW held, NEW funds, NEW owed \in [Mirrors -> [Ids -> Stranded]],
         \A m \in Mirrors, i \in Ids :
           owed[m][i] = stranded[m][i] \/ ~(owed[m][i].amount > 0),
         k = "stranded" => ~(owed[r.m][r.id].amount > 0),
         \/ \E price : ReturnSent(r, price, held, owed, funds)
         \/ \E price, notice : ReturnStranded(r, price, notice, held, owed, funds)
  PROVE  PlaceInv'
<1> SUFFICES ASSUME NEW m \in Mirrors, NEW i \in Ids
             PROVE  Placed(m, i)'
  BY DEF PlaceInv
<1>0. Placed(m, i)
  BY DEF PlaceInv
<1>1. CASE \E price : ReturnSent(r, price, held, owed, funds)
  <2> DEFINE b == [m |-> r.m, t |-> r.t, nonce |-> backNonce[r.m][r.t] + 1, id |-> r.id,
                   sd |-> ToShared(r.amount, HomeQuantum[r.t]), status |-> r.status]
  <2>1. /\ returns' = returns \cup {b} /\ stranded' = owed
        /\ b.m = r.m /\ b.id = r.id
    BY <1>1 DEF ReturnSent, SendReturn
  <2>2. CASE r.m = m /\ r.id = i
    <3>1. At(k, m, i)' = {}
      BY <2>1, <2>2, AtKindsNext
    <3>2. \E q : At("returns", m, i)' \subseteq At("returns", m, i) \cup {q}
      <4> HIDE DEF b
      <4>1. At("returns", m, i)' \subseteq At("returns", m, i) \cup {b}
        BY <2>1, AtKinds, AtKindsNext DEF Holds
      <4> QED
        BY <4>1
    <3>3. \A j \in Kinds : j # k /\ j # "returns" => At(j, m, i)' \subseteq At(j, m, i)
      <4>1. At("orders", m, i)' = At("orders", m, i) /\ At("composing", m, i)' = At("composing", m, i)
        BY AtKinds, AtKindsNext
      <4>2. At("queue", m, i)' \subseteq At("queue", m, i)
        BY AtKinds, AtKindsNext DEF Holds
      <4>3. At("stranded", m, i)' \subseteq At("stranded", m, i)
        BY <2>1, AtKinds, AtKindsNext
      <4> QED
        BY <4>1, <4>2, <4>3 DEF Kinds
    <3>4. Moves(m, i, k, "returns")
      BY <2>2, <3>1, <3>2, <3>3 DEF Moves, Kinds
    <3> QED
      BY <1>0, <3>4, PlacedMoves
  <2>3. CASE ~(r.m = m /\ r.id = i)
    <3> HIDE DEF b
    <3>1. Untouched(m, i)
      BY <2>1, <2>3 DEF Untouched, Holds
    <3> QED
      BY <1>0, <3>1, UntouchedStays
  <2> QED
    BY <2>2, <2>3
<1>2. CASE \E price, notice : ReturnStranded(r, price, notice, held, owed, funds)
  <2>1. PICK s : stranded' = [owed EXCEPT ![r.m][r.id] = s]
    BY <1>2 DEF ReturnStranded
  <2>2. returns' = returns
    BY <1>2 DEF ReturnStranded
  <2>3. CASE r.m = m /\ r.id = i
    <3>1. stranded'[m][i] = s
      BY <2>1, <2>3
    <3>2. At("stranded", m, i)' \subseteq {s}
      BY <3>1, AtKindsNext
    <3>3. k = "queue" => At(k, m, i)' = {}
      BY <2>3, AtKindsNext
    <3>4. \A j \in Kinds : j # k /\ j # "stranded" => At(j, m, i)' \subseteq At(j, m, i)
      <4>1. /\ At("orders", m, i)' = At("orders", m, i)
            /\ At("composing", m, i)' = At("composing", m, i)
            /\ At("returns", m, i)' = At("returns", m, i)
        BY <2>2, AtKinds, AtKindsNext
      <4>2. At("queue", m, i)' \subseteq At("queue", m, i)
        BY AtKinds, AtKindsNext DEF Holds
      <4> QED
        BY <4>1, <4>2 DEF Kinds
    <3>5. Moves(m, i, k, "stranded")
      BY <2>3, <3>2, <3>3, <3>4 DEF Moves, Kinds
    <3> QED
      BY <1>0, <3>5, PlacedMoves
  <2>4. CASE ~(r.m = m /\ r.id = i)
    <3>1. stranded'[m][i] = owed[m][i]
      BY <2>1, <2>4
    <3>2. Untouched(m, i)
      BY <2>2, <3>1 DEF Untouched, Holds
    <3> QED
      BY <1>0, <3>2, UntouchedStays
  <2> QED
    BY <2>3, <2>4
<1> QED
  BY <1>1, <1>2

(* lzCompose on the home chain.                                            *)
LEMMA ExecutionPlaces ==
  ASSUME TypeOK, PlaceInv, NEW p \in queue, ExecuteOrder(p), UNCHANGED requestVars
  PROVE  PlaceInv'
<1>1. /\ p.m \in Mirrors /\ p.id \in Ids
      /\ stranded \in [Mirrors -> [Ids -> Stranded]]
  BY DEF TypeOK, HomeTypeOK, EndpointTypeOK, RelayTypeOK, OrderPacket
<1>2. queue' = queue \ {p} /\ UNCHANGED <<orders, composing, requests>>
  BY DEF ExecuteOrder, FillOrder, RejectOrder, Handed, requestVars
<1>3. At("queue", p.m, p.id) # {} /\ Holds(queue', p.m, p.id) = {}
  <2>1. p \in At("queue", p.m, p.id)
    BY AtKinds DEF Holds
  <2>2. \A x \in At("queue", p.m, p.id) : x = p
    BY <1>1, <2>1 DEF PlaceInv, Placed, Kinds
  <2> QED
    BY <1>2, <2>1, <2>2, AtKinds DEF Holds
<1>4. PICK r, held : /\ r.m = p.m /\ r.id = p.id
                     /\ ReturnToMirror(r, held, stranded, native + ComposeValue)
  <2>1. PICK out \in PoolOutputs : FillOrder(p, out) \/ RejectOrder(p, out)
    BY DEF ExecuteOrder
  <2>2. CASE FillOrder(p, out)
    <3> DEFINE r == [m |-> p.m, id |-> p.id, t |-> OtherToken(p.t), amount |-> out,
                     user |-> p.user, status |-> "FILLED"]
    <3>1. \E held : ReturnToMirror(r, held, stranded, native + ComposeValue)
      BY <2>2 DEF FillOrder
    <3>2. r.m = p.m /\ r.id = p.id
      OBVIOUS
    <3> HIDE DEF r
    <3> QED
      BY <3>1, <3>2
  <2>3. CASE RejectOrder(p, out)
    <3> DEFINE r == [m |-> p.m, id |-> p.id, t |-> p.t, amount |-> InputOf(p),
                     user |-> p.user, status |-> "REFUNDED"]
    <3>1. ReturnToMirror(r, homeToken, stranded, native + ComposeValue)
      BY <2>3 DEF RejectOrder
    <3>2. r.m = p.m /\ r.id = p.id
      OBVIOUS
    <3> HIDE DEF r
    <3> QED
      BY <3>1, <3>2
  <2> QED
    BY <2>1, <2>2, <2>3
<1>5. \/ \E price : ReturnSent(r, price, held, stranded, native + ComposeValue)
      \/ \E price, notice : ReturnStranded(r, price, notice, held, stranded, native + ComposeValue)
  BY <1>4 DEF ReturnToMirror
<1> QED
  BY <1>1, <1>2, <1>3, <1>4, <1>5, ReturnPlaces

(* A retry takes a strand as it is.                                        *)
LEMMA RetryPlaces ==
  ASSUME TypeOK, PlaceInv, NEW m \in Mirrors, NEW id \in Ids, NEW v,
         RetrySent(m, id, v) \/ RetryStranded(m, id, v), UNCHANGED requestVars
  PROVE  PlaceInv'
<1>1. /\ stranded[m][id].amount > 0
      /\ UNCHANGED <<orders, composing, requests, queue>>
  BY DEF RetrySent, RetryStranded, requestVars
<1>2. At("stranded", m, id) # {}
  BY <1>1, AtKinds
<1>3. /\ Cleared(m, id) \in [Mirrors -> [Ids -> Stranded]]
      /\ \A mm \in Mirrors, i \in Ids :
           Cleared(m, id)[mm][i] = stranded[mm][i] \/ ~(Cleared(m, id)[mm][i].amount > 0)
      /\ ~(Cleared(m, id)[m][id].amount > 0)
  <2>1. stranded \in [Mirrors -> [Ids -> Stranded]]
    BY DEF TypeOK, HomeTypeOK, RelayTypeOK
  <2>2. Cleared(m, id) \in [Mirrors -> [Ids -> Stranded]]
    BY StrandedTypes
  <2> QED
    BY <2>1, <2>2 DEF Cleared, Stranded
<1>4. PICK r : /\ r = Retried(m, id)
               /\ \/ \E price : ReturnSent(r, price, homeToken, Cleared(m, id), native + v)
                  \/ \E price, notice :
                       ReturnStranded(r, price, notice, homeToken, Cleared(m, id), native + v)
  BY DEF RetrySent, RetryStranded
<1>5. r.m = m /\ r.id = id
  BY <1>4 DEF Retried
<1>6. PICK owed : owed = Cleared(m, id)
  OBVIOUS
<1> QED
  BY <1>1, <1>2, <1>3, <1>4, <1>5, <1>6, ReturnPlaces

(* The home chain moves what it is given, once.                            *)
LEMMA HomePlaces ==
  ASSUME TypeOK, PlaceInv, HomeStep
  PROVE  PlaceInv'
<1>0. UNCHANGED requestVars /\ requests' = requests
  BY DEF HomeStep, requestVars
<1>1. ASSUME UNCHANGED <<orders, queue, returns, composing>>,
             \A m \in Mirrors, i \in Ids :
               stranded'[m][i] = stranded[m][i] \/ ~(stranded'[m][i].amount > 0)
      PROVE  PlaceInv'
  <2> SUFFICES ASSUME NEW m \in Mirrors, NEW i \in Ids
               PROVE  Placed(m, i)'
    BY DEF PlaceInv
  <2>1. Untouched(m, i)
    BY <1>0, <1>1 DEF Untouched
  <2> QED
    BY <2>1, UntouchedStays DEF PlaceInv
<1>2. CASE Delivering
  <2>1. PICK p \in orders : /\ Verify(p) \/ ReceiveOrder(p)
                            /\ UNCHANGED <<returns, composing, relayVars>>
    BY <1>2 DEF Delivering
  <2>2. CASE Verify(p)
    BY <1>1, <2>1, <2>2 DEF Verify, relayVars
  <2>3. CASE ReceiveOrder(p)
    BY <1>0, <2>1, <2>3, DeliveryPlaces DEF relayVars
  <2> QED
    BY <2>1, <2>2, <2>3
<1>3. ASSUME NEW p \in queue, ExecuteOrder(p)
      PROVE  PlaceInv'
  BY <1>0, <1>3, ExecutionPlaces
<1>4. CASE Recovering
  <2>1. ASSUME NEW m \in Mirrors, NEW id \in Ids, ClaimStranded(m, id)
        PROVE  PlaceInv'
    <3>1. /\ stranded' = Cleared(m, id)
          /\ UNCHANGED <<orders, queue, returns, composing>>
      BY <2>1 DEF ClaimStranded, wireVars
    <3>2. stranded \in [Mirrors -> [Ids -> Stranded]]
      BY DEF TypeOK, HomeTypeOK, RelayTypeOK
    <3>3. \A mm \in Mirrors, i \in Ids :
            stranded'[mm][i] = stranded[mm][i] \/ ~(stranded'[mm][i].amount > 0)
      BY <3>1, <3>2 DEF Cleared, Stranded
    <3> QED
      BY <1>1, <3>1, <3>3
  <2>2. ASSUME NEW p \in orders, NEW h \in BOOLEAN, CancelStuckInbound(p, h)
        PROVE  PlaceInv'
    BY <1>1, <2>2 DEF CancelStuckInbound
  <2>3. ASSUME NEW m \in Mirrors, NEW id \in Ids, NEW v,
               RetrySent(m, id, v) \/ RetryStranded(m, id, v)
        PROVE  PlaceInv'
    BY <1>0, <2>3, RetryPlaces
  <2> QED
    BY <1>4, <2>1, <2>2, <2>3 DEF Recovering
<1>5. CASE Operating
  BY <1>1, <1>5 DEF Operating, FundNative, WithdrawNative, SweepDust, wireVars, endpointVars
<1> QED
  BY <1>2, <1>3, <1>4, <1>5 DEF HomeStep, HomeNext

(* The tables of every mirror, and the places of every order.              *)
WhereInv == TypeOK /\ MirrorInv /\ PlaceInv

(* The home chain writes in no table.                                      *)
LEMMA HomeStepKeepsTables ==
  ASSUME MirrorInv, TypeOK', UNCHANGED requestVars
  PROVE  MirrorInv'
<1>1. MirrorTypeOK'
  BY DEF TypeOK
<1>2. TakenInOrder' /\ EscrowsRecorded'
  BY DEF requestVars, MirrorInv, TakenInOrder, EscrowsRecorded, Recorded
<1> QED
  BY <1>1, <1>2 DEF MirrorInv

(* Every step keeps the tables and the places.                             *)
LEMMA WhereStep ==
  ASSUME WhereInv, TypeOK', [Next]_vars
  PROVE  WhereInv'
<1>0. TypeOK /\ MirrorInv /\ PlaceInv
  BY DEF WhereInv
<1>1. CASE MirrorStep
  <2>1. MirrorInv'
    BY <1>0, <1>1, MirrorInvKept DEF MirrorStep
  <2>2. PlaceInv'
    BY <1>0, <1>1, MirrorPlaces
  <2> QED
    BY <2>1, <2>2 DEF WhereInv
<1>2. CASE HomeStep
  <2>1. MirrorInv'
    BY <1>0, <1>2, HomeStepKeepsTables DEF HomeStep
  <2>2. PlaceInv'
    BY <1>0, <1>2, HomePlaces
  <2> QED
    BY <2>1, <2>2 DEF WhereInv
<1>3. CASE UNCHANGED vars
  <2>1. UNCHANGED requestVars
    BY <1>3 DEF vars, mirrorVars
  <2>2. UNCHANGED <<orders, returns, composing, requests, queue, stranded>>
    BY <1>3 DEF vars, mirrorVars, homeVars, wireVars, requestVars, endpointVars, relayVars
  <2>3. PlaceInv'
    BY <1>0, <2>2 DEF PlaceInv, Placed, At, Holds
  <2> QED
    BY <1>0, <2>1, <2>3, HomeStepKeepsTables DEF WhereInv
<1> QED
  BY <1>1, <1>2, <1>3 DEF Next

(* They hold in every reachable state.                                     *)
LEMMA WhereInvariant == Spec => []WhereInv
<1>1. Init => WhereInv
  <2> SUFFICES ASSUME Init
               PROVE  WhereInv
    OBVIOUS
  <2>1. TypeOK /\ MirrorInv
    BY InitType, ReserveAtStart DEF Init
  <2>2. PlaceInv
    <3> SUFFICES ASSUME NEW m \in Mirrors, NEW i \in Ids, NEW k \in Kinds
                 PROVE  At(k, m, i) = {}
      BY DEF PlaceInv, Placed
    <3> QED
      BY DEF Init, MirrorInit, WireInit, HomeInit, EndpointInit, RelayInit, At, Holds
  <2> QED
    BY <2>1, <2>2 DEF WhereInv
<1>2. TypeOK' /\ WhereInv /\ [Next]_vars => WhereInv'
  BY WhereStep
<1> QED
  BY <1>1, <1>2, TypeCorrect, PTL DEF Spec

(* A set of at most one element.                                           *)
LEMMA AtMostOne ==
  ASSUME NEW S, \A x, y \in S : x = y
  PROVE  Cardinality(S) <= 1
<1>1. CASE S = {}
  BY <1>1, FS_EmptySet
<1>2. CASE S # {}
  <2>1. PICK x : S = {x}
    BY <1>2
  <2> QED
    BY <2>1, FS_Singleton
<1> QED
  BY <1>1, <1>2

(***************************************************************************)
(* An order's value is in one place at most, and once the request is       *)
(* filled, refunded or cancelled in none, for every value of the constants.*)
(***************************************************************************)
THEOREM ValueIsInOnePlace == Spec => []ValueInOnePlace
<1>1. WhereInv /\ CancelledNeverExecutes => ValueInOnePlace
  <2> SUFFICES ASSUME PlaceInv, CancelledNeverExecutes, NEW m \in Mirrors, NEW i \in Ids
               PROVE  /\ Cardinality(Places(m, i)) <= 1
                      /\ \A packets \in {orders, queue, returns, composing} :
                           Cardinality(Holds(packets, m, i)) <= 1
                      /\ requests[m][i].status \in {"FILLED", "REFUNDED", "CANCELLED"}
                           => Places(m, i) = {}
    BY DEF WhereInv, ValueInOnePlace
  <2>0. Placed(m, i)
    BY DEF PlaceInv
  <2> DEFINE kind(pl) == IF pl = "alive" THEN "orders" ELSE pl
  <2>1. \A pl \in Places(m, i) : kind(pl) \in Kinds /\ At(kind(pl), m, i) # {}
    <3> SUFFICES ASSUME NEW pl \in Places(m, i)
                 PROVE  kind(pl) \in Kinds /\ At(kind(pl), m, i) # {}
      OBVIOUS
    <3>1. Holds(Alive, m, i) \subseteq Holds(orders, m, i)
      BY DEF Alive, Holds
    <3>2. CASE pl = "alive"
      BY <3>1, <3>2, AtKinds DEF Places, Kinds
    <3>3. CASE pl = "queue"
      BY <3>3, AtKinds DEF Places, Kinds
    <3>4. CASE pl = "stranded"
      BY <3>4, AtKinds DEF Places, Kinds
    <3>5. CASE pl = "returns"
      BY <3>5, AtKinds DEF Places, Kinds
    <3>6. CASE pl = "composing"
      BY <3>6, AtKinds DEF Places, Kinds
    <3> QED
      BY <3>2, <3>3, <3>4, <3>5, <3>6 DEF Places
  <2>2. Cardinality(Places(m, i)) <= 1
    <3>1. \A x, y \in Places(m, i) : kind(x) = kind(y)
      BY <2>0, <2>1 DEF Placed
    <3>2. \A x \in Places(m, i) : x # "orders"
      BY DEF Places
    <3>3. \A x, y \in Places(m, i) : x = y
      BY <3>1, <3>2
    <3> QED
      BY <3>3, AtMostOne
  <2>3. ASSUME NEW packets \in {orders, queue, returns, composing}
        PROVE  Cardinality(Holds(packets, m, i)) <= 1
    <3>1. \A x, y \in Holds(packets, m, i) : x = y
      BY <2>0, <2>3, AtKinds DEF Placed, Kinds
    <3> QED
      BY <3>1, AtMostOne
  <2>4. ASSUME requests[m][i].status \in {"FILLED", "REFUNDED"}
        PROVE  Places(m, i) = {}
    BY <2>0, <2>1, <2>4 DEF Placed, Settled
  <2>5. ASSUME requests[m][i].status = "CANCELLED"
        PROVE  Places(m, i) = {}
    <3>1. PICK p \in Holds(orders, m, i) : Dead(m, p.t, p.nonce)
      BY <2>5 DEF CancelledNeverExecutes
    <3>2. \A x \in Holds(orders, m, i) : x = p
      BY <2>0, <3>1, AtKinds DEF Placed, Kinds
    <3>3. Holds(Alive, m, i) = {}
      BY <3>1, <3>2 DEF Holds, Alive
    <3>4. "orders" \in Kinds /\ At("orders", m, i) # {}
      BY <3>1, AtKinds DEF Kinds
    <3>5. \A pl \in Places(m, i) : kind(pl) = "orders"
      BY <2>0, <2>1, <3>4 DEF Placed
    <3>6. \A pl \in Places(m, i) : pl = "alive"
      BY <3>5 DEF Places
    <3> QED
      BY <3>3, <3>6 DEF Places
  <2> QED
    BY <2>2, <2>3, <2>4, <2>5
<1> QED
  BY <1>1, WhereInvariant, KilledBeforeRestored, PTL

-----------------------------------------------------------------------------
(***************************************************************************)
(* The relay's books.  What it holds of an asset is followed through the   *)
(* credit of an order's input, the trade, the return leg and the ways out. *)
(* The strand of an order is empty while the relay executes it (PlaceInv), *)
(* so the strand's one token names all that is added to it.                *)
(***************************************************************************)

(* What a strand holds of asset t, what a table of strands holds of it,    *)
(* and what the orders of a queue brought of it.                           *)
HeldOf(s, t) == IF s.token = t THEN s.amount ELSE 0

StrandsOf(table, t) ==
  SumFunctionOnSet([k \in Mirrors \X Ids |-> HeldOf(table[k[1]][k[2]], t)], Mirrors \X Ids)

BroughtBy(p, t) == IF p.t = t THEN InputOf(p) ELSE 0

InputsOf(packets, t) == SumFunctionOnSet([p \in packets |-> BroughtBy(p, t)], packets)

(* The two sums of RelayHoldsItsDebts.                                     *)
LEMMA DebtsAreSums ==
  ASSUME NEW t
  PROVE  /\ QueuedInputs(t) = InputsOf(queue, t)
         /\ StrandedAmounts(t) = StrandsOf(stranded, t)
BY DEF QueuedInputs, StrandedAmounts, InputsOf, StrandsOf, BroughtBy, HeldOf, SumFunction

(* An order that is queued adds what it brought.                           *)
LEMMA QueueGrows ==
  ASSUME NEW packets, packets \subseteq OrderPacket, IsFiniteSet(packets),
         NEW p \in OrderPacket, p \notin packets, NEW t \in Tokens
  PROVE  /\ InputsOf(packets, t) \in Nat
         /\ BroughtBy(p, t) \in Nat
         /\ InputsOf(packets \cup {p}, t) = InputsOf(packets, t) + BroughtBy(p, t)
<1> DEFINE f == [x \in packets |-> BroughtBy(x, t)]
           g == [x \in packets \cup {p} |-> BroughtBy(x, t)]
<1>1. \A x \in OrderPacket : BroughtBy(x, t) \in Nat
  BY HomeWorth DEF BroughtBy, InputOf, OrderPacket
<1>2. \A x \in packets \cup {p} : g[x] \in Nat
  BY <1>1
<1>3. \A x \in packets : f[x] \in Nat /\ f[x] = g[x]
  BY <1>1
<1>4. g[p] = BroughtBy(p, t)
  OBVIOUS
<1>5. InputsOf(packets, t) = SumFunctionOnSet(f, packets)
      /\ InputsOf(packets \cup {p}, t) = SumFunctionOnSet(g, packets \cup {p})
  BY DEF InputsOf
<1> HIDE DEF f, g
<1>6. SumFunctionOnSet(f, packets) \in Nat
  BY <1>3, SumIsNat
<1>7. SumFunctionOnSet(g, packets \cup {p}) = SumFunctionOnSet(g, packets) + g[p]
  BY <1>2, SumAdds
<1>8. SumFunctionOnSet(f, packets) = SumFunctionOnSet(g, packets)
  BY <1>3, SumOfSame
<1> QED
  BY <1>1, <1>4, <1>5, <1>6, <1>7, <1>8

StrandTables == [Mirrors -> [Ids -> Stranded]]

(* Two tables that differ at most in the strand of request i of mirror m.  *)
DifferAt(a, b, m, i) ==
  \A mm \in Mirrors, ii \in Ids : mm # m \/ ii # i => b[mm][ii] = a[mm][ii]

(* When one strand changes, what the table holds changes by as much.       *)
LEMMA StrandChanges ==
  ASSUME NEW a \in StrandTables, NEW b \in StrandTables,
         NEW m \in Mirrors, NEW i \in Ids, NEW t,
         DifferAt(a, b, m, i)
  PROVE  /\ StrandsOf(a, t) \in Nat /\ StrandsOf(b, t) \in Nat
         /\ HeldOf(a[m][i], t) \in Nat /\ HeldOf(b[m][i], t) \in Nat
         /\ StrandsOf(b, t) = StrandsOf(a, t) - HeldOf(a[m][i], t) + HeldOf(b[m][i], t)
<1> DEFINE S == Mirrors \X Ids
           f == [k \in S |-> HeldOf(a[k[1]][k[2]], t)]
           g == [k \in S |-> HeldOf(b[k[1]][k[2]], t)]
           y == <<m, i>>
<1>1. \A s \in Stranded : HeldOf(s, t) \in Nat
  BY DEF HeldOf, Stranded
<1>2. \A k \in S : f[k] \in Nat /\ g[k] \in Nat
  BY <1>1 DEF StrandTables
<1>3. \A k \in S : k # y => g[k] = f[k]
  BY DEF DifferAt
<1>4. y \in S /\ f[y] = HeldOf(a[m][i], t) /\ g[y] = HeldOf(b[m][i], t)
  OBVIOUS
<1>5. IsFiniteSet(S)
  BY WireAssumption, IdsFinite, FS_Product
<1>6. StrandsOf(a, t) = SumFunctionOnSet(f, S) /\ StrandsOf(b, t) = SumFunctionOnSet(g, S)
  BY DEF StrandsOf
<1>7. HeldOf(a[m][i], t) \in Nat /\ HeldOf(b[m][i], t) \in Nat
  BY <1>1 DEF StrandTables
<1> HIDE DEF f, g, S, y
<1>8. /\ SumFunctionOnSet(f, S) \in Nat /\ SumFunctionOnSet(g, S) \in Nat
      /\ SumFunctionOnSet(g, S) = SumFunctionOnSet(f, S) - f[y] + g[y]
  BY <1>2, <1>3, <1>4, <1>5, SumChanges
<1> QED
  BY <1>4, <1>6, <1>7, <1>8

(* A strand that was empty is written: it owes what is written.            *)
LEMMA StrandWritten ==
  ASSUME NEW a \in StrandTables, NEW b \in StrandTables,
         NEW m \in Mirrors, NEW i \in Ids, NEW t, DifferAt(a, b, m, i), a[m][i].amount = 0
  PROVE  /\ StrandsOf(a, t) \in Nat /\ StrandsOf(b, t) \in Nat
         /\ HeldOf(b[m][i], t) \in Nat
         /\ StrandsOf(b, t) = StrandsOf(a, t) + HeldOf(b[m][i], t)
<1>1. HeldOf(a[m][i], t) = 0
  BY DEF HeldOf
<1>2. /\ StrandsOf(a, t) \in Nat /\ StrandsOf(b, t) \in Nat
      /\ HeldOf(b[m][i], t) \in Nat
      /\ StrandsOf(b, t) = StrandsOf(a, t) - HeldOf(a[m][i], t) + HeldOf(b[m][i], t)
  BY StrandChanges
<1> QED
  BY <1>1, <1>2

(* What a table of strands holds is a natural number.                      *)
LEMMA StrandsAreNat ==
  ASSUME NEW a \in StrandTables, NEW t
  PROVE  StrandsOf(a, t) \in Nat
<1> DEFINE S == Mirrors \X Ids
           f == [k \in S |-> HeldOf(a[k[1]][k[2]], t)]
<1>1. \A k \in S : f[k] \in Nat
  BY DEF HeldOf, Stranded, StrandTables
<1>2. IsFiniteSet(S)
  BY WireAssumption, IdsFinite, FS_Product
<1> HIDE DEF f, S
<1>3. SumFunctionOnSet(f, S) \in Nat
  BY <1>1, <1>2, SumIsNat
<1> QED
  BY <1>3 DEF StrandsOf, f, S

-----------------------------------------------------------------------------
(* What the calls on the home asset do to the relay's balance.             *)
LEMMA RelayIsDebited ==
  ASSUME NEW k \in Token, NEW t, NEW x \in Nat
  PROVE  /\ k.bal[Contract] \in Nat
         /\ HomeDebit(k, t, Contract, x).bal[Contract] = k.bal[Contract] - x
         /\ Transfer(k, Contract, World, x).bal[Contract] = k.bal[Contract] - x
         /\ Transfer(k, World, Contract, x).bal[Contract] = k.bal[Contract] + x
         /\ \A u \in Users : Transfer(k, Contract, u, x).bal[Contract] = k.bal[Contract] - x
<1>1. Contract # World /\ Contract # Vault
  BY DEF Contract, World, Vault
<1>2. k.bal[Contract] \in Nat
  BY NamedAccounts DEF Token
<1>3. /\ Transfer(k, Contract, World, x).bal[Contract] = k.bal[Contract] - x
      /\ Transfer(k, World, Contract, x).bal[Contract] = k.bal[Contract] + x
      /\ Transfer(k, Contract, Vault, x).bal[Contract] = k.bal[Contract] - x
  BY <1>1, NamedAccounts, TransferMoves
<1>4. \A u \in Users : Transfer(k, Contract, u, x).bal[Contract] = k.bal[Contract] - x
  BY ContractApart, NamedAccounts, TransferMoves
<1>5. HomeDebit(k, t, Contract, x).bal[Contract] = k.bal[Contract] - x
  BY <1>3, NamedAccounts, BurnMoves DEF HomeDebit, Lock
<1> QED
  BY <1>2, <1>3, <1>4, <1>5

(* An arrival credits the account it is for, and the vault at most pays.   *)
LEMMA RelayIsCredited ==
  ASSUME NEW k \in Token, NEW t, NEW x \in Nat
  PROVE  /\ HomeCredit(k, t, Contract, x).bal[Contract] = k.bal[Contract] + x
         /\ \A u \in Users : HomeCredit(k, t, u, x).bal[Contract] = k.bal[Contract]
<1>1. Contract # World /\ Contract # Vault
  BY DEF Contract, World, Vault
<1>2. /\ Transfer(k, Vault, Contract, x).bal[Contract] = k.bal[Contract] + x
      /\ Mint(k, Contract, x).bal[Contract] = k.bal[Contract] + x
  BY <1>1, NamedAccounts, TransferMoves, MintMoves
<1>3. \A u \in Users : /\ Transfer(k, Vault, u, x).bal[Contract] = k.bal[Contract]
                       /\ Mint(k, u, x).bal[Contract] = k.bal[Contract]
  <2> SUFFICES ASSUME NEW u \in Users
               PROVE  /\ Transfer(k, Vault, u, x).bal[Contract] = k.bal[Contract]
                      /\ Mint(k, u, x).bal[Contract] = k.bal[Contract]
    OBVIOUS
  <2>1. u \in Accounts /\ u # Contract /\ u # Vault /\ Contract \in Accounts /\ Vault \in Accounts
    BY NamedAccounts, ContractApart
  <2> QED
    BY <1>1, <2>1, TransferMoves, MintMoves
<1> QED
  BY <1>2, <1>3 DEF HomeCredit, Unlock

-----------------------------------------------------------------------------
(* A return leg was sent or stranded, for some quote.                      *)
LegDone(r, held, owed, funds) ==
  \/ \E price : ReturnSent(r, price, held, owed, funds)
  \/ \E price, notice : ReturnStranded(r, price, notice, held, owed, funds)

(***************************************************************************)
(* The return leg.  Whether the result is sent or strands, the relay's     *)
(* balance and its books lose and gain the same: what is left of a result  *)
(* that is sent is recorded as dust, and one that strands is owed whole.   *)
(***************************************************************************)
LEMMA ReturnBalances ==
  ASSUME TypeOK, NEW m \in Mirrors, NEW id \in Ids, NEW rt \in Tokens, NEW x \in Nat,
         NEW r, r.m = m, r.id = id, r.t = rt, r.amount = x,
         NEW held \in [Tokens -> Token],
         NEW owed \in StrandTables, owed[m][id].amount = 0,
         NEW funds,
         stranded' \in StrandTables,
         LegDone(r, held, owed, funds),
         NEW t \in Tokens
  PROVE  homeToken'[t].bal[Contract] - dustAccrued'[t] - StrandsOf(stranded', t)
           = held[t].bal[Contract] - dustAccrued[t] - StrandsOf(owed, t)
             - (IF t = rt THEN x ELSE 0)
<1> DEFINE q    == HomeQuantum[rt]
           sent == RemoveDust(x, q)
<1>1. q \in Nat \ {0} /\ sent \in Nat /\ sent <= x
  BY HomeAssumption, AmountTypes
<1>2. /\ dustAccrued \in [Tokens -> Nat] /\ dustAccrued[t] \in Nat
      /\ held[t] \in Token /\ held[rt] \in Token
  BY DEF TypeOK, HomeTypeOK, RelayTypeOK
<1>3. /\ held[t].bal[Contract] \in Nat
      /\ HomeDebit(held[rt], rt, Contract, sent).bal[Contract] = held[rt].bal[Contract] - sent
  <2> HIDE DEF sent, q
  <2>1. held[t].bal[Contract] \in Nat
    BY <1>2, NamedAccounts DEF Token
  <2>2. PICK k : k = held[rt]
    OBVIOUS
  <2>3. HomeDebit(k, rt, Contract, sent).bal[Contract] = k.bal[Contract] - sent
    BY <1>1, <1>2, <2>2, RelayIsDebited
  <2> QED
    BY <2>1, <2>2, <2>3
<1>4. StrandsOf(owed, t) \in Nat
  BY StrandsAreNat
<1>5. ASSUME NEW price, ReturnSent(r, price, held, owed, funds)
      PROVE  homeToken'[t].bal[Contract] - dustAccrued'[t] - StrandsOf(stranded', t)
               = held[t].bal[Contract] - dustAccrued[t] - StrandsOf(owed, t)
                 - (IF t = rt THEN x ELSE 0)
  <2>1. /\ homeToken' = [held EXCEPT ![rt] = HomeDebit(@, rt, Contract, sent)]
        /\ dustAccrued' = [dustAccrued EXCEPT ![rt] = @ + (x - sent)]
        /\ stranded' = owed
    BY <1>5 DEF ReturnSent
  <2> HIDE DEF sent, q
  <2>2. CASE t = rt
    <3>1. /\ homeToken'[t].bal[Contract] = held[t].bal[Contract] - sent
          /\ dustAccrued'[t] = dustAccrued[t] + (x - sent)
      BY <1>2, <1>3, <2>1, <2>2
    <3> QED
      BY <1>1, <1>2, <1>3, <1>4, <2>1, <2>2, <3>1
  <2>3. CASE t # rt
    <3>1. homeToken'[t] = held[t] /\ dustAccrued'[t] = dustAccrued[t]
      BY <1>2, <2>1, <2>3
    <3> QED
      BY <1>2, <1>3, <1>4, <2>1, <2>3, <3>1
  <2> QED
    BY <2>2, <2>3
<1>6. ASSUME NEW price, NEW notice, ReturnStranded(r, price, notice, held, owed, funds)
      PROVE  homeToken'[t].bal[Contract] - dustAccrued'[t] - StrandsOf(stranded', t)
               = held[t].bal[Contract] - dustAccrued[t] - StrandsOf(owed, t)
                 - (IF t = rt THEN x ELSE 0)
  <2>1. homeToken' = held /\ dustAccrued' = dustAccrued
    BY <1>6 DEF ReturnStranded
  <2>2. /\ \A mm \in Mirrors, ii \in Ids : mm # m \/ ii # id => stranded'[mm][ii] = owed[mm][ii]
        /\ stranded'[m][id].token = rt /\ stranded'[m][id].amount = x
    <3>1. stranded' = [owed EXCEPT
            ![m][id] = [amount |-> owed[m][id].amount + x, token |-> rt,
                        beneficiary |-> IF r.user # NoUser THEN r.user
                                        ELSE owed[m][id].beneficiary]]
      BY <1>6 DEF ReturnStranded
    <3> QED
      BY <3>1 DEF StrandTables
  <2>3. /\ HeldOf(stranded'[m][id], t) = IF t = rt THEN x ELSE 0
        /\ DifferAt(owed, stranded', m, id)
    BY <2>2 DEF HeldOf, DifferAt
  <2>4. StrandsOf(stranded', t) = StrandsOf(owed, t) + HeldOf(stranded'[m][id], t)
    BY <2>3, StrandWritten
  <2> QED
    BY <1>2, <1>3, <1>4, <2>1, <2>3, <2>4
<1> QED
  BY <1>5, <1>6 DEF LegDone

-----------------------------------------------------------------------------
Books ==
  \A t \in Tokens :
    homeToken[t].bal[Contract] = dustAccrued[t] + InputsOf(queue, t) + StrandsOf(stranded, t)

(* The places of every order, and the relay's books.                       *)
DebtInv == WhereInv /\ IsFiniteSet(queue) /\ Books

(* The numbers the books are made of.                                      *)
LEMMA BooksAreNumbers ==
  ASSUME TypeOK, IsFiniteSet(queue), NEW t \in Tokens
  PROVE  /\ homeToken[t] \in Token /\ homeToken[t].bal[Contract] \in Nat
         /\ dustAccrued[t] \in Nat
         /\ InputsOf(queue, t) \in Nat
         /\ StrandsOf(stranded, t) \in Nat
<1>1. /\ homeToken[t] \in Token /\ dustAccrued[t] \in Nat
      /\ queue \subseteq OrderPacket
      /\ stranded \in StrandTables
  BY DEF TypeOK, HomeTypeOK, EndpointTypeOK, RelayTypeOK, StrandTables
<1>2. homeToken[t].bal[Contract] \in Nat
  BY <1>1, NamedAccounts DEF Token
<1>3. InputsOf(queue, t) \in Nat
  <2> DEFINE f == [x \in queue |-> BroughtBy(x, t)]
  <2>1. \A x \in queue : f[x] \in Nat
    BY <1>1, HomeWorth DEF BroughtBy, InputOf, OrderPacket
  <2> HIDE DEF f
  <2>2. SumFunctionOnSet(f, queue) \in Nat
    BY <2>1, SumIsNat
  <2> QED
    BY <2>2 DEF InputsOf, f
<1>4. StrandsOf(stranded, t) \in Nat
  BY <1>1, StrandsAreNat
<1> QED
  BY <1>1, <1>2, <1>3, <1>4

(* The home endpoint credits the relay what the order brought.             *)
LEMMA DeliveryBooks ==
  ASSUME DebtInv, NEW p \in orders, ReceiveOrder(p), UNCHANGED relayVars
  PROVE  IsFiniteSet(queue)' /\ Books'
<1>0. TypeOK /\ PlaceInv /\ IsFiniteSet(queue) /\ Books
  BY DEF DebtInv, WhereInv
<1>1. p \in OrderPacket /\ queue \subseteq OrderPacket
      /\ p.m \in Mirrors /\ p.t \in Tokens /\ p.user \in Users /\ p.sd \in Nat
      /\ homeToken \in [Tokens -> Token]
  BY <1>0 DEF TypeOK, MirrorTypeOK, WireTypeOK, HomeTypeOK, EndpointTypeOK, OrderPacket
<1>2. InputOf(p) \in Nat
  BY <1>1, HomeWorth DEF InputOf
<1>3. stranded' = stranded /\ dustAccrued' = dustAccrued
  BY DEF relayVars
<1>4. CASE p.id = 0
  <2>1. /\ queue' = queue
        /\ homeToken' = [homeToken EXCEPT ![p.t] = HomeCredit(@, p.t, p.user, InputOf(p))]
    BY <1>4 DEF ReceiveOrder, InputOf
  <2>2. \A t \in Tokens : homeToken'[t].bal[Contract] = homeToken[t].bal[Contract]
    <3>1. PICK k : k = homeToken[p.t]
      OBVIOUS
    <3>2. HomeCredit(k, p.t, p.user, InputOf(p)).bal[Contract] = k.bal[Contract]
      BY <1>1, <1>2, <3>1, RelayIsCredited
    <3> QED
      BY <1>1, <2>1, <3>1, <3>2
  <2> QED
    BY <1>0, <1>3, <2>1, <2>2 DEF Books
<1>5. CASE p.id # 0
  <2>1. /\ queue' = queue \cup {p}
        /\ homeToken' = [homeToken EXCEPT ![p.t] = HomeCredit(@, p.t, Contract, InputOf(p))]
    BY <1>5 DEF ReceiveOrder, InputOf
  <2>2. p \notin queue
    <3>1. p.id \in Ids
      BY <1>1, <1>5 DEF OrderPacket
    <3>2. SUFFICES ASSUME p \in queue
                   PROVE  FALSE
      OBVIOUS
    <3>3. At("orders", p.m, p.id) # {} /\ At("queue", p.m, p.id) # {}
      BY <3>2, AtKinds DEF Holds
    <3> QED
      BY <1>0, <1>1, <3>1, <3>3 DEF PlaceInv, Placed, Kinds
  <2>3. IsFiniteSet(queue')
    BY <1>0, <2>1, FS_AddElement
  <2>4. ASSUME NEW t \in Tokens
        PROVE  homeToken'[t].bal[Contract]
                 = dustAccrued'[t] + InputsOf(queue', t) + StrandsOf(stranded', t)
    <3>1. /\ BroughtBy(p, t) \in Nat
          /\ InputsOf(queue', t) = InputsOf(queue, t) + BroughtBy(p, t)
      BY <1>0, <1>1, <2>1, <2>2, QueueGrows
    <3>2. homeToken'[t].bal[Contract] = homeToken[t].bal[Contract] + BroughtBy(p, t)
      <4>1. CASE t = p.t
        BY <1>1, <1>2, <2>1, <4>1, RelayIsCredited DEF BroughtBy
      <4>2. CASE t # p.t
        <5>1. homeToken'[t] = homeToken[t] /\ BroughtBy(p, t) = 0
          BY <1>1, <2>1, <4>2 DEF BroughtBy
        <5> QED
          BY <1>0, <5>1, BooksAreNumbers
      <4> QED
        BY <4>1, <4>2
    <3> QED
      BY <1>0, <1>3, <3>1, <3>2, BooksAreNumbers DEF Books
  <2> QED
    BY <2>3, <2>4 DEF Books
<1> QED
  BY <1>4, <1>5

(* lzCompose on the home chain: the input becomes a result, or stays one.  *)
LEMMA ExecutionBooks ==
  ASSUME DebtInv, TypeOK', NEW p \in queue, ExecuteOrder(p)
  PROVE  IsFiniteSet(queue)' /\ Books'
<1>0. TypeOK /\ PlaceInv /\ IsFiniteSet(queue) /\ Books
  BY DEF DebtInv, WhereInv
<1>1. /\ p \in OrderPacket /\ queue \subseteq OrderPacket
      /\ p.m \in Mirrors /\ p.t \in Tokens /\ p.id \in Ids /\ p.sd \in Nat
      /\ homeToken \in [Tokens -> Token]
      /\ stranded \in StrandTables
  BY <1>0 DEF TypeOK, HomeTypeOK, EndpointTypeOK, RelayTypeOK, OrderPacket, StrandTables
<1>2. InputOf(p) \in Nat
  BY <1>1, HomeWorth DEF InputOf
<1>3. queue' = queue \ {p}
  BY DEF ExecuteOrder, FillOrder, RejectOrder, Handed
<1>4. IsFiniteSet(queue')
  BY <1>0, <1>3, FS_RemoveElement
<1>5. stranded' \in StrandTables
  BY DEF TypeOK, HomeTypeOK, RelayTypeOK, StrandTables
<1>6. stranded[p.m][p.id].amount = 0
  <2>1. At("queue", p.m, p.id) # {}
    BY AtKinds DEF Holds
  <2>2. At("stranded", p.m, p.id) = {}
    BY <1>0, <1>1, <2>1 DEF PlaceInv, Placed, Kinds
  <2>3. ~(stranded[p.m][p.id].amount > 0)
    BY <2>2, AtKinds
  <2> QED
    BY <1>1, <2>3 DEF StrandTables, Stranded
<1>7. ASSUME NEW t \in Tokens
      PROVE  /\ BroughtBy(p, t) \in Nat
             /\ InputsOf(queue', t) \in Nat
             /\ InputsOf(queue, t) = InputsOf(queue', t) + BroughtBy(p, t)
  <2>1. p \notin queue' /\ queue = queue' \cup {p} /\ queue' \subseteq OrderPacket
    BY <1>1, <1>3
  <2>2. PICK rest : rest = queue'
    OBVIOUS
  <2>3. rest \subseteq OrderPacket /\ IsFiniteSet(rest) /\ p \notin rest
    BY <1>4, <2>1, <2>2
  <2>4. /\ InputsOf(rest, t) \in Nat /\ BroughtBy(p, t) \in Nat
        /\ InputsOf(rest \cup {p}, t) = InputsOf(rest, t) + BroughtBy(p, t)
    BY <1>1, <2>3, QueueGrows
  <2> QED
    BY <2>1, <2>2, <2>4
<1>8. ASSUME NEW r, r.m = p.m, r.id = p.id, r.t \in Tokens, r.amount \in Nat,
             NEW held \in [Tokens -> Token],
             ReturnToMirror(r, held, stranded, native + ComposeValue),
             \A t \in Tokens :
               held[t].bal[Contract] = homeToken[t].bal[Contract] - BroughtBy(p, t)
                                       + (IF t = r.t THEN r.amount ELSE 0)
      PROVE  Books'
  <2> SUFFICES ASSUME NEW t \in Tokens
               PROVE  homeToken'[t].bal[Contract]
                        = dustAccrued'[t] + InputsOf(queue', t) + StrandsOf(stranded', t)
    BY DEF Books
  <2>1. \/ \E price : ReturnSent(r, price, held, stranded, native + ComposeValue)
        \/ \E price, notice :
             ReturnStranded(r, price, notice, held, stranded, native + ComposeValue)
    BY <1>8 DEF ReturnToMirror
  <2>2. PICK m \in Mirrors, id \in Ids, rt \in Tokens, x \in Nat :
          m = p.m /\ id = p.id /\ rt = r.t /\ x = r.amount
    BY <1>1, <1>8
  <2>3. PICK owed \in StrandTables : owed = stranded
    BY <1>1
  <2>4. homeToken'[t].bal[Contract] - dustAccrued'[t] - StrandsOf(stranded', t)
          = held[t].bal[Contract] - dustAccrued[t] - StrandsOf(stranded, t)
            - (IF t = rt THEN x ELSE 0)
    <3>1. PICK funds : funds = native + ComposeValue
      OBVIOUS
    <3>2. LegDone(r, held, owed, funds)
      BY <2>1, <2>3, <3>1 DEF LegDone
    <3>3. r.m = m /\ r.id = id /\ r.t = rt /\ r.amount = x /\ owed[m][id].amount = 0
      BY <1>6, <1>8, <2>2, <2>3
    <3>4. homeToken'[t].bal[Contract] - dustAccrued'[t] - StrandsOf(stranded', t)
            = held[t].bal[Contract] - dustAccrued[t] - StrandsOf(owed, t)
              - (IF t = rt THEN x ELSE 0)
      BY <1>0, <1>5, <3>2, <3>3, ReturnBalances
    <3> QED
      BY <2>3, <3>4
  <2>5. /\ homeToken'[t].bal[Contract] \in Nat /\ dustAccrued'[t] \in Nat
        /\ StrandsOf(stranded', t) \in Nat
    <3>1. homeToken'[t] \in Token /\ dustAccrued'[t] \in Nat
      BY DEF TypeOK, HomeTypeOK, EndpointTypeOK, RelayTypeOK
    <3> QED
      BY <1>5, <3>1, NamedAccounts, StrandsAreNat DEF Token
  <2>6. held[t].bal[Contract] = homeToken[t].bal[Contract] - BroughtBy(p, t)
                                + (IF t = rt THEN x ELSE 0)
    BY <1>8, <2>2
  <2>7. homeToken[t].bal[Contract]
          = dustAccrued[t] + InputsOf(queue, t) + StrandsOf(stranded, t)
    BY <1>0 DEF Books
  <2> QED
    BY <1>0, <1>7, <2>4, <2>5, <2>6, <2>7, BooksAreNumbers
<1>9. PICK out \in PoolOutputs : FillOrder(p, out) \/ RejectOrder(p, out)
  BY DEF ExecuteOrder
<1>10. out \in Nat
  BY RelayAssumption
<1>11. \A t \in Tokens : homeToken[t] \in Token /\ homeToken[t].bal[Contract] \in Nat
  BY <1>0, BooksAreNumbers
<1>12. CASE FillOrder(p, out)
  <2> DEFINE tOut   == OtherToken(p.t)
             a      == Transfer(homeToken[p.t], Contract, World, InputOf(p))
             b      == Transfer(homeToken[tOut], World, Contract, out)
             traded == [homeToken EXCEPT ![p.t] = a, ![tOut] = b]
             r      == [m |-> p.m, id |-> p.id, t |-> tOut, amount |-> out,
                        user |-> p.user, status |-> "FILLED"]
  <2>1. tOut \in Tokens /\ tOut # p.t /\ \A t \in Tokens : t = p.t \/ t = tOut
    BY <1>1 DEF OtherToken, Tokens
  <2>2. /\ ReturnToMirror(r, [homeToken EXCEPT ![p.t] = Transfer(@, Contract, World, InputOf(p)),
                                               ![tOut] = Transfer(@, World, Contract, out)],
                          stranded, native + ComposeValue)
        /\ CanPay(homeToken[p.t], Contract, InputOf(p))
        /\ CanPay(homeToken[tOut], World, out)
    BY <1>12 DEF FillOrder
  <2>3. a \in Token /\ b \in Token
    BY <1>2, <1>10, <1>11, <1>1, <2>1, <2>2, TransferType, NamedAccounts
  <2>4. a.bal[Contract] = homeToken[p.t].bal[Contract] - InputOf(p)
    <3>1. PICK k : k = homeToken[p.t]
      OBVIOUS
    <3>2. Transfer(k, Contract, World, InputOf(p)).bal[Contract] = k.bal[Contract] - InputOf(p)
      BY <1>1, <1>2, <1>11, <3>1, RelayIsDebited
    <3> QED
      BY <3>1, <3>2
  <2>5. b.bal[Contract] = homeToken[tOut].bal[Contract] + out
    <3>1. PICK k : k = homeToken[tOut]
      OBVIOUS
    <3>2. Transfer(k, World, Contract, out).bal[Contract] = k.bal[Contract] + out
      BY <1>10, <1>11, <2>1, <3>1, RelayIsDebited
    <3> QED
      BY <3>1, <3>2
  <2>6. r.m = p.m /\ r.id = p.id /\ r.t = tOut /\ r.amount = out
    OBVIOUS
  <2>7. ReturnToMirror(r, traded, stranded, native + ComposeValue)
    <3>1. traded = [homeToken EXCEPT ![p.t] = Transfer(@, Contract, World, InputOf(p)),
                                     ![tOut] = Transfer(@, World, Contract, out)]
      <4> HIDE DEF tOut
      <4> QED
        BY <2>1
    <3> HIDE DEF traded, r
    <3> QED
      BY <2>2, <3>1
  <2> HIDE DEF r, a, b, tOut
  <2>8. traded \in [Tokens -> Token] /\ traded[p.t] = a /\ traded[tOut] = b
    BY <1>1, <2>1, <2>3
  <2> HIDE DEF traded
  <2>9. \A t \in Tokens :
          traded[t].bal[Contract] = homeToken[t].bal[Contract] - BroughtBy(p, t)
                                    + (IF t = r.t THEN r.amount ELSE 0)
    <3> SUFFICES ASSUME NEW t \in Tokens
                 PROVE  traded[t].bal[Contract] = homeToken[t].bal[Contract] - BroughtBy(p, t)
                                                  + (IF t = r.t THEN r.amount ELSE 0)
      OBVIOUS
    <3>1. CASE t = p.t
      <4>1. BroughtBy(p, t) = InputOf(p) /\ t # r.t /\ traded[t] = a
        BY <2>1, <2>6, <2>8, <3>1 DEF BroughtBy
      <4> QED
        BY <1>2, <1>11, <2>4, <3>1, <4>1
    <3>2. CASE t = tOut
      <4>1. BroughtBy(p, t) = 0 /\ t = r.t /\ r.amount = out /\ traded[t] = b
        BY <2>1, <2>6, <2>8, <3>2 DEF BroughtBy
      <4> QED
        BY <1>10, <1>11, <2>5, <3>2, <4>1
    <3> QED
      BY <2>1, <3>1, <3>2
  <2>10. r.t \in Tokens /\ r.amount \in Nat
    BY <1>10, <2>1, <2>6
  <2>11. Books'
    BY <1>8, <2>6, <2>7, <2>8, <2>9, <2>10
  <2> QED
    BY <1>4, <2>11
<1>13. CASE RejectOrder(p, out)
  <2> DEFINE r == [m |-> p.m, id |-> p.id, t |-> p.t, amount |-> InputOf(p),
                   user |-> p.user, status |-> "REFUNDED"]
  <2>1. ReturnToMirror(r, homeToken, stranded, native + ComposeValue)
    BY <1>13 DEF RejectOrder
  <2>2. r.m = p.m /\ r.id = p.id /\ r.t = p.t /\ r.amount = InputOf(p)
    OBVIOUS
  <2> HIDE DEF r
  <2>3. \A t \in Tokens :
          homeToken[t].bal[Contract] = homeToken[t].bal[Contract] - BroughtBy(p, t)
                                       + (IF t = r.t THEN r.amount ELSE 0)
    BY <1>2, <1>11, <2>2 DEF BroughtBy
  <2>4. Books'
    BY <1>1, <1>2, <1>8, <2>1, <2>2, <2>3
  <2> QED
    BY <1>4, <2>4
<1> QED
  BY <1>9, <1>12, <1>13

(* What a clearing of a strand takes off the table.                        *)
LEMMA ClearedOwes ==
  ASSUME TypeOK, NEW m \in Mirrors, NEW id \in Ids, NEW t
  PROVE  /\ Cleared(m, id) \in StrandTables
         /\ Cleared(m, id)[m][id].amount = 0
         /\ HeldOf(stranded[m][id], t) \in Nat
         /\ StrandsOf(Cleared(m, id), t) \in Nat
         /\ StrandsOf(stranded, t) = StrandsOf(Cleared(m, id), t) + HeldOf(stranded[m][id], t)
<1>1. stranded \in StrandTables /\ Cleared(m, id) \in StrandTables
  BY StrandedTypes DEF TypeOK, HomeTypeOK, RelayTypeOK, StrandTables
<1>2. /\ DifferAt(Cleared(m, id), stranded, m, id)
      /\ Cleared(m, id)[m][id].amount = 0
  BY <1>1 DEF DifferAt, Cleared, StrandTables, Stranded
<1>3. PICK a \in StrandTables : a = Cleared(m, id)
  BY <1>1
<1>4. PICK b \in StrandTables : b = stranded
  BY <1>1
<1>5. /\ StrandsOf(a, t) \in Nat /\ HeldOf(b[m][id], t) \in Nat
      /\ StrandsOf(b, t) = StrandsOf(a, t) + HeldOf(b[m][id], t)
  BY <1>2, <1>3, <1>4, StrandWritten
<1> QED
  BY <1>1, <1>2, <1>3, <1>4, <1>5

(* A retry takes what the strand holds, in the strand's own asset.         *)
LEMMA RetryBooks ==
  ASSUME DebtInv, TypeOK', NEW m \in Mirrors, NEW id \in Ids, NEW v,
         RetrySent(m, id, v) \/ RetryStranded(m, id, v)
  PROVE  IsFiniteSet(queue)' /\ Books'
<1>0. TypeOK /\ IsFiniteSet(queue) /\ Books
  BY DEF DebtInv, WhereInv
<1>1. queue' = queue
  BY DEF RetrySent, RetryStranded
<1>2. PICK x \in Nat, rt \in Tokens :
        x = stranded[m][id].amount /\ rt = stranded[m][id].token
  BY <1>0, StrandedTypes
<1>3. PICK r : r = Retried(m, id)
  OBVIOUS
<1>4. r.m = m /\ r.id = id /\ r.t = rt /\ r.amount = x
  BY <1>2, <1>3 DEF Retried
<1>5. PICK owed, held, funds :
        owed = Cleared(m, id) /\ held = homeToken /\ funds = native + v
  OBVIOUS
<1>6. LegDone(r, held, owed, funds)
  BY <1>3, <1>5 DEF RetrySent, RetryStranded, LegDone
<1>7. stranded' \in StrandTables /\ held \in [Tokens -> Token]
  BY <1>0, <1>5 DEF TypeOK, HomeTypeOK, EndpointTypeOK, RelayTypeOK, StrandTables
<1> SUFFICES ASSUME NEW t \in Tokens
             PROVE  homeToken'[t].bal[Contract]
                      = dustAccrued'[t] + InputsOf(queue', t) + StrandsOf(stranded', t)
  BY <1>0, <1>1 DEF Books
<1>8. /\ owed \in StrandTables /\ owed[m][id].amount = 0
      /\ StrandsOf(owed, t) \in Nat
      /\ HeldOf(stranded[m][id], t) \in Nat
      /\ StrandsOf(stranded, t) = StrandsOf(owed, t) + HeldOf(stranded[m][id], t)
  BY <1>0, <1>5, ClearedOwes
<1>9. HeldOf(stranded[m][id], t) = IF t = rt THEN x ELSE 0
  BY <1>2 DEF HeldOf
<1>10. homeToken'[t].bal[Contract] - dustAccrued'[t] - StrandsOf(stranded', t)
        = held[t].bal[Contract] - dustAccrued[t] - StrandsOf(owed, t)
          - (IF t = rt THEN x ELSE 0)
  <2>1. owed \in StrandTables /\ owed[m][id].amount = 0
    BY <1>8
  <2> QED
    BY <1>0, <1>4, <1>6, <1>7, <2>1, ReturnBalances
<1>11. homeToken'[t].bal[Contract] \in Nat /\ dustAccrued'[t] \in Nat
       /\ StrandsOf(stranded', t) \in Nat
  <2>1. homeToken'[t] \in Token /\ dustAccrued'[t] \in Nat
    BY DEF TypeOK, HomeTypeOK, EndpointTypeOK, RelayTypeOK
  <2> QED
    BY <1>7, <2>1, NamedAccounts, StrandsAreNat DEF Token
<1>12. homeToken[t].bal[Contract]
         = dustAccrued[t] + InputsOf(queue, t) + StrandsOf(stranded, t)
  BY <1>0 DEF Books
<1>13. /\ held[t].bal[Contract] = homeToken[t].bal[Contract] /\ InputsOf(queue', t) = InputsOf(queue, t)
       /\ homeToken[t].bal[Contract] \in Nat /\ dustAccrued[t] \in Nat
       /\ InputsOf(queue, t) \in Nat
  BY <1>0, <1>1, <1>5, BooksAreNumbers
<1> QED
  BY <1>8, <1>9, <1>10, <1>11, <1>12, <1>13

(* A strand that is claimed leaves the books with the tokens.              *)
LEMMA ClaimBooks ==
  ASSUME DebtInv, NEW m \in Mirrors, NEW id \in Ids, ClaimStranded(m, id)
  PROVE  IsFiniteSet(queue)' /\ Books'
<1>0. TypeOK /\ IsFiniteSet(queue) /\ Books
  BY DEF DebtInv, WhereInv
<1>1. PICK x \in Nat, rt \in Tokens, u \in Users :
        /\ x = stranded[m][id].amount /\ rt = stranded[m][id].token
        /\ u = stranded[m][id].beneficiary
  BY <1>0, StrandedTypes, RelayAssumption DEF ClaimStranded
<1>2. /\ queue' = queue /\ dustAccrued' = dustAccrued
      /\ stranded' = Cleared(m, id)
      /\ homeToken' = [homeToken EXCEPT ![rt] = Transfer(@, Contract, u, x)]
  BY <1>1 DEF ClaimStranded
<1> SUFFICES ASSUME NEW t \in Tokens
             PROVE  homeToken'[t].bal[Contract]
                      = dustAccrued'[t] + InputsOf(queue', t) + StrandsOf(stranded', t)
  BY <1>0, <1>2 DEF Books
<1>3. /\ StrandsOf(stranded', t) \in Nat
      /\ HeldOf(stranded[m][id], t) \in Nat
      /\ StrandsOf(stranded, t) = StrandsOf(stranded', t) + HeldOf(stranded[m][id], t)
  BY <1>0, <1>2, ClearedOwes
<1>4. HeldOf(stranded[m][id], t) = IF t = rt THEN x ELSE 0
  BY <1>1 DEF HeldOf
<1>5. homeToken'[t].bal[Contract] = homeToken[t].bal[Contract] - (IF t = rt THEN x ELSE 0)
  <2>1. homeToken \in [Tokens -> Token] /\ homeToken[t].bal[Contract] \in Nat
    BY <1>0, BooksAreNumbers DEF TypeOK, HomeTypeOK, EndpointTypeOK
  <2>2. PICK k \in Token : k = homeToken[rt]
    BY <2>1
  <2>3. Transfer(k, Contract, u, x).bal[Contract] = k.bal[Contract] - x
    BY RelayIsDebited
  <2> QED
    BY <1>2, <2>1, <2>2, <2>3
<1> QED
  BY <1>0, <1>2, <1>3, <1>4, <1>5, BooksAreNumbers DEF Books

(* sweepDust pays out what is recorded as dust, and no more.               *)
LEMMA SweepBooks ==
  ASSUME DebtInv, NEW rt \in Tokens, SweepDust(rt)
  PROVE  IsFiniteSet(queue)' /\ Books'
<1>0. TypeOK /\ IsFiniteSet(queue) /\ Books
  BY DEF DebtInv, WhereInv
<1>1. PICK x \in Nat : x = dustAccrued[rt]
  BY <1>0, BooksAreNumbers
<1>2. /\ queue' = queue /\ stranded' = stranded
      /\ dustAccrued' = [dustAccrued EXCEPT ![rt] = 0]
      /\ homeToken' = [homeToken EXCEPT ![rt] = Transfer(@, Contract, World, x)]
  BY <1>1 DEF SweepDust
<1> SUFFICES ASSUME NEW t \in Tokens
             PROVE  homeToken'[t].bal[Contract]
                      = dustAccrued'[t] + InputsOf(queue', t) + StrandsOf(stranded', t)
  BY <1>0, <1>2 DEF Books
<1>3. /\ homeToken \in [Tokens -> Token] /\ homeToken[t].bal[Contract] \in Nat
      /\ dustAccrued \in [Tokens -> Nat]
  BY <1>0, BooksAreNumbers DEF TypeOK, HomeTypeOK, EndpointTypeOK, RelayTypeOK
<1>4. /\ homeToken'[t].bal[Contract] = homeToken[t].bal[Contract] - (IF t = rt THEN x ELSE 0)
      /\ dustAccrued'[t] = IF t = rt THEN 0 ELSE dustAccrued[t]
  <2>1. PICK k \in Token : k = homeToken[rt]
    BY <1>3
  <2>2. Transfer(k, Contract, World, x).bal[Contract] = k.bal[Contract] - x
    BY RelayIsDebited
  <2> QED
    BY <1>2, <1>3, <2>1, <2>2
<1> QED
  BY <1>0, <1>1, <1>2, <1>4, BooksAreNumbers DEF Books

(* Every step keeps the books.                                             *)
LEMMA DebtStep ==
  ASSUME DebtInv, TypeOK', [Next]_vars
  PROVE  IsFiniteSet(queue)' /\ Books'
<1>0. IsFiniteSet(queue) /\ Books
  BY DEF DebtInv
<1>1. ASSUME UNCHANGED <<homeToken, queue, stranded, dustAccrued>>
      PROVE  IsFiniteSet(queue)' /\ Books'
  BY <1>0, <1>1 DEF Books
<1>2. CASE MirrorStep \/ UNCHANGED vars
  BY <1>1, <1>2 DEF MirrorStep, vars, homeVars, endpointVars, relayVars
<1>3. CASE HomeStep
  <2>1. CASE Delivering
    <3>1. PICK p \in orders : (Verify(p) \/ ReceiveOrder(p)) /\ UNCHANGED relayVars
      BY <2>1 DEF Delivering
    <3>2. CASE Verify(p)
      BY <1>1, <3>1, <3>2 DEF Verify, relayVars
    <3>3. CASE ReceiveOrder(p)
      BY <3>1, <3>3, DeliveryBooks
    <3> QED
      BY <3>1, <3>2, <3>3
  <2>2. ASSUME NEW p \in queue, ExecuteOrder(p)
        PROVE  IsFiniteSet(queue)' /\ Books'
    BY <2>2, ExecutionBooks
  <2>3. CASE Recovering
    <3>1. ASSUME NEW m \in Mirrors, NEW id \in Ids, NEW v,
                 RetrySent(m, id, v) \/ RetryStranded(m, id, v)
          PROVE  IsFiniteSet(queue)' /\ Books'
      BY <3>1, RetryBooks
    <3>2. ASSUME NEW m \in Mirrors, NEW id \in Ids, ClaimStranded(m, id)
          PROVE  IsFiniteSet(queue)' /\ Books'
      BY <3>2, ClaimBooks
    <3>3. ASSUME NEW p \in orders, NEW h \in BOOLEAN, CancelStuckInbound(p, h)
          PROVE  IsFiniteSet(queue)' /\ Books'
      BY <1>1, <3>3 DEF CancelStuckInbound
    <3> QED
      BY <2>3, <3>1, <3>2, <3>3 DEF Recovering
  <2>4. CASE Operating
    <3>1. ASSUME NEW t \in Tokens, SweepDust(t)
          PROVE  IsFiniteSet(queue)' /\ Books'
      BY <3>1, SweepBooks
    <3>2. ASSUME NEW v, FundNative(v) \/ WithdrawNative(v)
          PROVE  IsFiniteSet(queue)' /\ Books'
      BY <1>1, <3>2 DEF FundNative, WithdrawNative, endpointVars
    <3> QED
      BY <2>4, <3>1, <3>2 DEF Operating
  <2> QED
    BY <1>3, <2>1, <2>2, <2>3, <2>4 DEF HomeStep, HomeNext
<1> QED
  BY <1>2, <1>3 DEF Next

(* The relay starts with nothing.                                          *)
LEMMA BooksAtStart ==
  ASSUME Init
  PROVE  IsFiniteSet(queue) /\ Books
<1>1. /\ queue = {}
      /\ \A t \in Tokens : homeToken[t].bal[Contract] = 0 /\ dustAccrued[t] = 0
      /\ \A m \in Mirrors, i \in Ids : stranded[m][i].amount = 0
  <2>1. Contract # World /\ Contract # Vault
    BY DEF Contract, World, Vault
  <2> QED
    BY <2>1, NamedAccounts DEF Init, HomeInit, EndpointInit, RelayInit, HomeTokenAtStart
<1>2. IsFiniteSet(queue)
  BY <1>1, FS_EmptySet
<1>3. ASSUME NEW t \in Tokens
      PROVE  InputsOf(queue, t) = 0 /\ StrandsOf(stranded, t) = 0
  <2>1. InputsOf(queue, t) = 0
    BY <1>1, SumOfNone DEF InputsOf
  <2>2. StrandsOf(stranded, t) = 0
    <3> DEFINE S == Mirrors \X Ids
               f == [k \in S |-> HeldOf(stranded[k[1]][k[2]], t)]
    <3>1. \A k \in S : f[k] = 0
      BY <1>1 DEF HeldOf
    <3>2. IsFiniteSet(S)
      BY WireAssumption, IdsFinite, FS_Product
    <3> HIDE DEF f, S
    <3>3. SumFunctionOnSet(f, S) = 0
      BY <3>1, <3>2, SumOfZeros
    <3> QED
      BY <3>3 DEF StrandsOf, f, S
  <2> QED
    BY <2>1, <2>2
<1> QED
  BY <1>1, <1>2, <1>3 DEF Books

(***************************************************************************)
(* What the relay holds of an asset is the dust it recorded, the strands   *)
(* it owes in that asset and the orders it has not run, in every reachable *)
(* state and for every value of the constants: no strand is recorded in    *)
(* the wrong asset, and no sweep of dust reaches users' tokens.            *)
(***************************************************************************)
THEOREM RelayOwesWhatItHolds == Spec => []RelayHoldsItsDebts
<1>1. Init => IsFiniteSet(queue) /\ Books
  BY BooksAtStart
<1>2. (IsFiniteSet(queue) /\ Books) /\ WhereInv /\ WhereInv' /\ [Next]_vars
        => (IsFiniteSet(queue) /\ Books)'
  BY DebtStep DEF DebtInv, WhereInv
<1>3. Books => RelayHoldsItsDebts
  BY DebtsAreSums DEF Books, RelayHoldsItsDebts
<1> QED
  BY <1>1, <1>2, <1>3, WhereInvariant, PTL DEF Spec

(***************************************************************************)
(* The home chain, as the mirrors see it.  An order is owed an answer      *)
(* while its packet can still be executed, waits for the relay or is       *)
(* stranded there (StillOwed); a step of the home chain answers one of     *)
(* them, announces a strand, kills one, pays one out, or does nothing a    *)
(* mirror could tell.  That takes an invariant: what is under way can be   *)
(* written again from the request, what is stranded is a result the        *)
(* promise allows, and a nonce of a path is used once.                     *)
(***************************************************************************)

(* A path and a nonce name one packet, of those its path has given out,    *)
(* and the endpoint is at none beyond.                                     *)
NoncesOrdered ==
  /\ \A p \in orders \cup queue : p.nonce \in 1..outNonce[p.m][p.t]
  /\ \A p, q \in orders \cup queue :
       p.m = q.m /\ p.t = q.t /\ p.nonce = q.nonce => p = q
  /\ \A m \in Mirrors, t \in Tokens :
       lazy[m][t] <= outNonce[m][t] /\ outNonce[m][t] <= MaxNonce

(* What an order sent says what its request says.                          *)
PacketsMatch ==
  \A p \in orders \cup queue : p.id # 0 =>
    requests[p.m][p.id].status # "NONE" /\ p = PacketOf(p.m, p.id)

(* What may become of order p on the home chain: its input, or an output   *)
(* of the pool that meets its floor.                                       *)
ResultOf(p, t, x) ==
  \/ t = p.t /\ x = InputOf(p)
  \/ t = OtherToken(p.t) /\ x \in PoolOutputs /\ x >= FloorOf(p)

StrandsMatch ==
  \A m \in Mirrors, i \in Ids : stranded[m][i].amount > 0 =>
    ResultOf(PacketOf(m, i), stranded[m][i].token, stranded[m][i].amount)

(* The messages of mirror m's paths that wait for nothing any more.        *)
Handled(m) ==
  {k \in Tokens \X (1..MaxNonce) :
     /\ k[2] <= outNonce[m][k[1]]
     /\ \A p \in Alive \cup queue : ~(p.m = m /\ p.t = k[1] /\ p.nonce = k[2])}

(* Each of them had one notice at most, besides those of retries.          *)
NoticesCounted ==
  \A m \in Mirrors : noticeNonce[m] <= MaxNotices + Cardinality(Handled(m))

(* The invariant, beside the tables and places of every order.             *)
PromiseInv == WhereInv /\ NoncesOrdered /\ PacketsMatch /\ StrandsMatch /\ NoticesCounted

-----------------------------------------------------------------------------
(* What was under way can be written again after any step.                 *)
LEMMA PacketStays ==
  ASSUME EntriesKept, NEW m \in Mirrors, NEW i \in Ids, requests[m][i].status # "NONE"
  PROVE  PacketOf(m, i)' = PacketOf(m, i)
BY DEF PacketOf, EntriesKept

(* It is what the mirror sent.                                             *)
LEMMA PacketIsOrder ==
  ASSUME NEW m, NEW i
  PROVE  PacketOf(m, i)' = OrderOf(m, i)'
BY DEF PacketOf, OrderOf

-----------------------------------------------------------------------------
(* The mirrors.                                                            *)

(* What is owed, one by one.                                               *)
LEMMA OwedOnes ==
  ASSUME NEW p
  PROVE  p \in StillOwed <=>
           \/ p \in Alive
           \/ p \in queue
           \/ \E m \in Mirrors, i \in Ids : stranded[m][i].amount > 0 /\ p = PacketOf(m, i)
<1> DEFINE S == {k \in Mirrors \X Ids : stranded[k[1]][k[2]].amount > 0}
<1>1. (\E k \in S : p = PacketOf(k[1], k[2])) <=>
        \E m \in Mirrors, i \in Ids : stranded[m][i].amount > 0 /\ p = PacketOf(m, i)
  <2>1. ASSUME NEW k \in S, p = PacketOf(k[1], k[2])
        PROVE  \E m \in Mirrors, i \in Ids : stranded[m][i].amount > 0 /\ p = PacketOf(m, i)
    <3>1. k[1] \in Mirrors /\ k[2] \in Ids /\ stranded[k[1]][k[2]].amount > 0
      OBVIOUS
    <3> QED
      BY <2>1, <3>1
  <2>2. ASSUME NEW m \in Mirrors, NEW i \in Ids, stranded[m][i].amount > 0, p = PacketOf(m, i)
        PROVE  \E k \in S : p = PacketOf(k[1], k[2])
    <3>1. <<m, i>> \in S /\ <<m, i>>[1] = m /\ <<m, i>>[2] = i
      BY <2>2
    <3> QED
      BY <2>2, <3>1
  <2> QED
    BY <2>1, <2>2
<1> QED
  BY <1>1 DEF StillOwed

(* And after it.                                                           *)
LEMMA OwedOnesNext ==
  ASSUME NEW p
  PROVE  p \in StillOwed' <=>
           \/ p \in Alive'
           \/ p \in queue'
           \/ \E m \in Mirrors, i \in Ids : stranded'[m][i].amount > 0 /\ p = PacketOf(m, i)'
<1> DEFINE S == {k \in Mirrors \X Ids : stranded'[k[1]][k[2]].amount > 0}
<1>1. (\E k \in S : p = PacketOf(k[1], k[2])') <=>
        \E m \in Mirrors, i \in Ids : stranded'[m][i].amount > 0 /\ p = PacketOf(m, i)'
  <2>1. ASSUME NEW k \in S, p = PacketOf(k[1], k[2])'
        PROVE  \E m \in Mirrors, i \in Ids : stranded'[m][i].amount > 0 /\ p = PacketOf(m, i)'
    <3>1. k[1] \in Mirrors /\ k[2] \in Ids /\ stranded'[k[1]][k[2]].amount > 0
      OBVIOUS
    <3> QED
      BY <2>1, <3>1
  <2>2. ASSUME NEW m \in Mirrors, NEW i \in Ids, stranded'[m][i].amount > 0, p = PacketOf(m, i)'
        PROVE  \E k \in S : p = PacketOf(k[1], k[2])'
    <3>1. <<m, i>> \in S /\ <<m, i>>[1] = m /\ <<m, i>>[2] = i
      BY <2>2
    <3> QED
      BY <2>2, <3>1
  <2> QED
    BY <2>1, <2>2
<1>2. StillOwed' = Alive' \cup queue' \cup {PacketOf(k[1], k[2])' : k \in S}
  BY DEF StillOwed
<1> HIDE DEF S
<1> QED
  BY <1>1, <1>2

(* Only a request that was taken has a strand, and it is nowhere else.     *)
LEMMA StrandsAlone ==
  ASSUME PlaceInv, NEW m \in Mirrors, NEW i \in Ids, stranded[m][i].amount > 0
  PROVE  /\ requests[m][i].status # "NONE"
         /\ \A p \in orders \cup queue : ~(p.m = m /\ p.id = i)
<1>1. At("stranded", m, i) # {}
  BY AtKinds
<1>2. Placed(m, i)
  BY DEF PlaceInv
<1>3. requests[m][i].status # "NONE"
  BY <1>1, <1>2 DEF Placed, Settled, Kinds
<1>4. At("orders", m, i) = {} /\ At("queue", m, i) = {}
  BY <1>1, <1>2 DEF Placed, Kinds
<1>5. Holds(orders, m, i) = {} /\ Holds(queue, m, i) = {}
  BY <1>4, AtKinds
<1> QED
  BY <1>3, <1>5 DEF Holds

(* What waits for the relay is nowhere else, and once there.               *)
LEMMA QueuedAlone ==
  ASSUME TypeOK, PlaceInv, NEW p \in queue
  PROVE  /\ p.m \in Mirrors /\ p.t \in Tokens /\ p.id \in Ids /\ p.id # 0
         /\ p.nonce \in Nat /\ p.sd \in Nat /\ p.min \in Nat
         /\ ~(stranded[p.m][p.id].amount > 0)
         /\ p \notin orders
         /\ \A q \in queue : q.m = p.m /\ q.id = p.id => q = p
<1>1. p \in OrderPacket /\ p.id # 0 /\ queue \subseteq OrderPacket
  BY DEF TypeOK, HomeTypeOK, EndpointTypeOK
<1>2. p.m \in Mirrors /\ p.t \in Tokens /\ p.id \in Ids /\ p.nonce \in Nat /\ p.sd \in Nat /\ p.min \in Nat
  BY <1>1 DEF OrderPacket
<1>3. Placed(p.m, p.id)
  BY <1>2 DEF PlaceInv
<1>4. p \in Holds(queue, p.m, p.id)
  BY DEF Holds
<1>5. p \in At("queue", p.m, p.id)
  BY <1>4 DEF At
<1>6. At("stranded", p.m, p.id) = {} /\ At("orders", p.m, p.id) = {}
  BY <1>3, <1>5 DEF Placed, Kinds
<1>7. ~(stranded[p.m][p.id].amount > 0) /\ Holds(orders, p.m, p.id) = {}
  BY <1>6, AtKinds
<1>8. p \notin orders
  BY <1>7 DEF Holds
<1>9. ASSUME NEW q \in queue, q.m = p.m, q.id = p.id
      PROVE  q = p
  <2>1. q \in At("queue", p.m, p.id)
    BY <1>9 DEF Holds, At
  <2> QED
    BY <2>1, <1>3, <1>5 DEF Placed, Kinds
<1> QED
  BY <1>1, <1>2, <1>7, <1>8, <1>9

(* A mirror that sends nothing leaves what is owed as it is;               *)
LEMMA NothingSentOwed ==
  ASSUME PlaceInv, EntriesKept, orders' = orders, UNCHANGED homeVars
  PROVE  StillOwed' = StillOwed
<1>1. queue' = queue /\ stranded' = stranded /\ Alive' = Alive
  BY DEF homeVars, endpointVars, relayVars, Alive, Dead
<1>2. \A m \in Mirrors, i \in Ids : stranded[m][i].amount > 0 => PacketOf(m, i)' = PacketOf(m, i)
  BY StrandsAlone, PacketStays
<1>3. \A p : p \in StillOwed' <=> p \in StillOwed
  <2> TAKE p
  <2>1. p \in StillOwed' <=>
           \/ p \in Alive
           \/ p \in queue
           \/ \E m \in Mirrors, i \in Ids : stranded[m][i].amount > 0 /\ p = PacketOf(m, i)
    BY <1>1, <1>2, OwedOnesNext
  <2> QED
    BY <2>1, OwedOnes
<1> QED
  BY <1>3

(* one that sends a packet adds it.                                        *)
LEMMA SentOwed ==
  ASSUME TypeOK, PlaceInv, NoncesOrdered, EntriesKept, NEW p, SendsPacket(p), UNCHANGED homeVars
  PROVE  StillOwed' = StillOwed \cup {p} /\ Alive' = Alive \cup {p}
<1>1. queue' = queue /\ stranded' = stranded /\ lazy' = lazy /\ verified' = verified
  BY DEF homeVars, endpointVars, relayVars
<1>2. p.m \in Mirrors /\ p.t \in Tokens /\ p.nonce = outNonce[p.m][p.t] + 1
  BY DEF SendsPacket, OrderPacket
<1>3. ~Dead(p.m, p.t, p.nonce)
  <2>1. outNonce[p.m][p.t] \in Nat /\ lazy[p.m][p.t] \in Nat
    BY <1>2 DEF TypeOK, MirrorTypeOK, WireTypeOK, HomeTypeOK, EndpointTypeOK
  <2>2. lazy[p.m][p.t] <= outNonce[p.m][p.t]
    BY <1>2 DEF NoncesOrdered
  <2> QED
    BY <1>2, <2>1, <2>2 DEF Dead
<1>4. Alive' = Alive \cup {p}
  BY <1>1, <1>3 DEF Alive, Dead, SendsPacket
<1>5. \A m \in Mirrors, i \in Ids : stranded[m][i].amount > 0 => PacketOf(m, i)' = PacketOf(m, i)
  BY StrandsAlone, PacketStays
<1>6. \A q : q \in StillOwed' <=> q \in StillOwed \cup {p}
  <2> TAKE q
  <2>1. q \in StillOwed' <=>
           \/ q \in Alive \cup {p}
           \/ q \in queue
           \/ \E m \in Mirrors, i \in Ids : stranded[m][i].amount > 0 /\ q = PacketOf(m, i)
    BY <1>1, <1>4, <1>5, OwedOnesNext
  <2> QED
    BY <2>1, OwedOnes
<1> QED
  BY <1>4, <1>6

-----------------------------------------------------------------------------
(* The invariant, on the mirrors.                                          *)

(* What is handled on two moments, counted.                                *)
LEMMA HandledCounts ==
  ASSUME NEW m
  PROVE  /\ Cardinality(Handled(m)) \in Nat /\ Cardinality(Handled(m)') \in Nat
         /\ Cardinality(Handled(m)) <= 2 * MaxNonce
         /\ Handled(m) \subseteq Handled(m)' => Cardinality(Handled(m)) <= Cardinality(Handled(m)')
<1>1. /\ Handled(m) \subseteq Tokens \X (1..MaxNonce)
      /\ Handled(m)' \subseteq Tokens \X (1..MaxNonce)
  BY DEF Handled
<1>2. PICK S, T : S = Handled(m) /\ T = Handled(m)'
  OBVIOUS
<1>3. /\ IsFiniteSet(S) /\ IsFiniteSet(T) /\ Cardinality(S) \in Nat /\ Cardinality(T) \in Nat
      /\ Cardinality(S) <= 2 * MaxNonce
  BY <1>1, <1>2, PathSlots
<1>4. S \subseteq T => Cardinality(S) <= Cardinality(T)
  BY <1>3, FS_Subset
<1> QED
  BY <1>2, <1>3, <1>4

(* Orders and what is queued name mirrors, assets and requests.            *)
LEMMA PacketTypes ==
  ASSUME TypeOK, NEW p \in orders \cup queue
  PROVE  /\ p \in OrderPacket
         /\ p.m \in Mirrors /\ p.t \in Tokens /\ p.nonce \in Nat
         /\ p.id # 0 => p.id \in Ids
BY DEF TypeOK, MirrorTypeOK, WireTypeOK, HomeTypeOK, EndpointTypeOK, OrderPacket

(* A step that sends nothing, keeps the home chain as it is.               *)
LEMMA NothingSentKeeps ==
  ASSUME PromiseInv, EntriesKept, UNCHANGED homeVars, UNCHANGED <<orders, outNonce, noticeNonce>>
  PROVE  NoncesOrdered' /\ PacketsMatch' /\ StrandsMatch' /\ NoticesCounted'
<1>0. TypeOK /\ PlaceInv
  BY DEF PromiseInv, WhereInv
<1>1. queue' = queue /\ stranded' = stranded /\ lazy' = lazy /\ verified' = verified /\ Alive' = Alive
  BY DEF homeVars, endpointVars, relayVars, Alive, Dead
<1>2. NoncesOrdered'
  BY <1>1 DEF PromiseInv, NoncesOrdered
<1>3. PacketsMatch'
  BY <1>0, <1>1, PacketTypes, PacketStays DEF PromiseInv, PacketsMatch, EntriesKept
<1>4. StrandsMatch'
  BY <1>0, <1>1, StrandsAlone, PacketStays DEF PromiseInv, StrandsMatch
<1>5. NoticesCounted'
  <2>1. \A m : Handled(m)' = Handled(m)
    BY <1>1 DEF Handled
  <2> QED
    BY <2>1 DEF PromiseInv, NoticesCounted
<1> QED
  BY <1>2, <1>3, <1>4, <1>5

(* One that sends a packet takes a fresh nonce for it.                     *)
LEMMA SendingKeeps ==
  ASSUME PromiseInv, EntriesKept, UNCHANGED homeVars, noticeNonce' = noticeNonce,
         NEW p, SendsPacket(p)
  PROVE  NoncesOrdered' /\ PacketsMatch' /\ StrandsMatch' /\ NoticesCounted'
<1>0. TypeOK /\ PlaceInv /\ NoncesOrdered
  BY DEF PromiseInv, WhereInv
<1>1. /\ queue' = queue /\ stranded' = stranded /\ lazy' = lazy /\ verified' = verified
      /\ orders' = orders \cup {p}
      /\ Alive' = Alive \cup {p}
  BY <1>0, SentOwed DEF homeVars, endpointVars, relayVars, SendsPacket
<1>2. /\ p.m \in Mirrors /\ p.t \in Tokens /\ p.nonce = outNonce[p.m][p.t] + 1
      /\ p.id # 0 => p.id \in Ids
      /\ outNonce \in [Mirrors -> [Tokens -> Nat]]
      /\ lazy \in [Mirrors -> [Tokens -> Nat]]
  BY <1>0 DEF SendsPacket, OrderPacket, TypeOK, MirrorTypeOK, WireTypeOK, HomeTypeOK, EndpointTypeOK
<1>3. \A m \in Mirrors, t \in Tokens :
        outNonce'[m][t] = IF m = p.m /\ t = p.t THEN p.nonce ELSE outNonce[m][t]
  BY <1>2 DEF SendsPacket
<1>4. NoncesOrdered'
  <2>1. \A q \in orders' \cup queue' : q.nonce \in 1..outNonce'[q.m][q.t]
    <3>1. ASSUME NEW q \in orders \cup queue
          PROVE  q.nonce \in 1..outNonce'[q.m][q.t]
      <4>1. q.m \in Mirrors /\ q.t \in Tokens /\ q.nonce \in 1..outNonce[q.m][q.t]
        BY <1>0, PacketTypes DEF NoncesOrdered
      <4> QED
        BY <1>2, <1>3, <4>1
    <3>2. p.nonce \in 1..outNonce'[p.m][p.t]
      BY <1>2, <1>3
    <3> QED
      BY <1>1, <3>1, <3>2
  <2>2. \A q \in orders \cup queue : ~(q.m = p.m /\ q.t = p.t /\ q.nonce = p.nonce)
    BY <1>0, <1>2, PacketTypes DEF NoncesOrdered
  <2>3. \A q, r \in orders' \cup queue' :
          q.m = r.m /\ q.t = r.t /\ q.nonce = r.nonce => q = r
    BY <1>0, <1>1, <2>2 DEF NoncesOrdered
  <2>4. \A m \in Mirrors, t \in Tokens :
          lazy'[m][t] <= outNonce'[m][t] /\ outNonce'[m][t] <= MaxNonce
    BY <1>0, <1>1, <1>2, <1>3 DEF NoncesOrdered, SendsPacket
  <2> QED
    BY <2>1, <2>3, <2>4 DEF NoncesOrdered
<1>5. PacketsMatch'
  <2>1. ASSUME NEW q \in orders \cup queue, q.id # 0
        PROVE  requests'[q.m][q.id].status # "NONE" /\ q = PacketOf(q.m, q.id)'
    BY <1>0, <2>1, PacketTypes, PacketStays DEF PromiseInv, PacketsMatch, EntriesKept
  <2>2. p.id # 0 => requests'[p.m][p.id].status # "NONE" /\ p = PacketOf(p.m, p.id)'
    BY PacketIsOrder DEF SendsPacket
  <2> QED
    BY <1>1, <2>1, <2>2 DEF PacketsMatch
<1>6. StrandsMatch'
  BY <1>0, <1>1, StrandsAlone, PacketStays DEF PromiseInv, StrandsMatch
<1>7. NoticesCounted'
  <2> SUFFICES ASSUME NEW m \in Mirrors
               PROVE  noticeNonce'[m] <= MaxNotices + Cardinality(Handled(m)')
    BY DEF NoticesCounted
  <2>1. Handled(m) \subseteq Handled(m)'
    <3> SUFFICES ASSUME NEW k \in Handled(m)
                 PROVE  k \in Handled(m)'
      OBVIOUS
    <3>1. /\ k \in Tokens \X (1..MaxNonce) /\ k[1] \in Tokens /\ k[2] \in Nat
          /\ k[2] <= outNonce[m][k[1]]
          /\ \A q \in Alive \cup queue : ~(q.m = m /\ q.t = k[1] /\ q.nonce = k[2])
      BY DEF Handled
    <3>2. k[2] <= outNonce'[m][k[1]]
      BY <1>2, <1>3, <3>1
    <3>3. ~(p.m = m /\ p.t = k[1] /\ p.nonce = k[2])
      BY <1>2, <3>1
    <3> QED
      BY <1>1, <3>1, <3>2, <3>3 DEF Handled
  <2>2. noticeNonce[m] \in Nat /\ MaxNotices \in Nat
    BY <1>0, RelayAssumption DEF TypeOK, MirrorTypeOK, WireTypeOK
  <2>3. noticeNonce[m] <= MaxNotices + Cardinality(Handled(m))
    BY DEF PromiseInv, NoticesCounted
  <2> QED
    BY <2>1, <2>2, <2>3, HandledCounts
<1> QED
  BY <1>4, <1>5, <1>6, <1>7

-----------------------------------------------------------------------------
(* A step on a mirror is one of SwapRequest facing the promise: its        *)
(* actions read nothing of the home chain, and add to what is owed when    *)
(* they send.                                                              *)
OwedFollows ==
  /\ orders' = orders => StillOwed' = StillOwed
  /\ \A p : orders' = orders \cup {p} /\ p.nonce = outNonce[p.m][p.t] + 1 =>
       StillOwed' = StillOwed \cup {p}

(* Taking an order, whoever asks.                                          *)
LEMMA SubmitMaps ==
  ASSUME NEW m, NEW trade, NEW partner, NEW bps, NEW recipient,
         Submit(m, trade, partner, bps, recipient), OwedFollows
  PROVE  Promise!Submit(m, trade, partner, bps, recipient)
BY DEF OwedFollows,
     Submit, Promise!Submit, SendOrder, Promise!SendOrder, EscrowFees, Promise!EscrowFees,
     Transfer, Promise!Transfer, Burn, Promise!Burn, FeeOf, Promise!FeeOf, EscrowTotal,
     Promise!EscrowTotal, RemoveDust, Promise!RemoveDust, ToShared, Promise!ToShared, ToLocal,
     Promise!ToLocal, FloorToShared, Promise!FloorToShared, Contract, Promise!Contract, Ids,
     Promise!Ids, CanPay, Promise!CanPay, NewRequest, Promise!NewRequest, adminVars,
     Promise!adminVars, TokenIn, Promise!TokenIn, TokenOut, Promise!TokenOut

(* buy, sell and their forms through a partner.                            *)
LEMMA OrderingMaps ==
  ASSUME Ordering, OwedFollows
  PROVE  Promise!Ordering
<1>1. ASSUME NEW m \in Mirrors, NEW trade \in Trades, SubmitOpen(m, trade)
      PROVE  Promise!SubmitOpen(m, trade)
  BY <1>1, SubmitMaps DEF SubmitOpen, Promise!SubmitOpen
<1>2. ASSUME NEW auth \in Authorizations, SubmitVia(auth)
      PROVE  Promise!SubmitVia(auth)
  BY <1>2, SubmitMaps DEF SubmitVia, Promise!SubmitVia, Authorize, Promise!Authorize
<1> QED
  BY <1>1, <1>2 DEF Ordering, Promise!Ordering

(* Transfers of one's own, and returns that arrive.                        *)
LEMMA BridgingMaps ==
  ASSUME Bridging, OwedFollows
  PROVE  Promise!Bridging
<1>0. UNCHANGED requestVars => UNCHANGED Promise!requestVars
  BY DEF requestVars, Promise!requestVars
<1>1. ASSUME NEW m \in Mirrors, NEW t \in Tokens, NEW u \in Users, NEW sd \in DirectAmounts,
             DirectSend(m, t, u, sd)
      PROVE  Promise!DirectSend(m, t, u, sd)
  BY <1>1 DEF OwedFollows,
     DirectSend, Promise!DirectSend, SendOrder, Promise!SendOrder, Burn, Promise!Burn, ToLocal,
     Promise!ToLocal, CanPay, Promise!CanPay
<1>2. ASSUME NEW p \in returns, ReceiveReturn(p)
      PROVE  Promise!ReceiveReturn(p)
  BY <1>2 DEF OwedFollows,
     ReceiveReturn, Promise!ReceiveReturn, Mint, Promise!Mint, ToLocal, Promise!ToLocal,
     Contract, Promise!Contract
<1>3. Promise!Tokens = Tokens
  BY DEF Tokens, Promise!Tokens
<1> QED
  BY <1>0, <1>1, <1>2, <1>3 DEF Bridging, Promise!Bridging

(* The fee ledger is the same on both sides.                               *)
LEMMA FeesMap ==
  ASSUME NEW m, NEW i
  PROVE  /\ EarnFees(m, i) => Promise!EarnFees(m, i)
         /\ \A held, accepted : ReturnFees(m, i, held, accepted) =>
              Promise!ReturnFees(m, i, held, accepted)
BY DEF
     EarnFees, Promise!EarnFees, ReturnFees, Promise!ReturnFees, Credit, Promise!Credit,
     EscrowTotal, Promise!EscrowTotal, Transfer, Promise!Transfer, CanPay, Promise!CanPay,
     Contract, Promise!Contract, TokenIn, Promise!TokenIn

(* Settlements and notices.                                                *)
LEMMA SettlingMaps ==
  ASSUME Settling, OwedFollows
  PROVE  Promise!Settling
<1>1. ASSUME NEW p \in composing
      PROVE  /\ Compose(p) => Promise!Compose(p)
             /\ Promise!PaidOut(p) = PaidOut(p)
  BY DEF OwedFollows,
     Compose, Promise!Compose, PaidOut, Promise!PaidOut, ToLocal, Promise!ToLocal, CanPay,
     Promise!CanPay, Contract, Promise!Contract, Transfer, Promise!Transfer, adminVars,
     Promise!adminVars
<1>2. ASSUME NEW p \in composing, Settle(p)
      PROVE  Promise!Settle(p)
  <2>1. CASE ComposeFill(p)
    <3>1. Promise!ComposeFill(p)
      BY <1>1, <2>1, FeesMap DEF ComposeFill, Promise!ComposeFill, ToLocal, Promise!ToLocal
    <3> QED
      BY <3>1 DEF Promise!Settle
  <2>2. ASSUME NEW accepted \in TokenAccepts, ComposeRefund(p, accepted)
        PROVE  Promise!Settle(p)
    <3>1. Promise!ComposeRefund(p, accepted)
      BY <1>1, <2>2, FeesMap DEF ComposeRefund, Promise!ComposeRefund, TokenIn, Promise!TokenIn
    <3> QED
      BY <3>1 DEF Promise!Settle
  <2>3. CASE ComposeLate(p)
    <3>1. Promise!ComposeLate(p)
      BY <1>1, <2>3 DEF ComposeLate, Promise!ComposeLate
    <3> QED
      BY <3>1 DEF Promise!Settle
  <2> QED
    BY <1>2, <2>1, <2>2, <2>3 DEF Settle
<1>3. ASSUME NEW n \in notices
      PROVE  /\ ReceiveNotice(n) => Promise!ReceiveNotice(n)
             /\ Promise!Concerned(n) = Concerned(n)
  BY DEF OwedFollows,
     ReceiveNotice, Promise!ReceiveNotice, Concerned, Promise!Concerned, RequestsByNonce,
     Promise!RequestsByNonce, Ids, Promise!Ids, TokenIn, Promise!TokenIn, adminVars,
     Promise!adminVars
<1>4. ASSUME NEW n \in notices, HearNotice(n)
      PROVE  Promise!HearNotice(n)
  <2>1. ASSUME NEW id \in Ids, NEW accepted \in TokenAccepts, NoticeStranded(n, id, accepted)
        PROVE  Promise!NoticeStranded(n, id, accepted)
    BY <1>3, <2>1, FeesMap DEF NoticeStranded, Promise!NoticeStranded
  <2>2. ASSUME NEW id \in Ids, NEW accepted \in TokenAccepts, NoticeCancelled(n, id, accepted)
        PROVE  Promise!NoticeCancelled(n, id, accepted)
    BY <1>3, <2>2, FeesMap DEF
       NoticeCancelled, Promise!NoticeCancelled, RecoveryCredit, Promise!RecoveryCredit, Mint,
       Promise!Mint, TokenIn, Promise!TokenIn
  <2>3. NoticeIgnored(n) => Promise!NoticeIgnored(n)
    BY <1>3 DEF NoticeIgnored, Promise!NoticeIgnored
  <2>4. Promise!Ids = Ids
    BY DEF Ids, Promise!Ids
  <2> QED
    BY <1>4, <2>1, <2>2, <2>3, <2>4 DEF HearNotice, Promise!HearNotice
<1> QED
  BY <1>2, <1>4 DEF Settling, Promise!Settling

(* Claims, the owner's calls, and stray tokens.                            *)
LEMMA AdministeringMaps ==
  ASSUME Administering, OwedFollows
  PROVE  Promise!Administering
<1>0. /\ UNCHANGED adminVars => UNCHANGED Promise!adminVars
      /\ UNCHANGED ledgerVars => UNCHANGED Promise!ledgerVars
      /\ UNCHANGED requestVars => UNCHANGED Promise!requestVars
      /\ UNCHANGED wireVars => UNCHANGED Promise!wireVars
      /\ Promise!Tokens = Tokens /\ Promise!FeeAccounts = FeeAccounts
      /\ Promise!Contract = Contract /\ Promise!World = World
  BY DEF OwedFollows,
     adminVars, Promise!adminVars, ledgerVars, Promise!ledgerVars, requestVars,
     Promise!requestVars, wireVars, Promise!wireVars, Tokens, Promise!Tokens, FeeAccounts,
     Promise!FeeAccounts, Contract, Promise!Contract, World, Promise!World
<1>1. ASSUME NEW m \in Mirrors, NEW t \in Tokens, NEW a \in FeeAccounts, ClaimFees(m, t, a)
      PROVE  Promise!ClaimFees(m, t, a)
  BY <1>0, <1>1 DEF OwedFollows,
     ClaimFees, Promise!ClaimFees, CanPay, Promise!CanPay, Transfer, Promise!Transfer
<1>2. ASSUME NEW m, NEW id, NEW terms, SetPartner(m, id, terms)
      PROVE  Promise!SetPartner(m, id, terms)
  BY <1>0, <1>2 DEF SetPartner, Promise!SetPartner
<1>3. ASSUME NEW m, NEW required, SetPartnerRequired(m, required)
      PROVE  Promise!SetPartnerRequired(m, required)
  BY <1>0, <1>3 DEF SetPartnerRequired, Promise!SetPartnerRequired
<1>4. ASSUME NEW m, NEW terms, SetPlatformFee(m, terms)
      PROVE  Promise!SetPlatformFee(m, terms)
  BY <1>0, <1>4 DEF SetPlatformFee, Promise!SetPlatformFee
<1>5. ASSUME NEW m, NEW id, NEW n, InvalidateNonce(m, id, n)
      PROVE  Promise!InvalidateNonce(m, id, n)
  BY <1>0, <1>5 DEF InvalidateNonce, Promise!InvalidateNonce
<1>6. ASSUME NEW m, NEW t, NEW x, Sweep(m, t, x)
      PROVE  Promise!Sweep(m, t, x)
  BY <1>0, <1>6 DEF OwedFollows,
     Sweep, Promise!Sweep, Sweepable, Promise!Sweepable, Transfer, Promise!Transfer
<1>7. ASSUME NEW m, NEW t, NEW u, NEW x, SendStray(m, t, u, x)
      PROVE  Promise!SendStray(m, t, u, x)
  BY <1>0, <1>7 DEF OwedFollows,
     SendStray, Promise!SendStray, CanPay, Promise!CanPay, Transfer, Promise!Transfer
<1> QED
  BY <1>0, <1>1, <1>2, <1>3, <1>4, <1>5, <1>6, <1>7 DEF Administering, Promise!Administering

(* It does follow: a mirror's step adds the packet it sends, if it sends.  *)
LEMMA MirrorOwes ==
  ASSUME PromiseInv, TypeOK', MirrorStep
  PROVE  OwedFollows /\ EntriesKept
<1>0. TypeOK /\ MirrorInv /\ PlaceInv /\ NoncesOrdered /\ MirrorNext /\ UNCHANGED homeVars
  BY DEF PromiseInv, WhereInv, MirrorStep
<1>1. EntriesKept
  BY <1>0, MirrorKeepsEntries
<1>2. \A p : p.nonce = outNonce[p.m][p.t] + 1 => p \notin orders
  <2> SUFFICES ASSUME NEW p \in orders, p.nonce = outNonce[p.m][p.t] + 1
               PROVE  FALSE
    OBVIOUS
  <2>1. p.m \in Mirrors /\ p.t \in Tokens /\ p.nonce \in 1..outNonce[p.m][p.t]
    BY <1>0, PacketTypes DEF NoncesOrdered
  <2>2. outNonce[p.m][p.t] \in Nat
    BY <1>0, <2>1 DEF TypeOK, MirrorTypeOK, WireTypeOK
  <2> QED
    BY <2>1, <2>2
<1>3. CASE UNCHANGED orders
  <2>1. StillOwed' = StillOwed
    BY <1>0, <1>1, <1>3, NothingSentOwed
  <2> QED
    BY <1>1, <1>2, <1>3, <2>1 DEF OwedFollows
<1>4. ASSUME NEW q, SendsPacket(q)
      PROVE  OwedFollows
  <2>1. /\ orders' = orders \cup {q} /\ q \notin orders
        /\ StillOwed' = StillOwed \cup {q}
    BY <1>0, <1>1, <1>2, <1>4, SentOwed DEF SendsPacket
  <2> QED
    BY <1>2, <2>1 DEF OwedFollows
<1> QED
  BY <1>0, <1>1, <1>3, <1>4, MirrorSends DEF TypeOK

(* A step on a mirror maps to one.                                         *)
LEMMA MirrorMaps ==
  ASSUME PromiseInv, TypeOK', MirrorStep
  PROVE  Promise!MirrorNext
BY MirrorOwes, BridgingMaps, OrderingMaps, SettlingMaps, AdministeringMaps
   DEF MirrorStep, MirrorNext, Promise!MirrorNext

(* And keeps the invariant.                                                *)
LEMMA MirrorStepKeeps ==
  ASSUME PromiseInv, TypeOK', MirrorStep
  PROVE  NoncesOrdered' /\ PacketsMatch' /\ StrandsMatch' /\ NoticesCounted'
<1>1. TypeOK /\ MirrorNext /\ UNCHANGED homeVars
  BY DEF PromiseInv, WhereInv, MirrorStep
<1>2. EntriesKept /\ noticeNonce' = noticeNonce
  BY <1>1, MirrorOwes, MirrorSendsNoNotice
<1> QED
  BY <1>1, <1>2, MirrorSends, NothingSentKeeps, SendingKeeps DEF TypeOK

-----------------------------------------------------------------------------
(***************************************************************************)
(* A step of the home chain, as the invariant sees it: it sends no order,  *)
(* revives none, strands what the promise allows, and a notice costs a     *)
(* message that waited, or is one of a retry.                              *)
(***************************************************************************)
HomeFits ==
  /\ UNCHANGED <<requests, outNonce>>
  /\ orders' \cup queue' \subseteq orders \cup queue
  /\ Alive' \cup queue' \subseteq Alive \cup queue
  /\ \A m \in Mirrors, t \in Tokens : lazy'[m][t] <= outNonce[m][t]
  /\ \A m \in Mirrors, i \in Ids :
       \/ stranded'[m][i] = stranded[m][i]
       \/ ~(stranded'[m][i].amount > 0)
       \/ ResultOf(PacketOf(m, i), stranded'[m][i].token, stranded'[m][i].amount)
  /\ \A m \in Mirrors :
       \/ noticeNonce'[m] = noticeNonce[m]
       \/ noticeNonce'[m] <= MaxNotices
       \/ /\ noticeNonce'[m] = noticeNonce[m] + 1
          /\ \E p \in Alive \cup queue : p.m = m /\ p \notin Alive' \cup queue'

(* What the home chain has handled stays handled, and a message that waits *)
(* no more is handled now.                                                 *)
LEMMA HandledGrows ==
  ASSUME TypeOK, NoncesOrdered, outNonce' = outNonce,
         Alive' \cup queue' \subseteq Alive \cup queue, NEW m
  PROVE  /\ Handled(m) \subseteq Handled(m)'
         /\ \A p \in Alive \cup queue : p.m = m /\ p \notin Alive' \cup queue' =>
              Cardinality(Handled(m)) + 1 <= Cardinality(Handled(m)')
<1>1. Handled(m) \subseteq Handled(m)'
  BY DEF Handled
<1>2. ASSUME NEW p \in Alive \cup queue, p.m = m, p \notin Alive' \cup queue'
      PROVE  Cardinality(Handled(m)) + 1 <= Cardinality(Handled(m)')
  <2>1. p \in orders \cup queue
    BY DEF Alive
  <2>2. /\ p.m \in Mirrors /\ p.t \in Tokens /\ p.nonce \in 1..outNonce[p.m][p.t]
        /\ outNonce[p.m][p.t] \in Nat /\ outNonce[p.m][p.t] <= MaxNonce /\ MaxNonce \in Nat
    BY <2>1, PacketTypes, WireAssumption DEF NoncesOrdered, TypeOK, MirrorTypeOK, WireTypeOK
  <2>3. PICK k : k = <<p.t, p.nonce>>
    OBVIOUS
  <2>4. /\ k \in Tokens \X (1..MaxNonce) /\ k[1] = p.t /\ k[2] = p.nonce
        /\ k[2] <= outNonce[m][k[1]]
    BY <1>2, <2>2, <2>3
  <2>5. k \notin Handled(m)
    BY <1>2, <2>4 DEF Handled
  <2>6. \A q \in Alive' \cup queue' : ~(q.m = m /\ q.t = k[1] /\ q.nonce = k[2])
    <3> SUFFICES ASSUME NEW q \in Alive' \cup queue', q.m = m, q.t = k[1], q.nonce = k[2]
                 PROVE  FALSE
      OBVIOUS
    <3>1. q \in orders \cup queue
      BY DEF Alive
    <3>2. q = p
      BY <1>2, <2>1, <2>4, <3>1 DEF NoncesOrdered
    <3> QED
      BY <1>2, <3>2
  <2>7. k \in Handled(m)'
    BY <2>4, <2>6 DEF Handled
  <2>8. PICK S, T : S = Handled(m) /\ T = Handled(m)'
    OBVIOUS
  <2>9. S \cup {k} \subseteq T /\ k \notin S
    BY <1>1, <2>5, <2>7, <2>8
  <2>10. S \subseteq Tokens \X (1..MaxNonce) /\ T \subseteq Tokens \X (1..MaxNonce)
    BY <2>8 DEF Handled
  <2>11. IsFiniteSet(S) /\ IsFiniteSet(T) /\ Cardinality(S) \in Nat
    BY <2>10, PathSlots
  <2>12. Cardinality(S \cup {k}) = Cardinality(S) + 1
    BY <2>9, <2>11, FS_AddElement
  <2>13. Cardinality(S \cup {k}) <= Cardinality(T)
    BY <2>9, <2>11, FS_Subset
  <2> QED
    BY <2>8, <2>12, <2>13
<1> QED
  BY <1>1, <1>2

(* A step of that kind keeps the invariant.                                *)
LEMMA FittingKeeps ==
  ASSUME PromiseInv, TypeOK', HomeFits
  PROVE  NoncesOrdered' /\ PacketsMatch' /\ StrandsMatch' /\ NoticesCounted'
<1>0. TypeOK /\ NoncesOrdered
  BY DEF PromiseInv, WhereInv
<1>1. \A m, i : PacketOf(m, i)' = PacketOf(m, i)
  BY DEF HomeFits, PacketOf
<1>2. NoncesOrdered'
  BY <1>0 DEF HomeFits, NoncesOrdered
<1>3. PacketsMatch'
  BY <1>1 DEF HomeFits, PromiseInv, PacketsMatch
<1>4. StrandsMatch'
  BY <1>1 DEF HomeFits, PromiseInv, StrandsMatch
<1>5. NoticesCounted'
  <2> SUFFICES ASSUME NEW m \in Mirrors
               PROVE  noticeNonce'[m] <= MaxNotices + Cardinality(Handled(m)')
    BY DEF NoticesCounted
  <2>1. /\ noticeNonce[m] \in Nat /\ noticeNonce'[m] \in Nat /\ MaxNotices \in Nat
        /\ Cardinality(Handled(m)) \in Nat /\ Cardinality(Handled(m)') \in Nat
    BY <1>0, RelayAssumption, HandledCounts DEF TypeOK, MirrorTypeOK, WireTypeOK
  <2>2. noticeNonce[m] <= MaxNotices + Cardinality(Handled(m))
    BY DEF PromiseInv, NoticesCounted
  <2>3. Handled(m) \subseteq Handled(m)'
    BY <1>0, HandledGrows DEF HomeFits
  <2>4. Cardinality(Handled(m)) <= Cardinality(Handled(m)')
    BY <2>3, HandledCounts
  <2>5. CASE noticeNonce'[m] = noticeNonce[m] \/ noticeNonce'[m] <= MaxNotices
    BY <2>1, <2>2, <2>4, <2>5
  <2>6. CASE /\ noticeNonce'[m] = noticeNonce[m] + 1
             /\ \E p \in Alive \cup queue : p.m = m /\ p \notin Alive' \cup queue'
    <3>1. Cardinality(Handled(m)) + 1 <= Cardinality(Handled(m)')
      BY <1>0, <2>6, HandledGrows DEF HomeFits
    <3> QED
      BY <2>1, <2>2, <2>6, <3>1
  <2> QED
    BY <2>5, <2>6 DEF HomeFits
<1> QED
  BY <1>2, <1>3, <1>4, <1>5

(* While a message waits, the mirror may have a notice of it.              *)
LEMMA NoticeToSpare ==
  ASSUME PromiseInv, NEW p \in Alive \cup queue
  PROVE  noticeNonce[p.m] < NoticeLimit
<1>0. TypeOK /\ NoncesOrdered /\ NoticesCounted
  BY DEF PromiseInv, WhereInv
<1>1. p \in orders \cup queue
  BY DEF Alive
<1>2. /\ p.m \in Mirrors /\ p.t \in Tokens /\ p.nonce \in 1..outNonce[p.m][p.t]
      /\ outNonce[p.m][p.t] \in Nat /\ outNonce[p.m][p.t] <= MaxNonce /\ MaxNonce \in Nat
      /\ noticeNonce[p.m] \in Nat /\ MaxNotices \in Nat /\ NoticeLimit \in Nat
  BY <1>0, <1>1, PacketTypes, WireAssumption, RelayAssumption, PromiseAssumption
     DEF NoncesOrdered, TypeOK, MirrorTypeOK, WireTypeOK
<1>3. PICK k : k = <<p.t, p.nonce>>
  OBVIOUS
<1>4. k \in Tokens \X (1..MaxNonce) /\ k[1] = p.t /\ k[2] = p.nonce
  BY <1>2, <1>3
<1>5. k \notin Handled(p.m)
  BY <1>4 DEF Handled
<1>6. PICK S : S = Handled(p.m)
  OBVIOUS
<1>7. S \subseteq Tokens \X (1..MaxNonce) /\ S \cup {k} \subseteq Tokens \X (1..MaxNonce)
  BY <1>4, <1>6 DEF Handled
<1>8. /\ IsFiniteSet(S) /\ Cardinality(S) \in Nat
      /\ Cardinality(S \cup {k}) = Cardinality(S) + 1
      /\ Cardinality(S \cup {k}) <= 2 * MaxNonce
  <2>1. IsFiniteSet(S) /\ Cardinality(S) \in Nat
    BY <1>7, PathSlots
  <2>2. Cardinality(S \cup {k}) = Cardinality(S) + 1
    BY <1>5, <1>6, <2>1, FS_AddElement
  <2>3. Cardinality(S \cup {k}) <= 2 * MaxNonce
    BY <1>7, PathSlots
  <2> QED
    BY <2>1, <2>2, <2>3
<1>9. noticeNonce[p.m] <= MaxNotices + Cardinality(S)
  BY <1>0, <1>2, <1>6 DEF NoticesCounted
<1>10. MaxNotices + 2 * MaxNonce <= NoticeLimit
  BY BoundsAssumption
<1> QED
  BY <1>2, <1>8, <1>9, <1>10

-----------------------------------------------------------------------------
(* The home chain, step by step: each fits, and is an answer or no step.   *)
Kept == HomeFits /\ (Promise!HomeAnswers \/ UNCHANGED Promise!wireVars)

(* What is owed after a step of the home chain, one by one.                *)
LEMMA OwedAfter ==
  ASSUME requests' = requests, NEW p
  PROVE  p \in StillOwed' <=>
           \/ p \in Alive'
           \/ p \in queue'
           \/ \E m \in Mirrors, i \in Ids : stranded'[m][i].amount > 0 /\ p = PacketOf(m, i)
<1>1. \A m, i : PacketOf(m, i)' = PacketOf(m, i)
  BY DEF PacketOf
<1> QED
  BY <1>1, OwedOnesNext

(* A step that leaves the orders and the strands where they are.           *)
LEMMA RestingKeeps ==
  ASSUME NoncesOrdered, UNCHANGED wireVars, requests' = requests, Alive' = Alive,
         queue' = queue, stranded' = stranded, lazy' = lazy
  PROVE  Kept
<1>1. StillOwed' = StillOwed
  <2>1. \A p : p \in StillOwed' <=> p \in StillOwed
    BY OwedOnes, OwedAfter
  <2> QED
    BY <2>1
<1>2. UNCHANGED Promise!wireVars
  BY <1>1 DEF Promise!wireVars, wireVars
<1>3. HomeFits
  BY DEF HomeFits, NoncesOrdered, wireVars
<1> QED
  BY <1>2, <1>3 DEF Kept

(* A verification leaves a message as alive as it was.                     *)
LEMMA VerifyIsKept ==
  ASSUME PromiseInv, TypeOK', NEW p \in orders, Verify(p), requests' = requests,
         UNCHANGED <<mirrorToken, outNonce, returns, backNonce, composing, notices,
                     noticeNonce, relayVars>>
  PROVE  Kept
<1>0. TypeOK /\ NoncesOrdered
  BY DEF PromiseInv, WhereInv
<1>1. /\ p.m \in Mirrors /\ p.t \in Tokens
      /\ lazy \in [Mirrors -> [Tokens -> Nat]]
      /\ verified \in [Mirrors -> [Tokens -> SUBSET Nat]]
      /\ \A q \in orders : q.m \in Mirrors /\ q.t \in Tokens /\ q.nonce \in Nat
  BY <1>0, PacketTypes DEF TypeOK, HomeTypeOK, EndpointTypeOK
<1>2. /\ p.nonce > lazy[p.m][p.t]
      /\ verified' = [verified EXCEPT ![p.m][p.t] = verified[p.m][p.t] \cup {p.nonce}]
      /\ UNCHANGED <<orders, lazy, queue, homeToken, stranded>>
  BY DEF Verify, Verifiable, relayVars
<1>3. \A m \in Mirrors, t \in Tokens :
        verified'[m][t] = IF m = p.m /\ t = p.t THEN verified[m][t] \cup {p.nonce}
                          ELSE verified[m][t]
  BY <1>1, <1>2
<1>4. Alive' = Alive
  <2>1. ASSUME NEW q \in orders
        PROVE  Dead(q.m, q.t, q.nonce)' <=> Dead(q.m, q.t, q.nonce)
    BY <1>1, <1>2, <1>3 DEF Dead
  <2> QED
    BY <1>2, <2>1 DEF Alive
<1> QED
  BY <1>0, <1>2, <1>4, RestingKeeps DEF wireVars

(* Handed to the relay or killed, a message leaves those alive alone.      *)
LEMMA OneLeaves ==
  ASSUME TypeOK, NoncesOrdered, NEW p \in orders,
         requests' = requests, outNonce' = outNonce,
         orders' = orders \/ orders' = orders \ {p},
         orders' = orders => p.nonce <= lazy'[p.m][p.t] /\ p.nonce \notin verified'[p.m][p.t],
         p.nonce > lazy[p.m][p.t] \/ p.nonce \in verified[p.m][p.t],
         (lazy[p.m][p.t] + 1)..(p.nonce - 1) \subseteq verified[p.m][p.t],
         lazy' = [lazy EXCEPT ![p.m][p.t] =
                    IF p.nonce > lazy[p.m][p.t] THEN p.nonce ELSE lazy[p.m][p.t]],
         NEW gone \in SUBSET {p.nonce},
         verified' = [verified EXCEPT ![p.m][p.t] = verified[p.m][p.t] \ gone]
  PROVE  /\ p \in Alive /\ Alive' = Alive \ {p}
         /\ \A m \in Mirrors, t \in Tokens : lazy'[m][t] <= outNonce[m][t]
<1>1. /\ p.m \in Mirrors /\ p.t \in Tokens /\ p.nonce \in Nat
      /\ lazy \in [Mirrors -> [Tokens -> Nat]]
      /\ verified \in [Mirrors -> [Tokens -> SUBSET Nat]]
      /\ \A q \in orders : q.m \in Mirrors /\ q.t \in Tokens /\ q.nonce \in Nat
      /\ outNonce \in [Mirrors -> [Tokens -> Nat]]
  BY PacketTypes DEF TypeOK, HomeTypeOK, EndpointTypeOK, MirrorTypeOK, WireTypeOK
<1>2. /\ \A m \in Mirrors, t \in Tokens :
           verified'[m][t] = IF m = p.m /\ t = p.t THEN verified[m][t] \ gone ELSE verified[m][t]
      /\ \A m \in Mirrors, t \in Tokens :
           lazy'[m][t] = IF m = p.m /\ t = p.t /\ p.nonce > lazy[m][t] THEN p.nonce
                         ELSE lazy[m][t]
  BY <1>1
<1>3. ~Dead(p.m, p.t, p.nonce)
  BY <1>1 DEF Dead
<1>4. ASSUME NEW q \in orders, q # p
      PROVE  Dead(q.m, q.t, q.nonce)' <=> Dead(q.m, q.t, q.nonce)
  <2>1. CASE q.m = p.m /\ q.t = p.t
    <3>1. q.nonce # p.nonce /\ q.nonce \in Nat /\ lazy[p.m][p.t] \in Nat
      BY <1>1, <1>4, <2>1 DEF NoncesOrdered
    <3>2. q.nonce \in verified'[p.m][p.t] <=> q.nonce \in verified[p.m][p.t]
      BY <1>1, <1>2, <3>1
    <3>3. lazy'[p.m][p.t] = IF p.nonce > lazy[p.m][p.t] THEN p.nonce ELSE lazy[p.m][p.t]
      BY <1>1, <1>2
    <3>4. CASE q.nonce \in (lazy[p.m][p.t] + 1)..(p.nonce - 1)
      <4>1. q.nonce \in verified[p.m][p.t]
        BY <3>4
      <4> QED
        BY <2>1, <3>2, <4>1 DEF Dead
    <3>5. CASE ~(q.nonce \in (lazy[p.m][p.t] + 1)..(p.nonce - 1))
      <4>1. q.nonce <= lazy[p.m][p.t] \/ q.nonce > p.nonce
        <5>1. \A k, l, n \in Nat : k # n /\ k \notin (l + 1)..(n - 1) => k <= l \/ k > n
          OBVIOUS
        <5> QED
          BY <1>1, <3>1, <3>5, <5>1
      <4>2. q.nonce <= lazy'[p.m][p.t] <=> q.nonce <= lazy[p.m][p.t]
        BY <1>1, <3>1, <3>3, <4>1
      <4> QED
        BY <2>1, <3>2, <4>2 DEF Dead
    <3> QED
      BY <3>4, <3>5
  <2>2. CASE ~(q.m = p.m /\ q.t = p.t)
    BY <1>1, <1>2, <2>2 DEF Dead
  <2> QED
    BY <2>1, <2>2
<1>5. p \notin Alive'
  <2>1. CASE orders' = orders
    BY <2>1 DEF Alive, Dead
  <2>2. CASE orders' = orders \ {p}
    BY <2>2 DEF Alive
  <2> QED
    BY <2>1, <2>2
<1>6. Alive' = Alive \ {p}
  BY <1>4, <1>5 DEF Alive
<1>7. \A m \in Mirrors, t \in Tokens : lazy'[m][t] <= outNonce[m][t]
  <2>1. p.nonce <= outNonce[p.m][p.t]
    BY <1>1 DEF NoncesOrdered
  <2> QED
    BY <1>1, <1>2, <2>1 DEF NoncesOrdered
<1> QED
  BY <1>3, <1>6, <1>7 DEF Alive

(* What the endpoint still has is not with the relay.                      *)
LEMMA OrderedAlone ==
  ASSUME TypeOK, PlaceInv, NEW p \in orders
  PROVE  /\ p \notin queue
         /\ \A m \in Mirrors, i \in Ids : stranded[m][i].amount > 0 => p # PacketOf(m, i)
<1>1. p \notin queue
  BY QueuedAlone
<1>2. ASSUME NEW m \in Mirrors, NEW i \in Ids, stranded[m][i].amount > 0, p = PacketOf(m, i)
      PROVE  FALSE
  <2>1. p.m = m /\ p.id = i
    BY <1>2 DEF PacketOf
  <2> QED
    BY <1>2, <2>1, StrandsAlone
<1> QED
  BY <1>1, <1>2

(* An order that arrives waits for the relay; a transfer is its owner's.   *)
LEMMA ArrivalIsKept ==
  ASSUME PromiseInv, TypeOK', NEW p \in orders, ReceiveOrder(p), requests' = requests,
         UNCHANGED <<mirrorToken, outNonce, returns, backNonce, composing, notices,
                     noticeNonce, relayVars>>
  PROVE  Kept
<1>0. TypeOK /\ NoncesOrdered /\ PlaceInv
  BY DEF PromiseInv, WhereInv
<1>1. /\ p.m \in Mirrors /\ p.t \in Tokens /\ p.nonce \in Nat
      /\ lazy[p.m][p.t] \in Nat
  BY <1>0, PacketTypes DEF TypeOK, HomeTypeOK, EndpointTypeOK
<1>2. /\ p.nonce \in verified[p.m][p.t]
      /\ (lazy[p.m][p.t] + 1)..p.nonce \subseteq verified[p.m][p.t]
      /\ orders' = orders \ {p}
      /\ verified' = [verified EXCEPT ![p.m][p.t] = verified[p.m][p.t] \ {p.nonce}]
      /\ lazy' = [lazy EXCEPT ![p.m][p.t] =
                    IF p.nonce > lazy[p.m][p.t] THEN p.nonce ELSE lazy[p.m][p.t]]
      /\ queue' = IF p.id = 0 THEN queue ELSE queue \cup {p}
      /\ stranded' = stranded
  BY DEF ReceiveOrder, Executable, relayVars
<1>3. (lazy[p.m][p.t] + 1)..(p.nonce - 1) \subseteq verified[p.m][p.t]
  BY <1>1, <1>2
<1>4. orders' # orders
  BY <1>2
<1>5. /\ p \in Alive /\ Alive' = Alive \ {p}
      /\ \A m \in Mirrors, t \in Tokens : lazy'[m][t] <= outNonce[m][t]
  <2>1. {p.nonce} \in SUBSET {p.nonce}
    OBVIOUS
  <2> QED
    BY <1>0, <1>2, <1>3, <1>4, <2>1, OneLeaves
<1>6. HomeFits
  BY <1>2, <1>5 DEF HomeFits, Alive
<1>7. p \in StillOwed
  BY <1>5, OwedOnes
<1>8. CASE p.id # 0
  <2>1. \A q : q \in StillOwed' <=> q \in StillOwed
    BY <1>2, <1>5, <1>8, OwedOnes, OwedAfter
  <2>2. StillOwed' = StillOwed
    BY <2>1
  <2> QED
    BY <1>6, <2>2 DEF Kept, Promise!wireVars
<1>9. CASE p.id = 0
  <2>1. \A q : q \in StillOwed' <=> q \in StillOwed /\ q # p
    BY <1>0, <1>2, <1>5, <1>9, OrderedAlone, OwedOnes, OwedAfter
  <2>2. StillOwed' = StillOwed \ {p}
    BY <2>1
  <2>3. Promise!Consume(p)
    BY <2>2 DEF Promise!Consume
  <2> QED
    BY <1>6, <1>7, <2>3 DEF Kept, Promise!HomeAnswers
<1> QED
  BY <1>8, <1>9

(* A cancellation kills one message, and its mirror has a notice of it.    *)
LEMMA KillIsKept ==
  ASSUME PromiseInv, TypeOK', NEW p \in orders, NEW h, CancelStuckInbound(p, h),
         requests' = requests
  PROVE  Kept
<1>0. TypeOK /\ NoncesOrdered /\ PlaceInv
  BY DEF PromiseInv, WhereInv
<1>1. /\ p.m \in Mirrors /\ p.t \in Tokens /\ p.nonce \in Nat
      /\ lazy[p.m][p.t] \in Nat
      /\ lazy \in [Mirrors -> [Tokens -> Nat]]
      /\ verified \in [Mirrors -> [Tokens -> SUBSET Nat]]
      /\ noticeNonce \in [Mirrors -> Nat]
  BY <1>0, PacketTypes DEF TypeOK, HomeTypeOK, EndpointTypeOK, MirrorTypeOK, WireTypeOK
<1>2. PICK gone \in SUBSET {p.nonce} :
        verified' = [verified EXCEPT ![p.m][p.t] = verified[p.m][p.t] \ gone]
  <2>1. CASE h
    <3>1. verified' = [verified EXCEPT ![p.m][p.t] = verified[p.m][p.t] \ {p.nonce}]
      BY <2>1 DEF CancelStuckInbound
    <3> QED
      BY <3>1
  <2>2. CASE ~h
    <3>1. verified' = [verified EXCEPT ![p.m][p.t] = verified[p.m][p.t] \ {}]
      BY <2>2 DEF CancelStuckInbound
    <3> QED
      BY <3>1
  <2> QED
    BY <2>1, <2>2
<1>3. /\ p.nonce > lazy[p.m][p.t] /\ p.nonce \notin verified[p.m][p.t]
      /\ (lazy[p.m][p.t] + 1)..(p.nonce - 1) \subseteq verified[p.m][p.t]
      /\ lazy' = [lazy EXCEPT ![p.m][p.t] = p.nonce]
      /\ SendNotice(p.m, "CANCELLED", 0, p.t, p.nonce)
      /\ UNCHANGED <<mirrorToken, outNonce, orders, returns, backNonce, composing, queue, stranded>>
  BY DEF CancelStuckInbound, Skippable, Verifiable
<1>4. lazy' = [lazy EXCEPT ![p.m][p.t] =
                 IF p.nonce > lazy[p.m][p.t] THEN p.nonce ELSE lazy[p.m][p.t]]
  BY <1>3
<1>5. p.nonce <= lazy'[p.m][p.t] /\ p.nonce \notin verified'[p.m][p.t]
  <2>1. lazy'[p.m][p.t] = p.nonce
    BY <1>1, <1>3
  <2>2. verified'[p.m][p.t] = verified[p.m][p.t] \ gone
    BY <1>1, <1>2
  <2> QED
    BY <1>1, <1>3, <2>1, <2>2
<1>6. /\ p \in Alive /\ Alive' = Alive \ {p}
      /\ \A m \in Mirrors, t \in Tokens : lazy'[m][t] <= outNonce[m][t]
  BY <1>0, <1>2, <1>3, <1>4, <1>5, OneLeaves
<1>7. p \notin queue
  BY <1>0, OrderedAlone
<1>8. HomeFits
  <2>1. \A m \in Mirrors :
          noticeNonce'[m] = IF m = p.m THEN noticeNonce[m] + 1 ELSE noticeNonce[m]
    BY <1>1, <1>3 DEF SendNotice
  <2>2. p \in Alive \cup queue /\ p \notin Alive' \cup queue'
    BY <1>3, <1>6, <1>7
  <2> QED
    BY <1>3, <1>6, <2>1, <2>2 DEF HomeFits
<1>9. \A q : q \in StillOwed' <=> q \in StillOwed /\ q # p
  BY <1>0, <1>3, <1>6, OrderedAlone, OwedOnes, OwedAfter
<1>10. StillOwed' = StillOwed \ {p} /\ p \in StillOwed
  <2>1. p \in StillOwed
    BY <1>6, OwedOnes
  <2> QED
    BY <1>9, <2>1
<1>11. noticeNonce[p.m] < NoticeLimit
  BY <1>6, NoticeToSpare
<1>12. Promise!Kill(p)
  BY <1>3, <1>10, <1>11 DEF Promise!Kill, SendNotice, Promise!SendNotice
<1> QED
  BY <1>8, <1>10, <1>12 DEF Kept, Promise!HomeAnswers

-----------------------------------------------------------------------------
(* The return leg of order p: r is a result the promise allows.            *)
LegOf(r, p) ==
  /\ r.m = p.m /\ r.id = p.id /\ p.id # 0
  /\ p.t \in Tokens /\ p.sd \in Nat /\ p.min \in Nat
  /\ r.t \in Tokens /\ r.amount \in Nat
  /\ ResultOf(p, r.t, r.amount)
  /\ r.status \in {"FILLED", "REFUNDED"}
  /\ r.t = p.t => r.status = "REFUNDED"

(* Sent, it is the answer to p;                                            *)
LEMMA SentAnswers ==
  ASSUME NEW p \in StillOwed, NEW r, LegOf(r, p), NEW price, NEW held, NEW owed, NEW funds,
         ReturnSent(r, price, held, owed, funds), StillOwed' = StillOwed \ {p},
         UNCHANGED <<mirrorToken, outNonce, composing>>
  PROVE  Promise!HomeAnswers
<1> DEFINE sd == ToShared(r.amount, HomeQuantum[r.t])
<1>1. HomeQuantum[r.t] \in Nat \ {0} /\ p.sd \in Nat /\ p.min \in Nat /\ r.t \in Tokens
  BY HomeAssumption DEF LegOf
<1>2. Promise!Answers(p, r.t, sd, r.status) /\ sd \in Outputs \cup {p.sd}
  <2>1. CASE r.t = p.t /\ r.amount = InputOf(p)
    <3>1. sd = p.sd
      BY <1>1, <2>1, UnitsExact DEF InputOf
    <3> QED
      BY <2>1, <3>1 DEF LegOf, Promise!Answers
  <2>2. CASE r.t = OtherToken(p.t) /\ r.amount \in PoolOutputs /\ r.amount >= FloorOf(p)
    <3>1. r.amount >= HomeQuantum[r.t] /\ r.amount \div HomeQuantum[r.t] >= p.min
      BY <1>1, <2>2, VenueMet DEF FloorOf
    <3>2. sd \in Outputs
      BY <1>1, <2>2, <3>1, BoundsAssumption
    <3> QED
      BY <2>2, <3>1, <3>2 DEF Promise!Answers, Promise!OtherToken, OtherToken, ToShared
  <2> QED
    BY <2>1, <2>2 DEF LegOf, ResultOf
<1>3. SendReturn(r.m, r.t, r.id, sd, r.status) /\ UNCHANGED <<notices, noticeNonce>>
  BY DEF ReturnSent
<1>4. Promise!Answer(p, r.t, sd, r.status)
  BY <1>2, <1>3 DEF LegOf, Promise!Answer, SendReturn, Promise!SendReturn
<1>5. r.t \in Promise!Tokens /\ r.status \in {"FILLED", "REFUNDED"}
  BY <1>1 DEF LegOf, Tokens, Promise!Tokens
<1> HIDE DEF sd
<1> QED
  BY <1>2, <1>4, <1>5 DEF Promise!HomeAnswers

(* stranded, p is held, and its mirror may hear of it.                     *)
LEMMA StrandHolds ==
  ASSUME NEW p \in StillOwed, NEW r, LegOf(r, p), NEW price, NEW notice, NEW held, NEW owed,
         NEW funds, ReturnStranded(r, price, notice, held, owed, funds),
         StillOwed' = StillOwed, noticeNonce[p.m] < NoticeLimit,
         UNCHANGED <<mirrorToken, outNonce, composing>>
  PROVE  Promise!HomeAnswers \/ UNCHANGED Promise!wireVars
<1>1. CASE SendNotice(r.m, "STRANDED", r.id, "base", 0)
  <2>1. Promise!Hold(p)
    BY <1>1 DEF ReturnStranded, LegOf, Promise!Hold, SendNotice, Promise!SendNotice
  <2> QED
    BY <2>1 DEF Promise!HomeAnswers
<1>2. CASE UNCHANGED <<notices, noticeNonce>>
  BY <1>2 DEF ReturnStranded, Promise!wireVars
<1> QED
  BY <1>1, <1>2 DEF ReturnStranded

(* What is recorded when it strands.                                       *)
LEMMA StrandRecorded ==
  ASSUME NEW m \in Mirrors, NEW i \in Ids, NEW r, r.m = m, r.id = i, r.amount \in Nat,
         NEW owed \in StrandTables, owed[m][i].amount = 0,
         NEW price, NEW notice, NEW held, NEW funds,
         ReturnStranded(r, price, notice, held, owed, funds)
  PROVE  /\ stranded'[m][i].amount = r.amount /\ stranded'[m][i].token = r.t
         /\ \A mm \in Mirrors, ii \in Ids :
              mm # m \/ ii # i => stranded'[mm][ii] = owed[mm][ii]
<1>1. PICK b : b = [amount |-> owed[m][i].amount + r.amount, token |-> r.t,
                    beneficiary |-> IF r.user # NoUser THEN r.user ELSE owed[m][i].beneficiary]
  OBVIOUS
<1>2. stranded' = [owed EXCEPT ![m][i] = b]
  BY <1>1 DEF ReturnStranded
<1>3. b.amount = r.amount /\ b.token = r.t
  BY <1>1
<1> QED
  BY <1>2, <1>3 DEF StrandTables

(* What a stranding leg does to the relay's counter.                       *)
LEMMA StrandNotices ==
  ASSUME TypeOK, NEW r, r.m \in Mirrors, NEW price, NEW notice, NEW held, NEW owed, NEW funds,
         ReturnStranded(r, price, notice, held, owed, funds)
  PROVE  \A m \in Mirrors :
           \/ noticeNonce'[m] = noticeNonce[m]
           \/ m = r.m /\ noticeNonce'[m] = noticeNonce[m] + 1
<1>1. noticeNonce \in [Mirrors -> Nat]
  BY DEF TypeOK, MirrorTypeOK, WireTypeOK
<1> QED
  BY <1>1 DEF ReturnStranded, SendNotice

-----------------------------------------------------------------------------
(* An order the relay runs is answered, or stranded with what it is worth. *)
LEMMA ExecutionIsKept ==
  ASSUME PromiseInv, AmountInv, NEW p \in queue, ExecuteOrder(p), requests' = requests
  PROVE  Kept
<1>0. TypeOK /\ NoncesOrdered /\ PlaceInv /\ PacketsMatch
  BY DEF PromiseInv, WhereInv
<1>1. /\ p.m \in Mirrors /\ p.t \in Tokens /\ p.id \in Ids /\ p.id # 0
      /\ p.sd \in Nat /\ p.min \in Nat
      /\ ~(stranded[p.m][p.id].amount > 0) /\ p \notin orders
  BY <1>0, QueuedAlone
<1>2. p.sd > 0 /\ p = PacketOf(p.m, p.id)
  BY <1>0, <1>1 DEF AmountInv, FloorsCarried, PacketsMatch
<1>3. stranded \in StrandTables /\ stranded[p.m][p.id].amount = 0
  <2>1. stranded \in StrandTables
    BY <1>0 DEF TypeOK, HomeTypeOK, RelayTypeOK, StrandTables
  <2>2. stranded[p.m][p.id].amount \in Nat
    BY <1>1, <2>1 DEF StrandTables, Stranded
  <2> QED
    BY <1>1, <2>1, <2>2
<1>4. /\ queue' = queue \ {p}
      /\ UNCHANGED <<mirrorToken, outNonce, orders, composing, lazy, verified>>
  BY DEF ExecuteOrder, FillOrder, RejectOrder, Handed
<1>5. Alive' = Alive /\ p \notin Alive /\ p \in StillOwed
  <2>1. Alive' = Alive /\ p \notin Alive
    BY <1>1, <1>4 DEF Alive, Dead
  <2> QED
    BY <2>1, OwedOnes
<1>6. PICK r, held, funds : LegOf(r, p) /\ r.amount > 0 /\ LegDone(r, held, stranded, funds)
  <2>1. ASSUME NEW out \in PoolOutputs, FillOrder(p, out)
        PROVE  \E r, held, funds : LegOf(r, p) /\ r.amount > 0 /\ LegDone(r, held, stranded, funds)
    <3> DEFINE o == [m |-> p.m, id |-> p.id, t |-> OtherToken(p.t), amount |-> out,
                     user |-> p.user, status |-> "FILLED"]
    <3>1. \E held, funds : ReturnToMirror(o, held, stranded, funds)
      BY <2>1 DEF FillOrder
    <3>2. /\ OtherToken(p.t) \in Tokens /\ OtherToken(p.t) # p.t /\ out \in Nat
      BY <1>1, RelayAssumption DEF OtherToken, Tokens
    <3>3. out >= FloorOf(p)
      BY <2>1 DEF FillOrder
    <3>4. out > 0
      <4>1. PICK q \in Nat \ {0} : q = HomeQuantum[OtherToken(p.t)]
        BY <3>2, HomeAssumption
      <4>2. out >= q
        BY <1>1, <3>3, <4>1, VenueMet DEF FloorOf
      <4> QED
        BY <3>2, <4>1, <4>2
    <3>5. LegOf(o, p) /\ o.amount > 0
      BY <1>1, <3>2, <3>3, <3>4 DEF LegOf, ResultOf
    <3>6. \A held, funds : ReturnToMirror(o, held, stranded, funds) => LegDone(o, held, stranded, funds)
      BY DEF ReturnToMirror, LegDone
    <3> HIDE DEF o
    <3> QED
      BY <3>1, <3>5, <3>6
  <2>2. ASSUME NEW out \in PoolOutputs, RejectOrder(p, out)
        PROVE  \E r, held, funds : LegOf(r, p) /\ r.amount > 0 /\ LegDone(r, held, stranded, funds)
    <3> DEFINE o == [m |-> p.m, id |-> p.id, t |-> p.t, amount |-> InputOf(p),
                     user |-> p.user, status |-> "REFUNDED"]
    <3>1. \E held, funds : ReturnToMirror(o, held, stranded, funds)
      BY <2>2 DEF RejectOrder
    <3>2. InputOf(p) \in Nat /\ InputOf(p) > 0
      <4>1. PICK q \in Nat \ {0} : q = HomeQuantum[p.t]
        BY <1>1, HomeAssumption
      <4>2. p.sd * q >= q /\ p.sd * q \in Nat
        BY <1>1, <1>2, <4>1, UnitWorth, ProductNat
      <4>3. InputOf(p) = p.sd * q
        BY <4>1 DEF InputOf, ToLocal
      <4> QED
        BY <4>1, <4>2, <4>3
    <3>5. LegOf(o, p) /\ o.amount > 0
      BY <1>1, <3>2 DEF LegOf, ResultOf
    <3>6. \A held, funds : ReturnToMirror(o, held, stranded, funds) => LegDone(o, held, stranded, funds)
      BY DEF ReturnToMirror, LegDone
    <3> HIDE DEF o
    <3> QED
      BY <3>1, <3>5, <3>6
  <2> QED
    BY <2>1, <2>2 DEF ExecuteOrder
<1>7. p \in Alive \cup queue /\ p \notin Alive' \cup queue'
  BY <1>4, <1>5
<1>8. /\ orders' \cup queue' \subseteq orders \cup queue
      /\ Alive' \cup queue' \subseteq Alive \cup queue
      /\ \A m \in Mirrors, t \in Tokens : lazy'[m][t] <= outNonce[m][t]
  BY <1>0, <1>4, <1>5 DEF NoncesOrdered
<1>9. ASSUME NEW price, ReturnSent(r, price, held, stranded, funds)
      PROVE  Kept
  <2>1. stranded' = stranded /\ noticeNonce' = noticeNonce
    BY <1>9 DEF ReturnSent
  <2>2. HomeFits
    BY <1>4, <1>8, <2>1 DEF HomeFits
  <2>3. \A m \in Mirrors, i \in Ids : stranded[m][i].amount > 0 => p # PacketOf(m, i)
    BY <1>1 DEF PacketOf
  <2>4. \A q : q \in StillOwed' <=> q \in StillOwed /\ q # p
    BY <1>4, <1>5, <2>1, <2>3, OwedOnes, OwedAfter
  <2>5. StillOwed' = StillOwed \ {p}
    BY <2>4
  <2>6. Promise!HomeAnswers
    BY <1>4, <1>5, <1>6, <1>9, <2>5, SentAnswers
  <2> QED
    BY <2>2, <2>6 DEF Kept
<1>10. ASSUME NEW price, NEW notice, ReturnStranded(r, price, notice, held, stranded, funds)
       PROVE  Kept
  <2>1. r.m = p.m /\ r.id = p.id /\ r.amount \in Nat /\ ResultOf(p, r.t, r.amount)
    BY <1>6 DEF LegOf
  <2>2. /\ stranded'[p.m][p.id].amount = r.amount /\ stranded'[p.m][p.id].token = r.t
        /\ \A m \in Mirrors, i \in Ids :
             m # p.m \/ i # p.id => stranded'[m][i] = stranded[m][i]
    BY <1>1, <1>3, <1>10, <2>1, StrandRecorded
  <2>3. \A m \in Mirrors :
          \/ noticeNonce'[m] = noticeNonce[m]
          \/ m = p.m /\ noticeNonce'[m] = noticeNonce[m] + 1
    BY <1>0, <1>1, <1>10, <2>1, StrandNotices
  <2>4. \A m \in Mirrors, i \in Ids :
          \/ stranded'[m][i] = stranded[m][i]
          \/ ResultOf(PacketOf(m, i), stranded'[m][i].token, stranded'[m][i].amount)
    BY <1>2, <2>1, <2>2
  <2>5. HomeFits
    BY <1>4, <1>7, <1>8, <2>3, <2>4 DEF HomeFits
  <2>6. \A q : q \in StillOwed' <=> q \in StillOwed
    <3> TAKE q
    <3>1. CASE q = p
      <4>1. \E m \in Mirrors, i \in Ids : stranded'[m][i].amount > 0 /\ p = PacketOf(m, i)
        BY <1>1, <1>2, <1>6, <2>2
      <4> QED
        BY <1>5, <3>1, <4>1, OwedAfter
    <3>2. CASE q # p
      <4>1. \A m \in Mirrors, i \in Ids : q = PacketOf(m, i) =>
              (stranded'[m][i].amount > 0 <=> stranded[m][i].amount > 0)
        BY <1>2, <2>2, <3>2
      <4> QED
        BY <1>4, <1>5, <3>2, <4>1, OwedOnes, OwedAfter
    <3> QED
      BY <3>1, <3>2
  <2>7. StillOwed' = StillOwed
    BY <2>6
  <2>8. noticeNonce[p.m] < NoticeLimit
    BY <1>7, NoticeToSpare
  <2>9. Promise!HomeAnswers \/ UNCHANGED Promise!wireVars
    BY <1>4, <1>5, <1>6, <1>10, <2>7, <2>8, StrandHolds
  <2> QED
    BY <2>5, <2>9 DEF Kept
<1> QED
  BY <1>6, <1>9, <1>10 DEF LegDone

(* What a strand was made of: an order that is owed, and nowhere else.     *)
LEMMA StrandIsOwed ==
  ASSUME PromiseInv, NEW m \in Mirrors, NEW i \in Ids, NEW p, p = PacketOf(m, i),
         stranded[m][i].amount > 0
  PROVE  /\ p \in StillOwed /\ p \notin Alive /\ p \notin queue
         /\ LegOf(Retried(m, i), p)
         /\ \A mm \in Mirrors, ii \in Ids : mm # m \/ ii # i => PacketOf(mm, ii) # p
<1>0. TypeOK /\ PlaceInv /\ StrandsMatch
  BY DEF PromiseInv, WhereInv
<1>1. p.m = m /\ p.id = i /\ p.t = TokenIn(requests[m][i].dir)
  BY DEF PacketOf
<1>2. p \in StillOwed
  BY OwedOnes
<1>3. p \notin Alive /\ p \notin queue
  BY <1>0, <1>1, StrandsAlone DEF Alive
<1>4. requests[m][i] \in Request /\ stranded[m][i] \in Stranded
  BY <1>0 DEF TypeOK, MirrorTypeOK, RequestTypeOK, HomeTypeOK, RelayTypeOK
<1>5. p.t \in Tokens /\ p.sd \in Nat /\ p.min \in Nat
  <2>1. /\ TokenIn(requests[m][i].dir) \in Tokens /\ TokenOut(requests[m][i].dir) \in Tokens
        /\ requests[m][i].amountIn \in Nat /\ requests[m][i].minAmountOut \in Nat
    BY <1>4 DEF Request, TokenIn, TokenOut, Tokens
  <2>2. PICK q, qo \in Nat \ {0} : /\ q = MirrorQuantum[m][TokenIn(requests[m][i].dir)]
                                   /\ qo = MirrorQuantum[m][TokenOut(requests[m][i].dir)]
    BY <2>1, WireAssumption
  <2>3. PICK a, b \in Nat : a = requests[m][i].amountIn /\ b = requests[m][i].minAmountOut
    BY <2>1
  <2>4. a \div q \in Nat /\ b \div qo \in Nat
    OBVIOUS
  <2>5. p.sd = ToShared(a, q) /\ p.min = FloorToShared(b, qo)
    BY <2>2, <2>3 DEF PacketOf
  <2>6. FloorToShared(b, qo) \in Nat
    BY <2>4 DEF FloorToShared
  <2> QED
    BY <1>1, <2>1, <2>4, <2>5, <2>6 DEF ToShared
<1>6. ResultOf(p, stranded[m][i].token, stranded[m][i].amount)
  BY <1>0 DEF StrandsMatch
<1>7. LegOf(Retried(m, i), p)
  <2>1. /\ Retried(m, i).m = m /\ Retried(m, i).id = i
        /\ Retried(m, i).t = stranded[m][i].token
        /\ Retried(m, i).amount = stranded[m][i].amount
        /\ Retried(m, i).status = "REFUNDED"
    BY DEF Retried
  <2>2. i # 0 /\ stranded[m][i].token \in Tokens /\ stranded[m][i].amount \in Nat
    BY <1>4 DEF Ids, Stranded
  <2> QED
    BY <1>1, <1>5, <1>6, <2>1, <2>2 DEF LegOf
<1>8. \A mm \in Mirrors, ii \in Ids : mm # m \/ ii # i => PacketOf(mm, ii) # p
  BY <1>1 DEF PacketOf
<1> QED
  BY <1>2, <1>3, <1>7, <1>8

(* A strand that is cleared is owed no more.                               *)
LEMMA ClearedIsOwed ==
  ASSUME PromiseInv, NEW m \in Mirrors, NEW i \in Ids, NEW p, p = PacketOf(m, i),
         stranded[m][i].amount > 0, stranded' = Cleared(m, i),
         UNCHANGED <<requests, outNonce, noticeNonce, orders, lazy, verified, queue>>
  PROVE  HomeFits /\ StillOwed' = StillOwed \ {p}
<1>0. TypeOK /\ NoncesOrdered
  BY DEF PromiseInv, WhereInv
<1>1. Alive' = Alive
  BY DEF Alive, Dead
<1>2. stranded \in StrandTables
  BY <1>0 DEF TypeOK, HomeTypeOK, RelayTypeOK, StrandTables
<1>3. /\ stranded'[m][i].amount = 0
      /\ \A mm \in Mirrors, ii \in Ids : mm # m \/ ii # i => stranded'[mm][ii] = stranded[mm][ii]
  BY <1>2 DEF Cleared, StrandTables, Stranded
<1>4. ~(stranded'[m][i].amount > 0)
  BY <1>3
<1>5. HomeFits
  BY <1>0, <1>1, <1>3, <1>4 DEF HomeFits, NoncesOrdered
<1>6. /\ p \notin Alive /\ p \notin queue
      /\ \A mm \in Mirrors, ii \in Ids : mm # m \/ ii # i => PacketOf(mm, ii) # p
  BY StrandIsOwed
<1>7. \A q : q \in StillOwed' <=> q \in StillOwed /\ q # p
  BY <1>1, <1>3, <1>4, <1>6, OwedOnes, OwedAfter
<1> QED
  BY <1>5, <1>7

(* A retry answers the order, or holds it once more;                       *)
LEMMA RetryIsKept ==
  ASSUME PromiseInv, NEW m \in Mirrors, NEW i \in Ids, NEW v,
         RetrySent(m, i, v) \/ RetryStranded(m, i, v), requests' = requests
  PROVE  Kept
<1>0. TypeOK /\ NoncesOrdered
  BY DEF PromiseInv, WhereInv
<1>1. PICK p : p = PacketOf(m, i)
  OBVIOUS
<1>2. /\ stranded[m][i].amount > 0
      /\ UNCHANGED <<mirrorToken, outNonce, orders, composing, lazy, verified, queue>>
  BY DEF RetrySent, RetryStranded
<1>3. /\ p \in StillOwed /\ LegOf(Retried(m, i), p)
      /\ \A mm \in Mirrors, ii \in Ids : mm # m \/ ii # i => PacketOf(mm, ii) # p
  BY <1>1, <1>2, StrandIsOwed
<1>4. PICK r, held, owed, funds :
        r = Retried(m, i) /\ held = homeToken /\ owed = Cleared(m, i) /\ funds = native + v
  OBVIOUS
<1>5. CASE RetrySent(m, i, v)
  <2>1. PICK price : ReturnSent(r, price, held, owed, funds)
    BY <1>4, <1>5 DEF RetrySent
  <2>2. stranded' = Cleared(m, i) /\ noticeNonce' = noticeNonce
    BY <1>4, <2>1 DEF ReturnSent
  <2>3. HomeFits /\ StillOwed' = StillOwed \ {p}
    BY <1>1, <1>2, <2>2, ClearedIsOwed
  <2>4. Promise!HomeAnswers
    BY <1>2, <1>3, <1>4, <2>1, <2>3, SentAnswers
  <2> QED
    BY <2>3, <2>4 DEF Kept
<1>6. CASE RetryStranded(m, i, v)
  <2>1. PICK price, notice : ReturnStranded(r, price, notice, held, owed, funds)
    BY <1>4, <1>6 DEF RetryStranded
  <2>2. owed \in StrandTables /\ owed[m][i].amount = 0 /\ stranded \in StrandTables
    BY <1>0, <1>4, ClearedOwes DEF TypeOK, HomeTypeOK, RelayTypeOK, StrandTables
  <2>3. \A mm \in Mirrors, ii \in Ids : mm # m \/ ii # i => owed[mm][ii] = stranded[mm][ii]
    BY <1>4, <2>2 DEF Cleared, StrandTables
  <2>4. /\ r.m = m /\ r.id = i /\ r.amount \in Nat /\ r.amount = stranded[m][i].amount
        /\ ResultOf(p, r.t, r.amount)
    BY <1>1, <1>3, <1>4 DEF LegOf, PacketOf, Retried
  <2>5. /\ stranded'[m][i].amount = r.amount /\ stranded'[m][i].token = r.t
        /\ \A mm \in Mirrors, ii \in Ids :
             mm # m \/ ii # i => stranded'[mm][ii] = stranded[mm][ii]
    BY <2>1, <2>2, <2>3, <2>4, StrandRecorded
  <2>6. Alive' = Alive
    BY <1>2 DEF Alive, Dead
  <2>7. /\ noticeNonce[m] \in Nat /\ noticeNonce[m] < MaxNotices /\ MaxNotices \in Nat
    BY <1>0, <1>6, RelayAssumption DEF RetryStranded, TypeOK, MirrorTypeOK, WireTypeOK
  <2>8. \A mm \in Mirrors :
          noticeNonce'[mm] = noticeNonce[mm] \/ noticeNonce'[mm] <= MaxNotices
    <3>1. \A mm \in Mirrors :
            \/ noticeNonce'[mm] = noticeNonce[mm]
            \/ mm = r.m /\ noticeNonce'[mm] = noticeNonce[mm] + 1
      BY <1>0, <2>1, <2>4, StrandNotices
    <3> QED
      BY <2>4, <2>7, <3>1
  <2>9. \A mm \in Mirrors, ii \in Ids :
          \/ stranded'[mm][ii] = stranded[mm][ii]
          \/ ResultOf(PacketOf(mm, ii), stranded'[mm][ii].token, stranded'[mm][ii].amount)
    BY <1>1, <2>4, <2>5
  <2>10. HomeFits
    BY <1>0, <1>2, <2>6, <2>8, <2>9 DEF HomeFits, NoncesOrdered
  <2>11. \A mm \in Mirrors, ii \in Ids :
           stranded'[mm][ii].amount > 0 <=> stranded[mm][ii].amount > 0
    BY <1>2, <2>4, <2>5
  <2>12. \A q : q \in StillOwed' <=> q \in StillOwed
    BY <1>2, <2>6, <2>11, OwedOnes, OwedAfter
  <2>13. StillOwed' = StillOwed
    BY <2>12
  <2>14. noticeNonce[p.m] < NoticeLimit
    <3>1. /\ MaxNotices + 2 * MaxNonce <= NoticeLimit /\ MaxNonce \in Nat
          /\ NoticeLimit \in Nat /\ p.m = m
      BY <1>1, BoundsAssumption, WireAssumption, PromiseAssumption DEF PacketOf
    <3> QED
      BY <2>7, <3>1
  <2>15. Promise!HomeAnswers \/ UNCHANGED Promise!wireVars
    BY <1>2, <1>3, <1>4, <2>1, <2>13, <2>14, StrandHolds
  <2> QED
    BY <2>10, <2>15 DEF Kept
<1> QED
  BY <1>5, <1>6

(* a claim pays it out here.                                               *)
LEMMA ClaimIsKept ==
  ASSUME PromiseInv, NEW m \in Mirrors, NEW i \in Ids, ClaimStranded(m, i),
         requests' = requests
  PROVE  Kept
<1>1. PICK p : p = PacketOf(m, i)
  OBVIOUS
<1>2. /\ stranded[m][i].amount > 0 /\ stranded' = Cleared(m, i)
      /\ UNCHANGED <<wireVars, lazy, verified, queue>>
  BY DEF ClaimStranded
<1>3. HomeFits /\ StillOwed' = StillOwed \ {p}
  BY <1>1, <1>2, ClearedIsOwed DEF wireVars
<1>4. p \in StillOwed
  BY <1>1, <1>2, StrandIsOwed
<1>5. Promise!Consume(p)
  BY <1>2, <1>3 DEF Promise!Consume, wireVars
<1> QED
  BY <1>3, <1>4, <1>5 DEF Kept, Promise!HomeAnswers

(* Every step of the home chain fits, and is an answer or no step.         *)
LEMMA HomeIsKept ==
  ASSUME PromiseInv, AmountInv, TypeOK', HomeStep
  PROVE  Kept
<1>0. NoncesOrdered /\ requests' = requests
  BY DEF PromiseInv, HomeStep, requestVars
<1>1. CASE Delivering
  BY <1>0, <1>1, VerifyIsKept, ArrivalIsKept DEF Delivering
<1>2. CASE \E p \in queue : ExecuteOrder(p)
  BY <1>0, <1>2, ExecutionIsKept
<1>3. CASE Recovering
  BY <1>0, <1>3, RetryIsKept, ClaimIsKept, KillIsKept DEF Recovering
<1>4. CASE Operating
  <2>1. UNCHANGED <<wireVars, lazy, verified, queue, stranded>>
    BY <1>4 DEF Operating, FundNative, WithdrawNative, SweepDust, endpointVars
  <2>2. Alive' = Alive
    BY <2>1 DEF Alive, Dead, wireVars
  <2> QED
    BY <1>0, <2>1, <2>2, RestingKeeps
<1> QED
  BY <1>1, <1>2, <1>3, <1>4 DEF HomeStep, HomeNext

-----------------------------------------------------------------------------
(* At the start nothing is owed.                                           *)
LEMMA PromiseAtStart ==
  ASSUME Init
  PROVE  /\ NoncesOrdered /\ PacketsMatch /\ StrandsMatch /\ NoticesCounted
         /\ Promise!MirrorInit
<1>1. /\ orders = {} /\ queue = {}
      /\ \A m \in Mirrors, i \in Ids : ~(stranded[m][i].amount > 0)
      /\ \A m \in Mirrors, t \in Tokens : lazy[m][t] = 0 /\ outNonce[m][t] = 0
      /\ \A m \in Mirrors : noticeNonce[m] = 0
  BY DEF Init, MirrorInit, WireInit, HomeInit, EndpointInit, RelayInit
<1>2. NoncesOrdered /\ PacketsMatch /\ StrandsMatch
  BY <1>1, WireAssumption DEF NoncesOrdered, PacketsMatch, StrandsMatch
<1>3. NoticesCounted
  <2>1. \A m \in Mirrors : Cardinality(Handled(m)) \in Nat
    BY HandledCounts
  <2> QED
    BY <1>1, <2>1, RelayAssumption DEF NoticesCounted
<1>4. StillOwed = {}
  <2>1. \A p : p \notin StillOwed
    BY <1>1, OwedOnes DEF Alive
  <2> QED
    BY <2>1
<1>5. Promise!Cardinality(Users) = Cardinality(Users)
  BY Zenon DEF Cardinality, Promise!Cardinality, IsFiniteSet, Promise!IsFiniteSet
<1>6. Promise!WireInit
  BY <1>4, <1>5 DEF Init, MirrorInit, WireInit, Promise!WireInit, Promise!Tokens, Tokens,
     Promise!Accounts, Accounts, Promise!ToLocal, ToLocal, Promise!Contract, Contract,
     Promise!World, World, Promise!Vault, Vault
<1>7. Promise!RequestInit
  BY DEF Init, MirrorInit, RequestInit, Promise!RequestInit, Promise!Tokens, Tokens,
     Promise!EmptyRequest, EmptyRequest, Promise!EmptyEscrow, EmptyEscrow,
     Promise!FeeAccounts, FeeAccounts, Promise!Ids, Ids
<1> QED
  BY <1>2, <1>3, <1>6, <1>7 DEF Promise!MirrorInit

(* A step keeps the promise and the invariant.                             *)
LEMMA PromiseStep ==
  ASSUME PromiseInv, AmountInv, TypeOK', [Next]_vars
  PROVE  /\ NoncesOrdered' /\ PacketsMatch' /\ StrandsMatch' /\ NoticesCounted'
         /\ [Promise!PromiseNext]_(Promise!mirrorVars)
<1>0. NoncesOrdered
  BY DEF PromiseInv
<1>1. CASE MirrorStep
  BY <1>1, MirrorMaps, MirrorStepKeeps DEF Promise!PromiseNext
<1>2. UNCHANGED requestVars => UNCHANGED Promise!requestVars
  BY DEF requestVars, Promise!requestVars
<1>3. Kept => NoncesOrdered' /\ PacketsMatch' /\ StrandsMatch' /\ NoticesCounted'
  BY FittingKeeps DEF Kept
<1>4. CASE HomeStep
  <2>1. Kept /\ UNCHANGED Promise!requestVars
    BY <1>2, <1>4, HomeIsKept DEF HomeStep
  <2>2. Promise!HomeAnswers => Promise!PromiseNext
    BY <2>1 DEF Promise!PromiseNext
  <2>3. UNCHANGED Promise!wireVars => UNCHANGED Promise!mirrorVars
    BY <2>1 DEF Promise!mirrorVars
  <2> QED
    BY <1>3, <2>1, <2>2, <2>3 DEF Kept
<1>5. CASE UNCHANGED vars
  <2>1. UNCHANGED wireVars /\ UNCHANGED requestVars /\ requests' = requests
        /\ queue' = queue /\ stranded' = stranded /\ lazy' = lazy /\ verified' = verified
    BY <1>5 DEF vars, mirrorVars, homeVars, endpointVars, relayVars, requestVars, wireVars
  <2>2. Alive' = Alive
    BY <2>1 DEF Alive, Dead, wireVars
  <2>3. StillOwed' = StillOwed
    <3>1. \A p : p \in StillOwed' <=> p \in StillOwed
      BY <2>1, <2>2, OwedOnes, OwedAfter
    <3> QED
      BY <3>1
  <2>4. UNCHANGED Promise!mirrorVars
    BY <1>2, <2>1, <2>3 DEF wireVars, Promise!wireVars, Promise!mirrorVars
  <2> QED
    BY <1>0, <1>3, <2>1, <2>2, <2>4, RestingKeeps
<1> QED
  BY <1>1, <1>4, <1>5 DEF Next

(***************************************************************************)
(* The relay and its endpoint keep the home chain's promise, for every     *)
(* value of the constants that gives the promise as many outputs and       *)
(* notices as they have: what the mirrors see is one answer per order, at  *)
(* its floor or worth its input, or none after a kill or a claim.          *)
(***************************************************************************)
THEOREM PromiseIsKept == Spec => HomeKeepsPromise
<1> DEFINE More == NoncesOrdered /\ PacketsMatch /\ StrandsMatch /\ NoticesCounted
<1>1. Init => More /\ Promise!MirrorInit
  BY PromiseAtStart
<1>2. /\ More /\ WhereInv /\ WhereInv' /\ AmountInv /\ [Next]_vars
        => More' /\ [Promise!PromiseNext]_(Promise!mirrorVars)
  BY PromiseStep DEF PromiseInv, WhereInv
<1> HIDE DEF More
<1> QED
  BY <1>1, <1>2, WhereInvariant, AmountInvariant, PTL
     DEF Spec, HomeKeepsPromise, Promise!PromiseSpec

-----------------------------------------------------------------------------
(***************************************************************************)
(* What left a chain and arrived on no other is in flight: what the home   *)
(* chain says is away is what the mirrors and the wire say is.             *)
(***************************************************************************)
(* The home chain.                                                         *)

(* What of asset t left it and did not return, in shared units.            *)
HomeAway(k, t) ==
  IF t \in Adapted THEN ToShared(k.bal[Vault], HomeQuantum[t])
  ELSE ToShared(k.out, HomeQuantum[t]) - ToShared(k.in, HomeQuantum[t])

HomeWhole(k, t) ==
  IF t \in Adapted THEN Whole(k.bal[Vault], HomeQuantum[t])
  ELSE Whole(k.out, HomeQuantum[t]) /\ Whole(k.in, HomeQuantum[t])

(* From k to l, x units more are away.                                     *)
HomeMoves(k, l, t, x) ==
  HomeWhole(k, t) => HomeWhole(l, t) /\ HomeAway(l, t) = HomeAway(k, t) + x

(* Something is away, in whole numbers.                                    *)
LEMMA AwayIsInt ==
  ASSUME NEW k \in Token, NEW t \in Tokens
  PROVE  HomeAway(k, t) \in Int
<1>1. /\ k.bal[Vault] \in Nat /\ k.out \in Nat /\ k.in \in Nat
      /\ HomeQuantum[t] \in Nat \ {0}
  BY NamedAccounts, HomeAssumption DEF Token
<1>2. /\ ToShared(k.bal[Vault], HomeQuantum[t]) \in Nat
      /\ ToShared(k.out, HomeQuantum[t]) \in Nat
      /\ ToShared(k.in, HomeQuantum[t]) \in Nat
  BY <1>1, AmountTypes
<1> QED
  BY <1>2 DEF HomeAway

(* An asset that keeps its lockbox and its counters.                       *)
LEMMA HomeStays ==
  ASSUME NEW k \in Token, NEW t \in Tokens, NEW l,
         l.bal[Vault] = k.bal[Vault], l.out = k.out, l.in = k.in
  PROVE  HomeMoves(k, l, t, 0)
<1>1. HomeAway(k, t) \in Int
  BY AwayIsInt
<1>2. HomeAway(l, t) = HomeAway(k, t) /\ (HomeWhole(k, t) => HomeWhole(l, t))
  BY DEF HomeAway, HomeWhole
<1> QED
  BY <1>1, <1>2 DEF HomeMoves

(* A payment that is not the lockbox's.                                    *)
LEMMA HomePays ==
  ASSUME NEW k \in Token, NEW t \in Tokens, NEW a \in Accounts \ {Vault},
         NEW b \in Accounts \ {Vault}, NEW x \in Nat
  PROVE  HomeMoves(k, Transfer(k, a, b, x), t, 0)
<1>1. PICK l : l = Transfer(k, a, b, x)
  OBVIOUS
<1>2. Vault \in Accounts
  BY NamedAccounts
<1>3. l.bal[Vault] = k.bal[Vault]
  <2>1. CASE a = b
    BY <1>1, <1>2, <2>1, TransferToSelf
  <2>2. CASE a # b
    BY <1>1, <1>2, <2>2, TransferMoves
  <2> QED
    BY <2>1, <2>2
<1>4. l.out = k.out /\ l.in = k.in
  BY <1>1 DEF Transfer, Token
<1> QED
  BY <1>1, <1>3, <1>4, HomeStays

(* What the relay sends away.                                              *)
LEMMA HomeSends ==
  ASSUME NEW k \in Token, NEW t \in Tokens, NEW s \in Nat, NEW x,
         x = ToLocal(s, HomeQuantum[t]), CanPay(k, Contract, x)
  PROVE  HomeMoves(k, HomeDebit(k, t, Contract, x), t, s)
<1>1. PICK q, l : q = HomeQuantum[t] /\ l = HomeDebit(k, t, Contract, x)
  OBVIOUS
<1>2. q \in Nat \ {0} /\ x \in Nat
  BY <1>1, HomeAssumption, AmountTypes
<1>3. /\ Contract \in Accounts /\ Vault \in Accounts /\ Contract # Vault
      /\ k.bal[Vault] \in Nat /\ k.out \in Nat /\ k.in \in Nat
  BY NamedAccounts DEF Token, Contract, Vault
<1> SUFFICES ASSUME HomeWhole(k, t)
             PROVE  HomeWhole(l, t) /\ HomeAway(l, t) = HomeAway(k, t) + s
  BY <1>1 DEF HomeMoves
<1>4. CASE t \in Adapted
  <2>1. l.bal[Vault] = k.bal[Vault] + x
    BY <1>1, <1>2, <1>3, <1>4, TransferMoves DEF HomeDebit, Lock
  <2>2. Whole(k.bal[Vault], q)
    BY <1>1, <1>4 DEF HomeWhole
  <2>3. Whole(l.bal[Vault], q) /\ ToShared(l.bal[Vault], q) = ToShared(k.bal[Vault], q) + s
    BY <1>1, <1>2, <1>3, <2>1, <2>2, WholeMore
  <2> QED
    BY <1>1, <1>4, <2>3 DEF HomeWhole, HomeAway
<1>5. CASE t \notin Adapted
  <2>1. l.out = k.out + x /\ l.in = k.in
    BY <1>1, <1>2, <1>3, <1>5, BurnMoves DEF HomeDebit
  <2>2. Whole(k.out, q) /\ Whole(k.in, q)
    BY <1>1, <1>5 DEF HomeWhole
  <2>3. Whole(l.out, q) /\ ToShared(l.out, q) = ToShared(k.out, q) + s
    BY <1>1, <1>2, <1>3, <2>1, <2>2, WholeMore
  <2>4. ToShared(k.out, q) \in Nat /\ ToShared(k.in, q) \in Nat
    BY <1>2, <1>3, AmountTypes
  <2> QED
    BY <1>1, <1>5, <2>1, <2>2, <2>3, <2>4 DEF HomeWhole, HomeAway
<1> QED
  BY <1>4, <1>5

(* What arrives there, for anybody but the lockbox.                        *)
LEMMA HomeGets ==
  ASSUME NEW k \in Token, NEW t \in Tokens, NEW a \in Accounts \ {Vault}, NEW s \in Nat, NEW x,
         x = ToLocal(s, HomeQuantum[t]), t \in Adapted => CanPay(k, Vault, x)
  PROVE  HomeMoves(k, HomeCredit(k, t, a, x), t, -s)
<1>1. PICK q, l : q = HomeQuantum[t] /\ l = HomeCredit(k, t, a, x)
  OBVIOUS
<1>2. q \in Nat \ {0} /\ x \in Nat
  BY <1>1, HomeAssumption, AmountTypes
<1>3. /\ Vault \in Accounts
      /\ k.bal[Vault] \in Nat /\ k.out \in Nat /\ k.in \in Nat
  BY NamedAccounts DEF Token
<1> SUFFICES ASSUME HomeWhole(k, t)
             PROVE  HomeWhole(l, t) /\ HomeAway(l, t) = HomeAway(k, t) + (-s)
  BY <1>1 DEF HomeMoves
<1>4. CASE t \in Adapted
  <2>1. l.bal[Vault] = k.bal[Vault] - x
    BY <1>1, <1>2, <1>3, <1>4, TransferMoves DEF HomeCredit, Unlock
  <2>2. Whole(k.bal[Vault], q)
    BY <1>1, <1>4 DEF HomeWhole
  <2>3. l.bal[Vault] \in Nat /\ k.bal[Vault] = l.bal[Vault] + x
    BY <1>2, <1>3, <1>4, <2>1 DEF CanPay
  <2>4. /\ Whole(l.bal[Vault], q)
        /\ ToShared(l.bal[Vault], q) + s = ToShared(k.bal[Vault], q)
    BY <1>1, <1>2, <1>3, <2>2, <2>3, WholeLess
  <2>5. ToShared(l.bal[Vault], q) \in Nat
    BY <1>2, <2>3, AmountTypes
  <2> QED
    BY <1>1, <1>4, <2>4, <2>5 DEF HomeWhole, HomeAway
<1>5. CASE t \notin Adapted
  <2>1. l.in = k.in + x /\ l.out = k.out
    BY <1>1, <1>2, <1>3, <1>5, MintMoves DEF HomeCredit
  <2>2. Whole(k.out, q) /\ Whole(k.in, q)
    BY <1>1, <1>5 DEF HomeWhole
  <2>3. Whole(l.in, q) /\ ToShared(l.in, q) = ToShared(k.in, q) + s
    BY <1>1, <1>2, <1>3, <2>1, <2>2, WholeMore
  <2>4. ToShared(k.out, q) \in Nat /\ ToShared(k.in, q) \in Nat
    BY <1>2, <1>3, AmountTypes
  <2> QED
    BY <1>1, <1>5, <2>1, <2>2, <2>3, <2>4 DEF HomeWhole, HomeAway
<1> QED
  BY <1>4, <1>5

-----------------------------------------------------------------------------
(* A step of the home chain takes an order off the wire,                   *)
TakesOff(p) ==
  /\ p \in orders /\ Executable(p.m, p.t, p.nonce)
  /\ orders' = orders \ {p}
  /\ \A t \in Tokens :
       HomeMoves(homeToken[t], homeToken'[t], t, IF t = p.t THEN -p.sd ELSE 0)
  /\ UNCHANGED <<mirrorToken, requests, returns, backNonce>>

(* puts a result on it,                                                    *)
PutsOn(p) ==
  /\ p \in ReturnPacket /\ p.nonce = backNonce[p.m][p.t] + 1
  /\ returns' = returns \cup {p}
  /\ backNonce' = [backNonce EXCEPT ![p.m][p.t] = @ + 1]
  /\ \A t \in Tokens :
       HomeMoves(homeToken[t], homeToken'[t], t, IF t = p.t THEN p.sd ELSE 0)
  /\ UNCHANGED <<mirrorToken, requests, orders>>

(* or leaves it alone.                                                     *)
LeavesAlone ==
  /\ \A t \in Tokens : HomeMoves(homeToken[t], homeToken'[t], t, 0)
  /\ UNCHANGED <<mirrorToken, requests, orders, returns, backNonce>>

(* A table of home assets that a handler has come to, with nothing sent.   *)
HomeTable(held) ==
  /\ held \in [Tokens -> Token]
  /\ \A t \in Tokens : HomeMoves(homeToken[t], held[t], t, 0)

(* The table it starts from.                                               *)
LEMMA TableAtStart ==
  ASSUME homeToken \in [Tokens -> Token]
  PROVE  HomeTable(homeToken)
BY HomeStays DEF HomeTable

(* A payment in one asset is such a table's next.                          *)
LEMMA TablePays ==
  ASSUME homeToken \in [Tokens -> Token], NEW held, HomeTable(held), NEW t \in Tokens,
         NEW a \in Accounts \ {Vault}, NEW b \in Accounts \ {Vault}, NEW x \in Nat,
         CanPay(held[t], a, x)
  PROVE  HomeTable([held EXCEPT ![t] = Transfer(held[t], a, b, x)])
<1>1. PICK k : k = Transfer(held[t], a, b, x)
  OBVIOUS
<1>2. held \in [Tokens -> Token] /\ held[t] \in Token
  BY DEF HomeTable
<1>3. k \in Token
  BY <1>1, <1>2, TransferType
<1>4. PICK after : after = [held EXCEPT ![t] = k]
  OBVIOUS
<1>5. after \in [Tokens -> Token]
  BY <1>2, <1>3, <1>4
<1>6. ASSUME NEW tt \in Tokens
      PROVE  HomeMoves(homeToken[tt], after[tt], tt, 0)
  <2>1. HomeMoves(homeToken[tt], held[tt], tt, 0)
    BY DEF HomeTable
  <2>2. CASE tt = t
    <3>1. after[tt] = k
      BY <1>2, <1>4, <2>2
    <3>2. HomeMoves(held[tt], k, tt, 0)
      BY <1>1, <1>2, <2>2, HomePays
    <3>3. HomeAway(homeToken[tt], tt) \in Int
      BY AwayIsInt
    <3> QED
      BY <2>1, <3>1, <3>2, <3>3 DEF HomeMoves
  <2>3. CASE tt # t
    BY <1>2, <1>4, <2>1, <2>3
  <2> QED
    BY <2>2, <2>3
<1> QED
  BY <1>1, <1>4, <1>5, <1>6 DEF HomeTable

(* The return leg, sent from it:                                           *)
LEMMA LegPutsOn ==
  ASSUME TypeOK, NEW r, r.m \in Mirrors, r.id \in Ids, r.t \in Tokens, r.amount \in Nat,
         r.status \in {"FILLED", "REFUNDED"},
         NEW held, HomeTable(held), NEW price, NEW owed, NEW funds,
         ReturnSent(r, price, held, owed, funds),
         UNCHANGED <<mirrorToken, requests, orders>>
  PROVE  \E p : PutsOn(p)
<1>1. PICK q, sd, n : /\ q = HomeQuantum[r.t] /\ sd = ToShared(r.amount, q)
                      /\ n = backNonce[r.m][r.t]
  OBVIOUS
<1>2. q \in Nat \ {0}
  BY <1>1, HomeAssumption
<1>3. /\ sd \in Nat /\ ToLocal(sd, q) = RemoveDust(r.amount, q)
      /\ ToLocal(sd, q) \in Nat /\ ToLocal(sd, q) <= r.amount
  BY <1>1, <1>2, AmountTypes DEF RemoveDust
<1>4. PICK x : x = ToLocal(sd, q)
  OBVIOUS
<1>5. /\ CanPay(held[r.t], Contract, r.amount)
      /\ homeToken' = [held EXCEPT ![r.t] = HomeDebit(@, r.t, Contract, x)]
      /\ SendReturn(r.m, r.t, r.id, sd, r.status)
  BY <1>1, <1>3, <1>4 DEF ReturnSent, Sendable
<1>6. held \in [Tokens -> Token] /\ held[r.t] \in Token
  BY DEF HomeTable
<1>7. CanPay(held[r.t], Contract, x)
  <2>1. held[r.t].bal[Contract] \in Nat
    BY <1>6, NamedAccounts DEF Token
  <2> QED
    BY <1>3, <1>4, <1>5, <2>1 DEF CanPay
<1>8. PICK k : k = HomeDebit(held[r.t], r.t, Contract, x)
  OBVIOUS
<1>9. HomeMoves(held[r.t], k, r.t, sd)
  BY <1>1, <1>3, <1>4, <1>6, <1>7, <1>8, HomeSends
<1>10. PICK p : p = [m |-> r.m, t |-> r.t, nonce |-> n + 1, id |-> r.id,
                     sd |-> sd, status |-> r.status]
  OBVIOUS
<1>11. /\ p.m = r.m /\ p.t = r.t /\ p.nonce = n + 1 /\ p.sd = sd
       /\ returns' = returns \cup {p}
       /\ backNonce' = [backNonce EXCEPT ![r.m][r.t] = @ + 1]
  BY <1>1, <1>5, <1>10 DEF SendReturn
<1>12. p \in ReturnPacket
  <2>1. n + 1 \in Nat
    BY <1>1 DEF TypeOK, MirrorTypeOK, WireTypeOK
  <2> QED
    BY <1>3, <1>10, <2>1 DEF ReturnPacket
<1>13. ASSUME NEW t \in Tokens
       PROVE  HomeMoves(homeToken[t], homeToken'[t], t, IF t = p.t THEN p.sd ELSE 0)
  <2>1. HomeMoves(homeToken[t], held[t], t, 0)
    BY DEF HomeTable
  <2>2. CASE t = r.t
    <3>1. homeToken'[t] = k
      BY <1>5, <1>6, <1>8, <2>2
    <3>2. HomeMoves(held[t], k, t, sd)
      BY <1>9, <2>2
    <3>3. HomeAway(homeToken[t], t) \in Int
      BY AwayIsInt DEF TypeOK, HomeTypeOK, EndpointTypeOK
    <3>4. HomeMoves(homeToken[t], k, t, sd)
      BY <1>3, <2>1, <3>2, <3>3 DEF HomeMoves
    <3> QED
      BY <1>11, <2>2, <3>1, <3>4
  <2>3. CASE t # r.t
    BY <1>5, <1>6, <1>11, <2>1, <2>3
  <2> QED
    BY <2>2, <2>3
<1>14. PutsOn(p)
  BY <1>1, <1>11, <1>12, <1>13 DEF PutsOn
<1> QED
  BY <1>14

(* or not.                                                                 *)
LEMMA LegLeavesAlone ==
  ASSUME NEW r, NEW held, HomeTable(held), NEW price, NEW notice, NEW owed, NEW funds,
         ReturnStranded(r, price, notice, held, owed, funds),
         UNCHANGED <<mirrorToken, requests, orders>>
  PROVE  LeavesAlone
BY DEF ReturnStranded, HomeTable, LeavesAlone

(* An order arrives.                                                       *)
LEMMA ArrivalTakesOff ==
  ASSUME TypeOK, NEW p \in orders, ReceiveOrder(p),
         UNCHANGED <<mirrorToken, requests, returns, backNonce>>
  PROVE  TakesOff(p)
<1>1. p \in OrderPacket /\ homeToken \in [Tokens -> Token]
  BY DEF TypeOK, MirrorTypeOK, WireTypeOK, HomeTypeOK, EndpointTypeOK
<1>2. p.t \in Tokens /\ p.sd \in Nat /\ p.user \in Users
  BY <1>1 DEF OrderPacket
<1>3. PICK a, x : /\ a = (IF p.id = 0 THEN p.user ELSE Contract)
                  /\ x = ToLocal(p.sd, HomeQuantum[p.t])
  OBVIOUS
<1>4. a \in Accounts \ {Vault}
  BY <1>2, <1>3, ContractApart DEF Accounts, Contract, Vault
<1>5. PICK k : k = HomeCredit(homeToken[p.t], p.t, a, x)
  OBVIOUS
<1>6. /\ Executable(p.m, p.t, p.nonce) /\ orders' = orders \ {p}
      /\ p.t \in Adapted => CanPay(homeToken[p.t], Vault, x)
      /\ homeToken' = [homeToken EXCEPT ![p.t] = k]
  BY <1>3, <1>5 DEF ReceiveOrder
<1>7. HomeMoves(homeToken[p.t], k, p.t, -p.sd)
  BY <1>1, <1>2, <1>3, <1>4, <1>5, <1>6, HomeGets
<1>8. ASSUME NEW t \in Tokens
      PROVE  HomeMoves(homeToken[t], homeToken'[t], t, IF t = p.t THEN -p.sd ELSE 0)
  <2>1. CASE t = p.t
    BY <1>1, <1>6, <1>7, <2>1
  <2>2. CASE t # p.t
    BY <1>1, <1>6, <2>2, HomeStays
  <2> QED
    BY <2>1, <2>2
<1> QED
  BY <1>6, <1>8 DEF TakesOff

(* The relay runs one.                                                     *)
LEMMA ExecutionFlows ==
  ASSUME TypeOK, NEW p \in queue, ExecuteOrder(p), requests' = requests
  PROVE  (\E r : PutsOn(r)) \/ LeavesAlone
<1>1. PICK input, tOut, funds :
        input = InputOf(p) /\ tOut = OtherToken(p.t) /\ funds = native + ComposeValue
  OBVIOUS
<1>2. p \in OrderPacket /\ p.id # 0 /\ homeToken \in [Tokens -> Token]
  BY DEF TypeOK, HomeTypeOK, EndpointTypeOK
<1>3. p.m \in Mirrors /\ p.t \in Tokens /\ p.sd \in Nat /\ p.id \in Ids
  BY <1>2 DEF OrderPacket
<1>4. tOut \in Tokens /\ tOut # p.t
  BY <1>1, <1>3 DEF OtherToken, Tokens
<1>5. input \in Nat
  BY <1>1, <1>3, HomeWorth DEF InputOf
<1>6. UNCHANGED <<mirrorToken, requests, orders>>
  BY DEF ExecuteOrder, FillOrder, RejectOrder, Handed
<1>7. Contract \in Accounts \ {Vault} /\ World \in Accounts \ {Vault}
  BY NamedAccounts DEF Contract, World, Vault
<1>8. ASSUME NEW r, r.m \in Mirrors, r.id \in Ids, r.t \in Tokens, r.amount \in Nat,
             r.status \in {"FILLED", "REFUNDED"},
             NEW held, HomeTable(held), ReturnToMirror(r, held, stranded, funds)
      PROVE  (\E s : PutsOn(s)) \/ LeavesAlone
  BY <1>6, <1>8, LegPutsOn, LegLeavesAlone DEF ReturnToMirror
<1>9. ASSUME NEW out \in PoolOutputs, FillOrder(p, out)
      PROVE  (\E s : PutsOn(s)) \/ LeavesAlone
  <2>1. PICK one : one = [homeToken EXCEPT ![p.t] = Transfer(homeToken[p.t], Contract, World, input)]
    OBVIOUS
  <2>2. PICK two : two = [one EXCEPT ![tOut] = Transfer(one[tOut], World, Contract, out)]
    OBVIOUS
  <2>3. PICK r : r = [m |-> p.m, id |-> p.id, t |-> tOut, amount |-> out,
                      user |-> p.user, status |-> "FILLED"]
    OBVIOUS
  <2>4. out \in Nat
    BY RelayAssumption
  <2>5. one[tOut] = homeToken[tOut]
    BY <1>2, <1>4, <2>1
  <2>6. /\ CanPay(homeToken[p.t], Contract, input) /\ CanPay(one[tOut], World, out)
        /\ ReturnToMirror(r, two, stranded, funds)
    <3>1. [homeToken EXCEPT ![p.t] = Transfer(@, Contract, World, input),
                            ![tOut] = Transfer(@, World, Contract, out)] = two
      BY <1>2, <1>3, <1>4, <2>1, <2>2, <2>5
    <3> QED
      BY <1>1, <1>9, <2>3, <2>5, <3>1 DEF FillOrder
  <2>7. HomeTable(one)
    BY <1>2, <1>3, <1>5, <1>7, <2>1, <2>6, TableAtStart, TablePays
  <2>8. HomeTable(two)
    BY <1>2, <1>4, <1>7, <2>2, <2>4, <2>6, <2>7, TablePays
  <2> QED
    BY <1>3, <1>4, <1>8, <2>3, <2>4, <2>6, <2>8
<1>10. ASSUME NEW out \in PoolOutputs, RejectOrder(p, out)
       PROVE  (\E s : PutsOn(s)) \/ LeavesAlone
  <2>1. PICK r : r = [m |-> p.m, id |-> p.id, t |-> p.t, amount |-> input,
                      user |-> p.user, status |-> "REFUNDED"]
    OBVIOUS
  <2>2. ReturnToMirror(r, homeToken, stranded, funds)
    BY <1>1, <1>10, <2>1 DEF RejectOrder
  <2>3. HomeTable(homeToken)
    BY <1>2, TableAtStart
  <2> QED
    BY <1>3, <1>5, <1>8, <2>1, <2>2, <2>3
<1> QED
  BY <1>9, <1>10 DEF ExecuteOrder

(* A payment of the relay's, and nothing else.                             *)
LEMMA PayingLeavesAlone ==
  ASSUME TypeOK, NEW t \in Tokens, NEW b \in Accounts \ {Vault}, NEW x \in Nat,
         CanPay(homeToken[t], Contract, x),
         homeToken' = [homeToken EXCEPT ![t] = Transfer(@, Contract, b, x)],
         UNCHANGED <<mirrorToken, requests, orders, returns, backNonce>>
  PROVE  LeavesAlone
<1>1. homeToken \in [Tokens -> Token]
  BY DEF TypeOK, HomeTypeOK, EndpointTypeOK
<1>2. Contract \in Accounts \ {Vault}
  BY NamedAccounts DEF Contract, Vault
<1>3. PICK after : after = [homeToken EXCEPT ![t] = Transfer(homeToken[t], Contract, b, x)]
  OBVIOUS
<1>4. HomeTable(after)
  BY <1>1, <1>2, <1>3, TableAtStart, TablePays
<1>5. homeToken' = after
  BY <1>1, <1>3
<1> QED
  BY <1>4, <1>5 DEF HomeTable, LeavesAlone

(* What moves no asset of the home chain leaves the wire alone.            *)
LEMMA StillLeavesAlone ==
  ASSUME TypeOK, UNCHANGED <<homeToken, mirrorToken, requests, orders, returns, backNonce>>
  PROVE  LeavesAlone
<1>1. homeToken \in [Tokens -> Token]
  BY DEF TypeOK, HomeTypeOK, EndpointTypeOK
<1> QED
  BY <1>1, HomeStays DEF LeavesAlone

(* Every step of the home chain is one of the three.                       *)
LEMMA HomeFlowKinds ==
  ASSUME TypeOK, HomeStep
  PROVE  (\E p : TakesOff(p)) \/ (\E p : PutsOn(p)) \/ LeavesAlone
<1>1. HomeNext /\ requests' = requests
  BY DEF HomeStep, requestVars
<1>2. CASE Delivering
  <2>1. PICK p \in orders :
          /\ Verify(p) \/ ReceiveOrder(p)
          /\ UNCHANGED <<mirrorToken, returns, backNonce>>
    BY <1>2 DEF Delivering
  <2>2. CASE Verify(p)
    BY <1>1, <2>1, <2>2, StillLeavesAlone DEF Verify
  <2>3. CASE ReceiveOrder(p)
    BY <1>1, <2>1, <2>3, ArrivalTakesOff
  <2> QED
    BY <2>1, <2>2, <2>3
<1>3. ASSUME NEW p \in queue, ExecuteOrder(p)
      PROVE  (\E s : PutsOn(s)) \/ LeavesAlone
  BY <1>1, <1>3, ExecutionFlows
<1>4. ASSUME NEW m \in Mirrors, NEW id \in Ids, NEW v \in FundAmounts \cup {0},
             RetrySent(m, id, v) \/ RetryStranded(m, id, v)
      PROVE  (\E s : PutsOn(s)) \/ LeavesAlone
  <2>1. UNCHANGED <<mirrorToken, requests, orders>>
    BY <1>1, <1>4 DEF RetrySent, RetryStranded
  <2>2. PICK r : r = Retried(m, id)
    OBVIOUS
  <2>3. /\ r.m \in Mirrors /\ r.id \in Ids /\ r.t \in Tokens /\ r.amount \in Nat
        /\ r.status \in {"FILLED", "REFUNDED"}
    BY <2>2, StrandedTypes DEF Retried
  <2>4. HomeTable(homeToken)
    BY TableAtStart DEF TypeOK, HomeTypeOK, EndpointTypeOK
  <2>5. CASE RetrySent(m, id, v)
    BY <2>1, <2>2, <2>3, <2>4, <2>5, LegPutsOn DEF RetrySent
  <2>6. CASE RetryStranded(m, id, v)
    BY <2>1, <2>2, <2>4, <2>6, LegLeavesAlone DEF RetryStranded
  <2> QED
    BY <1>4, <2>5, <2>6
<1>5. ASSUME NEW m \in Mirrors, NEW id \in Ids, ClaimStranded(m, id)
      PROVE  LeavesAlone
  <2>1. PICK s : s = stranded[m][id]
    OBVIOUS
  <2>2. s.token \in Tokens /\ s.amount \in Nat
    BY <2>1, StrandedTypes
  <2>3. s.beneficiary \in Accounts \ {Vault}
    BY <1>5, <2>1, RelayAssumption, ContractApart DEF ClaimStranded, Accounts
  <2> QED
    BY <1>1, <1>5, <2>1, <2>2, <2>3, PayingLeavesAlone DEF ClaimStranded, wireVars
<1>6. ASSUME NEW p \in orders, NEW h \in BOOLEAN, CancelStuckInbound(p, h)
      PROVE  LeavesAlone
  BY <1>1, <1>6, StillLeavesAlone DEF CancelStuckInbound
<1>7. CASE Operating
  <2>1. ASSUME NEW v, FundNative(v) \/ WithdrawNative(v)
        PROVE  LeavesAlone
    BY <1>1, <2>1, StillLeavesAlone DEF FundNative, WithdrawNative, wireVars, endpointVars
  <2>2. ASSUME NEW t \in Tokens, SweepDust(t)
        PROVE  LeavesAlone
    <3>1. World \in Accounts \ {Vault} /\ dustAccrued[t] \in Nat
      BY NamedAccounts DEF World, Vault, TypeOK, HomeTypeOK, RelayTypeOK
    <3> QED
      BY <1>1, <2>2, <3>1, PayingLeavesAlone DEF SweepDust, wireVars
  <2> QED
    BY <1>7, <2>1, <2>2 DEF Operating
<1> QED
  BY <1>1, <1>2, <1>3, <1>4, <1>5, <1>6, <1>7 DEF HomeNext, Recovering

-----------------------------------------------------------------------------
(* The invariant.                                                          *)
HomeUnits == \A t \in Tokens : HomeWhole(homeToken[t], t)

Balanced == \A t \in Tokens : HomeAway(homeToken[t], t) = Away(t)

FlowInv == WireInv /\ HomeUnits /\ Balanced

(* The property follows.                                                   *)
LEMMA BalancedFlows ==
  ASSUME TypeOK, FlowInv
  PROVE  FlowIsInFlight
<1> SUFFICES ASSUME NEW t \in Tokens
             PROVE  IF t \in Adapted
                    THEN homeToken[t].bal[Vault]
                           = ToLocal(AbroadShared(t) + InFlight(t), HomeQuantum[t])
                    ELSE NetFlow(t) = InFlight(t)
  BY DEF FlowIsInFlight
<1>0. WireTypeOK /\ WireInv
  BY DEF TypeOK, MirrorTypeOK, FlowInv
<1>1. /\ AbroadShared(t) \in Nat /\ AbroadShared(t) + OutShared(t) = InShared(t)
      /\ OutShared(t) \in Nat /\ InShared(t) \in Nat
  BY <1>0, AbroadIsNet, CountedTypes DEF WireInv
<1>2. HomeAway(homeToken[t], t) = InShared(t) + InFlight(t) - OutShared(t)
  BY DEF FlowInv, Balanced, Away
<1>3. InFlight(t) \in Nat
  BY <1>0, FlightTypes
<1>4. HomeAway(homeToken[t], t) \in Int
  BY AwayIsInt DEF TypeOK, HomeTypeOK, EndpointTypeOK
<1>5. HomeWhole(homeToken[t], t)
  BY DEF FlowInv, HomeUnits
<1>6. CASE t \in Adapted
  <2>1. PICK x : x = ToShared(homeToken[t].bal[Vault], HomeQuantum[t])
    OBVIOUS
  <2>2. x = HomeAway(homeToken[t], t)
    BY <1>6, <2>1 DEF HomeAway
  <2>3. x = AbroadShared(t) + InFlight(t)
    BY <1>1, <1>2, <1>3, <1>4, <2>2
  <2>4. homeToken[t].bal[Vault] = ToLocal(x, HomeQuantum[t])
    BY <1>5, <1>6, <2>1 DEF HomeWhole, Whole
  <2> QED
    BY <1>6, <2>3, <2>4
<1>7. CASE t \notin Adapted
  <2>1. PICK x, y : /\ x = ToShared(homeToken[t].out, HomeQuantum[t])
                    /\ y = ToShared(homeToken[t].in, HomeQuantum[t])
    OBVIOUS
  <2>2. x \in Nat /\ y \in Nat
    <3>1. homeToken[t].out \in Nat /\ homeToken[t].in \in Nat
      BY DEF Token, TypeOK, HomeTypeOK, EndpointTypeOK
    <3> QED
      BY <2>1, <3>1, AmountTypes, HomeAssumption
  <2>3. HomeAway(homeToken[t], t) = x - y
    BY <1>7, <2>1 DEF HomeAway
  <2>4. NetFlow(t) = x - y + OutShared(t) - InShared(t)
    BY <2>1 DEF NetFlow
  <2> QED
    BY <1>1, <1>2, <1>3, <1>7, <2>2, <2>3, <2>4
<1> QED
  BY <1>6, <1>7

-----------------------------------------------------------------------------
(* What the mirrors hold at the start came from the home chain.            *)
LEMMA HomeAtStart ==
  ASSUME Init, NEW t \in Tokens
  PROVE  /\ HomeWhole(homeToken[t], t)
         /\ HomeAway(homeToken[t], t) = GivenShared(t)
<1>1. PICK k, q, f, n, c : /\ k = homeToken[t] /\ q = HomeQuantum[t] /\ f = MirrorFloat[t]
                           /\ n = Cardinality(Users) /\ c = Cardinality(Mirrors)
  OBVIOUS
<1>2. q \in Nat \ {0} /\ f \in Nat /\ n \in Nat /\ c \in Nat
  BY <1>1, WireAssumption, HomeAssumption, FS_CardinalityType
<1>3. PICK x : x = c * (n * f)
  OBVIOUS
<1>4. x \in Nat /\ c * n \in Nat /\ x = (c * n) * f
  BY <1>2, <1>3, ProductsRegroup
<1>5. AbroadAtStart(t) = ToLocal(x, q)
  BY <1>1, <1>4 DEF AbroadAtStart, ToLocal
<1>6. Vault \in Accounts /\ Vault # World
  BY NamedAccounts DEF Vault, World
<1>7. /\ t \in Adapted => k.bal[Vault] = ToLocal(x, q)
      /\ t \notin Adapted => k.out = ToLocal(x, q) /\ k.in = 0
  BY <1>1, <1>5, <1>6 DEF Init, HomeInit, EndpointInit, HomeTokenAtStart
<1>8. ToShared(ToLocal(x, q), q) = x
  BY <1>2, <1>4, UnitsExact
<1>9. ToShared(0, q) = 0 /\ ToLocal(0, q) = 0
  <2>1. ToLocal(0, q) = 0
    BY <1>2 DEF ToLocal
  <2> QED
    BY <1>2, <2>1, UnitsExact
<1>10. HomeWhole(k, t) /\ HomeAway(k, t) = x
  <2>1. CASE t \in Adapted
    BY <1>1, <1>7, <1>8, <2>1 DEF HomeWhole, HomeAway, Whole
  <2>2. CASE t \notin Adapted
    BY <1>1, <1>4, <1>7, <1>8, <1>9, <2>2 DEF HomeWhole, HomeAway, Whole
  <2> QED
    BY <2>1, <2>2
<1> QED
  BY <1>1, <1>3, <1>10 DEF GivenShared

(* The invariant at the start.                                             *)
LEMMA FlowAtStart ==
  ASSUME Init
  PROVE  FlowInv
<1>1. WireInv /\ \A t \in Tokens : Away(t) = GivenShared(t)
  BY WireAtStart DEF Init
<1> QED
  BY <1>1, HomeAtStart DEF FlowInv, HomeUnits, Balanced

-----------------------------------------------------------------------------
(* Every step keeps the balance.                                           *)

(* As much more is away for the home chain as for the mirrors and the wire. *)
LEMMA BothMove ==
  ASSUME FlowInv, WireInv',
         \A t \in Tokens : \E x :
           HomeMoves(homeToken[t], homeToken'[t], t, x) /\ Away(t)' = Away(t) + x
  PROVE  FlowInv'
<1>1. ASSUME NEW t \in Tokens
      PROVE  HomeWhole(homeToken'[t], t) /\ HomeAway(homeToken'[t], t) = Away(t)'
  <2>1. PICK x : HomeMoves(homeToken[t], homeToken'[t], t, x) /\ Away(t)' = Away(t) + x
    OBVIOUS
  <2>2. HomeWhole(homeToken[t], t) /\ HomeAway(homeToken[t], t) = Away(t)
    BY DEF FlowInv, HomeUnits, Balanced
  <2> QED
    BY <2>1, <2>2 DEF HomeMoves
<1>2. HomeUnits' /\ Balanced'
  BY <1>1 DEF HomeUnits, Balanced
<1> QED
  BY <1>2 DEF FlowInv

(* As much as before.                                                      *)
LEMMA NeitherMoves ==
  ASSUME TypeOK, FlowInv, WireInv',
         \A t \in Tokens : HomeMoves(homeToken[t], homeToken'[t], t, 0),
         \A t \in Tokens : Away(t)' = Away(t)
  PROVE  FlowInv'
<1>1. ASSUME NEW t \in Tokens
      PROVE  Away(t)' = Away(t) + 0
  <2>1. Away(t) \in Int
    BY AwayTypes DEF TypeOK, MirrorTypeOK, FlowInv
  <2> QED
    BY <2>1
<1> QED
  BY <1>1, BothMove

(* An order arrives on the home chain: it was on the wire, for what was    *)
(* restored is dead.                                                       *)
LEMMA ExecutedWasFlying ==
  ASSUME CancelInv, PlaceInv, NEW p, TakesOff(p)
  PROVE  p \in Flying
<1>1. p \in orders /\ Executable(p.m, p.t, p.nonce)
  BY DEF TakesOff
<1>2. p \in OrderPacket
  BY <1>1 DEF CancelInv, TypeOK, MirrorTypeOK, WireTypeOK
<1>3. p.m \in Mirrors /\ p.id \in Ids \cup {0}
  BY <1>2 DEF OrderPacket
<1>4. SUFFICES ASSUME Restored(p)
               PROVE  FALSE
  BY <1>1 DEF Flying
<1>5. p.id \in Ids /\ requests[p.m][p.id].status = "CANCELLED"
  BY <1>3, <1>4 DEF Restored
<1>6. PICK o \in Holds(orders, p.m, p.id) : Dead(p.m, o.t, o.nonce)
  BY <1>3, <1>5 DEF CancelInv, CancelledNeverExecutes
<1>7. o = p
  <2>1. \A x, y \in Holds(orders, p.m, p.id) : x = y
    BY <1>3, <1>5, AtKinds DEF PlaceInv, Placed, Kinds
  <2>2. p \in Holds(orders, p.m, p.id)
    BY <1>1 DEF Holds
  <2> QED
    BY <1>6, <2>1, <2>2
<1> QED
  BY <1>1, <1>6, <1>7 DEF Dead, Executable

(* What it carried is no longer away.                                      *)
LEMMA TakingOffBalances ==
  ASSUME CancelInv, PlaceInv, FlowInv, NEW p, TakesOff(p)
  PROVE  FlowInv'
<1>1. p \in Flying
  BY ExecutedWasFlying
<1>2. WireTypeOK /\ WireInv
  BY DEF CancelInv, TypeOK, MirrorTypeOK, FlowInv
<1>3. /\ WireInv'
      /\ \A t \in Tokens : Away(t)' = Away(t) + (IF t = p.t THEN -p.sd ELSE 0)
  BY <1>1, <1>2, TakingOffAway DEF TakesOff
<1>4. \A t \in Tokens :
        HomeMoves(homeToken[t], homeToken'[t], t, IF t = p.t THEN -p.sd ELSE 0)
  BY DEF TakesOff
<1> QED
  BY <1>3, <1>4, BothMove

(* A result leaves the home chain.                                         *)
LEMMA PuttingOnBalances ==
  ASSUME TypeOK, FlowInv, NEW p, PutsOn(p)
  PROVE  FlowInv'
<1>1. WireTypeOK /\ WireInv
  BY DEF TypeOK, MirrorTypeOK, FlowInv
<1>2. /\ WireInv'
      /\ \A t \in Tokens : Away(t)' = Away(t) + (IF t = p.t THEN p.sd ELSE 0)
  BY <1>1, PuttingOnAway DEF PutsOn
<1>3. \A t \in Tokens :
        HomeMoves(homeToken[t], homeToken'[t], t, IF t = p.t THEN p.sd ELSE 0)
  BY DEF PutsOn
<1> QED
  BY <1>2, <1>3, BothMove

(* Every step keeps the balance.                                           *)
LEMMA FlowStep ==
  ASSUME WhereInv, CancelInv, FlowInv, [Next]_vars
  PROVE  FlowInv'
<1>0. /\ TypeOK /\ MirrorInv /\ PlaceInv /\ NoncesTaken
      /\ WireTypeOK /\ WireInv
  BY DEF WhereInv, CancelInv, TypeOK, MirrorTypeOK, FlowInv
<1>1. ASSUME homeToken' = homeToken
      PROVE  \A t \in Tokens : HomeMoves(homeToken[t], homeToken'[t], t, 0)
  BY <1>0, <1>1, HomeStays DEF TypeOK, HomeTypeOK, EndpointTypeOK
<1>2. ASSUME requests' = requests
      PROVE  EntriesKept /\ SameCancelled
  BY <1>2, SameRequests DEF EntriesKept
<1>3. ASSUME UNCHANGED <<mirrorToken, requests, orders, returns, backNonce>>
      PROVE  WireInv' /\ \A t \in Tokens : Away(t)' = Away(t)
  <2>1. NoFlows
    BY <1>0, <1>3, SameAssets
  <2> QED
    BY <1>0, <1>2, <1>3, <2>1, RestingKeepsAway
<1>4. CASE MirrorStep
  <2>1. MirrorNext /\ homeToken' = homeToken
    BY <1>4 DEF MirrorStep, homeVars, endpointVars
  <2>2. EntriesKept
    BY <1>0, <2>1, MirrorKeepsEntries
  <2>3. ASSUME NEW p, Departs(p)
        PROVE  WireInv' /\ \A t \in Tokens : Away(t)' = Away(t)
    BY <1>0, <2>2, <2>3, DepartureKeepsAway DEF NoncesTaken
  <2>4. ASSUME NEW p \in returns, Arrives(p)
        PROVE  WireInv' /\ \A t \in Tokens : Away(t)' = Away(t)
    BY <1>0, <2>2, <2>4, ArrivalKeepsAway
  <2>5. ASSUME NEW n \in notices, NEW i \in Ids, NEW accepted \in TokenAccepts,
               NoticeCancelled(n, i, accepted), RestoresInput(n.m, i)
        PROVE  WireInv' /\ \A t \in Tokens : Away(t)' = Away(t)
    <3>1. n.m \in Mirrors
      BY <1>0 DEF WireTypeOK, Notice
    <3>2. PICK p \in Holds(orders, n.m, i) : p.t = TokenIn(requests[n.m][i].dir)
      BY <2>5, RestoredIsDead
    <3>3. p \in orders /\ p.m = n.m /\ p.id = i
      BY <3>2 DEF Holds
    <3> QED
      BY <1>0, <2>2, <2>5, <3>1, <3>2, <3>3, RestorationKeepsAway
  <2>6. ASSUME Rests
        PROVE  WireInv' /\ \A t \in Tokens : Away(t)' = Away(t)
    <3>1. NoFlows /\ SameCancelled /\ UNCHANGED <<orders, returns, backNonce>>
      BY <2>6 DEF Rests
    <3> QED
      BY <1>0, <2>2, <3>1, RestingKeepsAway
  <2>7. WireInv' /\ \A t \in Tokens : Away(t)' = Away(t)
    <3>1. CASE \E p : Departs(p)
      BY <2>3, <3>1
    <3>2. CASE \E p \in returns : Arrives(p)
      BY <2>4, <3>2
    <3>3. CASE \E n \in notices, i \in Ids, accepted \in TokenAccepts :
                 NoticeCancelled(n, i, accepted) /\ RestoresInput(n.m, i)
      BY <2>5, <3>3
    <3>4. CASE Rests
      BY <2>6, <3>4
    <3> QED
      BY <1>0, <2>1, <3>1, <3>2, <3>3, <3>4, MirrorFlowKinds
  <2> QED
    BY <1>0, <1>1, <2>1, <2>7, NeitherMoves
<1>5. CASE HomeStep
  <2>1. ASSUME NEW p, TakesOff(p)
        PROVE  FlowInv'
    BY <1>0, <2>1, TakingOffBalances
  <2>2. ASSUME NEW p, PutsOn(p)
        PROVE  FlowInv'
    BY <1>0, <2>2, PuttingOnBalances
  <2>3. CASE LeavesAlone
    <3>1. /\ \A t \in Tokens : HomeMoves(homeToken[t], homeToken'[t], t, 0)
          /\ UNCHANGED <<mirrorToken, requests, orders, returns, backNonce>>
      BY <2>3 DEF LeavesAlone
    <3> QED
      BY <1>0, <1>3, <3>1, NeitherMoves
  <2> QED
    BY <1>0, <1>5, <2>1, <2>2, <2>3, HomeFlowKinds
<1>6. CASE UNCHANGED vars
  <2>1. UNCHANGED <<homeToken, mirrorToken, requests, orders, returns, backNonce>>
    BY <1>6 DEF vars, mirrorVars, homeVars, wireVars, requestVars, endpointVars
  <2> QED
    BY <1>0, <1>1, <1>3, <2>1, NeitherMoves
<1> QED
  BY <1>4, <1>5, <1>6 DEF Next

(***************************************************************************)
(* No value is lost or made between the chains, for every value of the     *)
(* constants: what OmniToken counted out and not in is what is in flight,  *)
(* and an adapter's lockbox holds what is abroad and in flight, through    *)
(* cancellations, strands and every rounding at the edges of the wire.     *)
(***************************************************************************)
THEOREM NothingIsLostBetween == Spec => []FlowIsInFlight
<1>1. Init => FlowInv
  BY FlowAtStart
<1>2. WhereInv /\ CancelInv /\ FlowInv /\ [Next]_vars => FlowInv'
  BY FlowStep
<1>3. WhereInv /\ FlowInv => FlowIsInFlight
  BY BalancedFlows DEF WhereInv
<1> QED
  BY <1>1, <1>2, <1>3, WhereInvariant, CancelInvariant, PTL DEF Spec

=============================================================================
