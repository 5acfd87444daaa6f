----------------------------- MODULE DeskProofs -----------------------------
(***************************************************************************)
(* The Solana desk, whatever the home chain answers and in whatever order  *)
(* notices, settlements and fee payments arrive, for every value of the    *)
(* constants: it implements OrderDesk, its index accounts lead to the      *)
(* requests they were written for, and its vault and store hold exactly    *)
(* what they owe, and pay it to whom it is due.                            *)
(*                                                                         *)
(* The first two do not need the accounts' amounts, so rows are typed over *)
(* any set there.                                                          *)
(***************************************************************************)
EXTENDS SolanaMirror, AmountTheorems

(* The requests, and the escrows of their fees, whatever their amounts.    *)
Rows(U) ==
  [user : U, dir : U, amountIn : U, minAmountOut : U, amountOut : U, status : U,
   lzNonce : Nat]

Escrows(U) ==
  [partner : U, user : U, mint : U, partnerRecipient : U, platformRecipient : U,
   partnerFee : U, platformFee : U, state : {"NONE", "ESCROWED", "PAID", "RETURNED"}]

Tabled ==
  /\ \E U : requests \in [Ids -> Rows(U)]
  /\ \E U : feeEscrow \in [Ids -> Escrows(U)]

(* Ids not given out are untouched, and nothing is held that is worth      *)
(* nothing: fees that settle_fees returns are RETURNED, never PAID.        *)
DeskInv ==
  /\ Tabled
  /\ nextRequestId \in Nat
  /\ \A i \in Ids : i >= nextRequestId =>
       requests[i].status = "NONE" /\ feeEscrow[i].state = "NONE"
  /\ \A i \in Ids : feeEscrow[i].state = "ESCROWED" => EscrowTotal(feeEscrow[i]) > 0

NonceTyped == outNonce \in [Mirrors -> [Tokens -> Nat]]

(* No index and no request has a nonce its path has not given out.         *)
NoncesTaken ==
  /\ \A e \in nonceIndex :
       e.oft \in Tokens /\ e.nonce \in Nat /\ e.nonce <= outNonce[Solana][e.oft]
  /\ \A i \in Ids : requests[i].status # "NONE" =>
       requests[i].lzNonce <= outNonce[Solana][TokenIn(requests[i].dir)]

IndexInv == DeskInv /\ NonceTyped /\ NoncesTaken /\ IndexLeadsHome

-----------------------------------------------------------------------------
(* What steps do to the two tables.                                        *)

(* A request is taken, under the next id, with or without fees.            *)
Opens(t, n) ==
  LET i == nextRequestId IN
  /\ i \in Ids
  /\ nextRequestId' = i + 1
  /\ requests'[i].status = "PENDING"
  /\ TokenIn(requests'[i].dir) = t
  /\ requests'[i].lzNonce = n
  /\ feeEscrow'[i].state \in {"NONE", "ESCROWED"}
  /\ feeEscrow'[i].state = "ESCROWED" => EscrowTotal(feeEscrow'[i]) > 0
  /\ \A j \in Ids \ {i} : requests'[j] = requests[j] /\ feeEscrow'[j] = feeEscrow[j]
  /\ nonceIndex' = nonceIndex \cup
       {[oft |-> t, nonce |-> n, id |-> i, user |-> requests'[i].user, tokenIn |-> t]}

(* One pending request takes an outcome.                                   *)
Closes(i, outcome) ==
  /\ outcome \in Terminal
  /\ requests[i].status = "PENDING"
  /\ requests'[i].status = outcome
  /\ \A j \in Ids : /\ requests'[j].user = requests[j].user
                    /\ requests'[j].dir = requests[j].dir
                    /\ requests'[j].lzNonce = requests[j].lzNonce
                    /\ j # i => requests'[j] = requests[j]
  /\ UNCHANGED <<feeEscrow, nextRequestId, nonceIndex>>

(* One request's fees leave the vault.                                     *)
PaysFees(i) ==
  /\ feeEscrow[i].state = "ESCROWED"
  /\ requests[i].status \in Terminal
  /\ feeEscrow'[i].state = Settled(i)
  /\ \A j \in Ids \ {i} : feeEscrow'[j] = feeEscrow[j]
  /\ UNCHANGED <<requests, nextRequestId, nonceIndex>>

Idles == UNCHANGED <<requests, feeEscrow, nextRequestId, nonceIndex>>

(* Typing rows over more values only widens the tables.                    *)
LEMMA WiderRows ==
  ASSUME NEW U, NEW V, U \subseteq V
  PROVE  Rows(U) \subseteq Rows(V) /\ Escrows(U) \subseteq Escrows(V)
BY DEF Rows, Escrows

(***************************************************************************)
(* open: the request, its index and its escrow are written together, under *)
(* the nonce the message takes.                                            *)
(***************************************************************************)
LEMMA OpenOpens ==
  ASSUME DeskInv, outNonce \in [Mirrors -> [Tokens -> Nat]],
         NEW trade, NEW amountIn, NEW held, Open(trade, amountIn, held),
         \/ feeEscrow' = feeEscrow
         \/ \E U : \E f \in Escrows(U) :
              /\ feeEscrow' = [feeEscrow EXCEPT ![nextRequestId] = f]
              /\ f.state = IF EscrowTotal(f) > 0 THEN "ESCROWED" ELSE "NONE"
  PROVE  /\ Tabled'
         /\ \E t \in Tokens : /\ Opens(t, outNonce[Solana][t] + 1)
                              /\ outNonce' = [outNonce EXCEPT ![Solana][t] = @ + 1]
<1> DEFINE t == TokenIn(trade.dir)
           i == nextRequestId
           n == outNonce[Solana][t] + 1
<1>1. t \in Tokens /\ i \in Ids /\ n \in Nat
  BY SolanaAssumption DEF Open, TokenIn, Tokens
<1>2. PICK sent :
        requests' = [requests EXCEPT ![i] =
          [user |-> trade.user, dir |-> trade.dir, amountIn |-> sent,
           minAmountOut |-> trade.min, amountOut |-> 0, status |-> "PENDING",
           lzNonce |-> n]]
  BY DEF Open
<1>3. /\ nextRequestId' = i + 1
      /\ nonceIndex' = nonceIndex \cup
           {[oft |-> t, nonce |-> n, id |-> i, user |-> trade.user, tokenIn |-> t]}
      /\ outNonce' = [outNonce EXCEPT ![Solana][t] = @ + 1]
  BY DEF Open, Indexed, DispatchOftSend, SendOrder
<1> DEFINE r == [user |-> trade.user, dir |-> trade.dir, amountIn |-> sent,
                 minAmountOut |-> trade.min, amountOut |-> 0, status |-> "PENDING",
                 lzNonce |-> n]
<1>4. PICK U : requests \in [Ids -> Rows(U)]
  BY DEF DeskInv, Tabled
<1> DEFINE V == U \cup {trade.user, trade.dir, sent, trade.min, 0, "PENDING"}
<1>5. r \in Rows(V)
  BY <1>1 DEF Rows
<1>6. requests \in [Ids -> Rows(V)]
  BY <1>4, WiderRows
<1>7. r.status = "PENDING" /\ TokenIn(r.dir) = t /\ r.lzNonce = n /\ r.user = trade.user
  OBVIOUS
<1>8. requests' = [requests EXCEPT ![i] = r]
  BY <1>2
<1> HIDE DEF r, V, t, i, n
<1>9. requests' \in [Ids -> Rows(V)]
  BY <1>5, <1>6, <1>8
<1>10. requests'[i] = r /\ \A j \in Ids \ {i} : requests'[j] = requests[j]
  BY <1>1, <1>6, <1>8
<1>11. /\ \E W : feeEscrow' \in [Ids -> Escrows(W)]
       /\ feeEscrow'[i].state \in {"NONE", "ESCROWED"}
       /\ feeEscrow'[i].state = "ESCROWED" => EscrowTotal(feeEscrow'[i]) > 0
       /\ \A j \in Ids \ {i} : feeEscrow'[j] = feeEscrow[j]
  <2>1. PICK W : feeEscrow \in [Ids -> Escrows(W)]
    BY DEF DeskInv, Tabled
  <2>2. CASE feeEscrow' = feeEscrow
    <3>1. feeEscrow[i].state = "NONE"
      BY <1>1 DEF DeskInv, i
    <3> QED
      BY <2>1, <2>2, <3>1
  <2>3. CASE feeEscrow' # feeEscrow
    <3>1. PICK X : \E f \in Escrows(X) :
            /\ feeEscrow' = [feeEscrow EXCEPT ![i] = f]
            /\ f.state = IF EscrowTotal(f) > 0 THEN "ESCROWED" ELSE "NONE"
      BY <2>3 DEF i
    <3>2. PICK f \in Escrows(X) :
            /\ feeEscrow' = [feeEscrow EXCEPT ![i] = f]
            /\ f.state = IF EscrowTotal(f) > 0 THEN "ESCROWED" ELSE "NONE"
      BY <3>1
    <3>3. PICK Y : Y = W \cup X
      OBVIOUS
    <3>4. f \in Escrows(Y) /\ feeEscrow \in [Ids -> Escrows(Y)]
      BY <2>1, <3>3, WiderRows
    <3>5. feeEscrow' \in [Ids -> Escrows(Y)]
      BY <3>2, <3>4
    <3>6. feeEscrow'[i] = f /\ \A j \in Ids \ {i} : feeEscrow'[j] = feeEscrow[j]
      BY <1>1, <3>2, <3>4
    <3> QED
      BY <3>2, <3>5, <3>6
  <2> QED
    BY <2>2, <2>3
<1>12. Opens(t, n)
  BY <1>1, <1>3, <1>7, <1>10, <1>11 DEF Opens, i
<1>13. Tabled'
  BY <1>9, <1>11 DEF Tabled
<1> QED
  BY <1>1, <1>3, <1>12, <1>13 DEF n

(* A request takes another status, perhaps with what it received.          *)
BecomesWith(i, s, x) ==
  \/ requests' = [requests EXCEPT ![i].status = s]
  \/ requests' = [requests EXCEPT ![i].status = s, ![i].amountOut = x]

(* A pending request that takes an outcome is closed; nothing else moves.  *)
LEMMA ClosingCloses ==
  ASSUME DeskInv, NEW k, NEW s \in Terminal, NEW x, BecomesWith(k, s, x),
         requests[k].status = "PENDING",
         UNCHANGED <<feeEscrow, nextRequestId, nonceIndex>>
  PROVE  Tabled' /\ ((k \in Ids /\ Closes(k, s)) \/ Idles)
<1>1. PICK U : requests \in [Ids -> Rows(U)]
  BY DEF DeskInv, Tabled
<1> DEFINE V == U \cup {s, x}
<1>2. requests \in [Ids -> Rows(V)] /\ s \in V /\ x \in V
  BY <1>1, WiderRows
<1> HIDE DEF V
<1>3. ASSUME NEW j \in Ids
      PROVE  \/ requests'[j] = requests[j] /\ j # k
             \/ requests'[j] = [requests[j] EXCEPT !.status = s] /\ j = k
             \/ /\ requests'[j] = [requests[j] EXCEPT !.status = s, !.amountOut = x]
                /\ j = k
  BY <1>2 DEF BecomesWith
<1>4. ASSUME NEW j \in Ids
      PROVE  /\ requests'[j].user = requests[j].user
             /\ requests'[j].dir = requests[j].dir
             /\ requests'[j].lzNonce = requests[j].lzNonce
             /\ IF j = k THEN requests'[j].status = s ELSE requests'[j] = requests[j]
             /\ requests'[j] \in Rows(V)
  <2>1. PICK old \in Rows(V) : old = requests[j]
    BY <1>2
  <2> DEFINE closed == [old EXCEPT !.status = s]
             priced == [old EXCEPT !.status = s, !.amountOut = x]
  <2>2. /\ closed \in Rows(V) /\ closed.status = s /\ closed.user = old.user
        /\ closed.dir = old.dir /\ closed.lzNonce = old.lzNonce
    BY <1>2, <2>1 DEF Rows
  <2>3. /\ priced \in Rows(V) /\ priced.status = s /\ priced.user = old.user
        /\ priced.dir = old.dir /\ priced.lzNonce = old.lzNonce
    BY <1>2, <2>1 DEF Rows
  <2>4. \/ requests'[j] = old /\ j # k
        \/ requests'[j] = closed /\ j = k
        \/ requests'[j] = priced /\ j = k
    BY <1>3, <2>1
  <2> HIDE DEF closed, priced
  <2> QED
    BY <2>1, <2>2, <2>3, <2>4
<1>5. requests' = [j \in Ids |-> requests'[j]]
  BY <1>2 DEF BecomesWith
<1>6. requests' \in [Ids -> Rows(V)]
  BY <1>4, <1>5
<1>7. Tabled'
  BY <1>6 DEF Tabled, DeskInv
<1>8. CASE k \in Ids
  BY <1>4, <1>7, <1>8 DEF Closes
<1>9. CASE k \notin Ids
  <2>1. requests' = requests
    BY <1>2, <1>4, <1>5, <1>9
  <2> QED
    BY <1>7, <2>1 DEF Idles
<1> QED
  BY <1>8, <1>9

(* settle_fees writes one escrow's state.                                  *)
LEMMA SettlingPays ==
  ASSUME DeskInv, NEW i \in Ids, SettleFees(i)
  PROVE  Tabled' /\ PaysFees(i)
<1>1. PICK U : feeEscrow \in [Ids -> Escrows(U)]
  BY DEF DeskInv, Tabled
<1>2. Settled(i) \in {"RETURNED", "PAID"}
  BY DEF Settled
<1>3. PICK s \in {"RETURNED", "PAID"} :
        s = Settled(i) /\ feeEscrow' = [feeEscrow EXCEPT ![i].state = s]
  BY <1>2 DEF SettleFees
<1>4. PICK f \in Escrows(U) : f = feeEscrow[i]
  BY <1>1
<1>5. [f EXCEPT !.state = s] \in Escrows(U) /\ [f EXCEPT !.state = s].state = s
  BY DEF Escrows
<1>6. feeEscrow' = [feeEscrow EXCEPT ![i] = [f EXCEPT !.state = s]]
  BY <1>1, <1>3, <1>4
<1>7. /\ feeEscrow' \in [Ids -> Escrows(U)] /\ feeEscrow'[i].state = s
      /\ \A j \in Ids \ {i} : feeEscrow'[j] = feeEscrow[j]
  BY <1>1, <1>5, <1>6
<1>8. /\ UNCHANGED <<requests, nextRequestId, nonceIndex>>
      /\ feeEscrow[i].state = "ESCROWED" /\ requests[i].status \in Terminal
  BY DEF SettleFees, Releasable
<1> QED
  BY <1>3, <1>7, <1>8 DEF Tabled, PaysFees, DeskInv

(* Steps that leave the tables alone keep their types, and nonces grow.    *)
LEMMA IdlingKeeps ==
  ASSUME DeskInv, NonceTyped, Idles,
         outNonce' = outNonce \/ \E t \in Tokens :
                                   outNonce' = [outNonce EXCEPT ![Solana][t] = @ + 1]
  PROVE  /\ Tabled' /\ NonceTyped'
         /\ \A t \in Tokens : outNonce[Solana][t] <= outNonce'[Solana][t]
<1>1. Tabled'
  BY DEF DeskInv, Tabled, Idles
<1>2. CASE outNonce' = outNonce
  BY <1>1, <1>2, SolanaAssumption DEF NonceTyped
<1>3. ASSUME NEW t \in Tokens, outNonce' = [outNonce EXCEPT ![Solana][t] = @ + 1]
      PROVE  /\ NonceTyped'
             /\ \A u \in Tokens : outNonce[Solana][u] <= outNonce'[Solana][u]
  BY <1>3, SolanaAssumption DEF NonceTyped
<1> QED
  BY <1>1, <1>2, <1>3

(***************************************************************************)
(* Every step opens a request, closes one, pays one's fees or does none of *)
(* this; only sending takes nonces, and a request takes the one its packet *)
(* does.                                                                   *)
(***************************************************************************)
LEMMA KindsOfStep ==
  ASSUME DeskInv, NonceTyped, [Next]_desk
  PROVE  /\ Tabled' /\ NonceTyped'
         /\ \A t \in Tokens : outNonce[Solana][t] <= outNonce'[Solana][t]
         /\ \/ \E t \in Tokens : /\ Opens(t, outNonce[Solana][t] + 1)
                                 /\ outNonce'[Solana][t] = outNonce[Solana][t] + 1
            \/ \E i \in Ids : \E outcome : Closes(i, outcome)
            \/ \E i \in Ids : PaysFees(i)
            \/ Idles
<1> DEFINE Kept == /\ Tabled' /\ NonceTyped'
                   /\ \A t \in Tokens : outNonce[Solana][t] <= outNonce'[Solana][t]
           Opened == \E t \in Tokens : /\ Opens(t, outNonce[Solana][t] + 1)
                                       /\ outNonce'[Solana][t] = outNonce[Solana][t] + 1
           Closed == \E i \in Ids : \E outcome : Closes(i, outcome)
           Paid == \E i \in Ids : PaysFees(i)
<1>1. ASSUME NEW t \in Tokens, outNonce' = [outNonce EXCEPT ![Solana][t] = @ + 1]
      PROVE  /\ NonceTyped'
             /\ outNonce'[Solana][t] = outNonce[Solana][t] + 1
             /\ \A u \in Tokens : outNonce[Solana][u] <= outNonce'[Solana][u]
  BY <1>1, SolanaAssumption DEF NonceTyped
<1>2. ASSUME outNonce' = outNonce
      PROVE  NonceTyped' /\ \A u \in Tokens : outNonce[Solana][u] <= outNonce'[Solana][u]
  BY <1>2, SolanaAssumption DEF NonceTyped
<1>3. CASE Bridging /\ UNCHANGED solanaVars
  <2>1. Idles
    BY <1>3 DEF Idles, solanaVars
  <2>2. outNonce' = outNonce \/ \E t \in Tokens :
                                  outNonce' = [outNonce EXCEPT ![Solana][t] = @ + 1]
    BY <1>3 DEF Bridging, DirectSend, SendOrder, ReceiveReturn
  <2> QED
    BY <2>1, <2>2, IdlingKeeps
<1>4. ASSUME NEW trade \in Trades, OpenRequest(trade)
      PROVE  Kept /\ Opened
  <2>1. Open(trade, trade.gross, mirrorToken[Solana][TokenIn(trade.dir)])
        /\ feeEscrow' = feeEscrow
    BY <1>4 DEF OpenRequest
  <2>2. /\ Tabled'
        /\ \E t \in Tokens : /\ Opens(t, outNonce[Solana][t] + 1)
                             /\ outNonce' = [outNonce EXCEPT ![Solana][t] = @ + 1]
    BY <2>1, OpenOpens DEF NonceTyped
  <2> QED
    BY <1>1, <2>2
<1>5. ASSUME NEW s \in CoSigned, NEW p \in partners[s.partner], OpenViaPartner(s, p)
      PROVE  Kept /\ Opened
  <2>1. PICK amount, held : Open(s.trade, amount, held)
    BY <1>5 DEF OpenViaPartner
  <2>2. PICK cut, ours, total :
          /\ total = cut + ours
          /\ feeEscrow' = [feeEscrow EXCEPT ![nextRequestId] =
               [partner |-> s.partner, user |-> s.trade.user, mint |-> TokenIn(s.trade.dir),
                partnerRecipient |-> p.recipient,
                platformRecipient |-> platformFee.recipient,
                partnerFee |-> cut, platformFee |-> ours,
                state |-> IF total > 0 THEN "ESCROWED" ELSE "NONE"]]
    BY <1>5 DEF OpenViaPartner
  <2> DEFINE f == [partner |-> s.partner, user |-> s.trade.user,
                   mint |-> TokenIn(s.trade.dir),
                   partnerRecipient |-> p.recipient,
                   platformRecipient |-> platformFee.recipient,
                   partnerFee |-> cut, platformFee |-> ours,
                   state |-> IF total > 0 THEN "ESCROWED" ELSE "NONE"]
             U == {f.partner, f.user, f.mint, f.partnerRecipient, f.platformRecipient,
                   f.partnerFee, f.platformFee}
  <2>3. f \in Escrows(U) /\ f.state = IF EscrowTotal(f) > 0 THEN "ESCROWED" ELSE "NONE"
    BY <2>2 DEF Escrows, EscrowTotal
  <2>4. feeEscrow' = [feeEscrow EXCEPT ![nextRequestId] = f]
    BY <2>2
  <2> HIDE DEF f, U
  <2>5. /\ Tabled'
        /\ \E t \in Tokens : /\ Opens(t, outNonce[Solana][t] + 1)
                             /\ outNonce' = [outNonce EXCEPT ![Solana][t] = @ + 1]
    BY <2>1, <2>3, <2>4, OpenOpens DEF NonceTyped
  <2> QED
    BY <1>1, <2>5
<1>6. CASE Delivering
  <2>1. outNonce' = outNonce /\ UNCHANGED <<feeEscrow, nextRequestId, nonceIndex>>
    BY <1>6 DEF Delivering, ComposeFill, ComposeRefund, ComposeLate, LzCompose,
                NoticeStranded, NoticeCancelled, NoticeLate, LzReceive
  <2>2. \/ \E k, s, x : /\ s \in Terminal /\ BecomesWith(k, s, x)
                        /\ requests[k].status = "PENDING"
        \/ requests' = requests
    BY <1>6 DEF Delivering, ComposeFill, ComposeRefund, ComposeLate, NoticeStranded,
                NoticeCancelled, NoticeLate, BecomesWith, Terminal
  <2>3. CASE requests' = requests
    <3>1. Idles
      BY <2>1, <2>3 DEF Idles
    <3> QED
      BY <2>1, <3>1, IdlingKeeps
  <2>4. ASSUME NEW k, NEW s, NEW x, s \in Terminal, BecomesWith(k, s, x),
               requests[k].status = "PENDING"
        PROVE  Kept /\ (Closed \/ Idles)
    <3>1. Tabled' /\ ((k \in Ids /\ Closes(k, s)) \/ Idles)
      BY <2>1, <2>4, ClosingCloses
    <3> QED
      BY <1>2, <2>1, <3>1
  <2> QED
    BY <2>2, <2>3, <2>4
<1>7. ASSUME NEW i \in Ids, SettleFees(i)
      PROVE  Kept /\ Paid
  <2>1. Tabled' /\ PaysFees(i)
    BY <1>7, SettlingPays
  <2>2. outNonce' = outNonce
    BY <1>7 DEF SettleFees
  <2> QED
    BY <1>2, <2>1, <2>2
<1>8. CASE Administering
  <2>1. Idles /\ outNonce' = outNonce
    BY <1>8 DEF Administering, SetHomeRelay, RegisterPartner, UpdatePartner, WritePartner,
                SetPartnerRequired, SetPlatformFee, RestOfDesk, wireVars, Idles
  <2> QED
    BY <2>1, IdlingKeeps
<1>9. CASE HomeAnswers /\ UNCHANGED solanaVars
  <2>1. Idles
    BY <1>9 DEF Idles, solanaVars
  <2>2. outNonce' = outNonce
    BY <1>9 DEF HomeAnswers, Answer, Hold, Kill, Consume
  <2> QED
    BY <2>1, <2>2, IdlingKeeps
<1>10. CASE UNCHANGED desk
  <2>1. Idles /\ outNonce' = outNonce
    BY <1>10 DEF desk, wireVars, solanaVars, Idles
  <2> QED
    BY <2>1, IdlingKeeps
<1> QED
  BY <1>3, <1>4, <1>5, <1>6, <1>7, <1>8, <1>9, <1>10 DEF Next, SolanaNext, Opening

-----------------------------------------------------------------------------
(* Ids are given out in turn, and escrows are written once.                *)
LEMMA DeskInvKept ==
  ASSUME DeskInv, NonceTyped, [Next]_desk
  PROVE  DeskInv' /\ NonceTyped'
<1>1. Tabled' /\ NonceTyped'
  BY KindsOfStep
<1>2. Ids \subseteq Nat
  BY MaxRequestsAssumption DEF Ids
<1>3. ASSUME NEW t, NEW n, Opens(t, n)
      PROVE  DeskInv'
  <2>1. PICK i \in Ids : i = nextRequestId
    BY <1>3 DEF Opens
  <2>2. nextRequestId' = i + 1 /\ i \in Nat
    BY <1>2, <1>3, <2>1 DEF Opens
  <2>3. \A j \in Ids \ {i} : requests'[j] = requests[j] /\ feeEscrow'[j] = feeEscrow[j]
    BY <1>3, <2>1 DEF Opens
  <2>4. \A j \in Ids : j >= nextRequestId' =>
          requests'[j].status = "NONE" /\ feeEscrow'[j].state = "NONE"
    BY <1>2, <2>1, <2>2, <2>3 DEF DeskInv
  <2>5. \A j \in Ids :
          feeEscrow'[j].state = "ESCROWED" => EscrowTotal(feeEscrow'[j]) > 0
    BY <1>3, <2>1, <2>3 DEF DeskInv, Opens
  <2> QED
    BY <1>1, <2>2, <2>4, <2>5 DEF DeskInv
<1>4. ASSUME NEW i \in Ids, NEW outcome, Closes(i, outcome)
      PROVE  DeskInv'
  BY <1>1, <1>2, <1>4 DEF DeskInv, Closes
<1>5. ASSUME NEW i \in Ids, PaysFees(i)
      PROVE  DeskInv'
  <2>1. feeEscrow'[i].state # "ESCROWED"
    BY <1>5 DEF PaysFees, Settled
  <2>2. ~(i >= nextRequestId)
    BY <1>5 DEF PaysFees, DeskInv
  <2> QED
    BY <1>1, <1>5, <2>1, <2>2 DEF DeskInv, PaysFees
<1>6. CASE Idles
  BY <1>1, <1>6 DEF DeskInv, Idles
<1> QED
  BY <1>1, <1>3, <1>4, <1>5, <1>6, KindsOfStep

(* Nothing is taken at the start.                                          *)
LEMMA DeskInvInit == Init => DeskInv /\ NonceTyped
<1> SUFFICES ASSUME Init PROVE DeskInv /\ NonceTyped
  OBVIOUS
<1> USE DEF Init, WireInit, SolanaInit
<1>1. NoRequest \in Rows({NoUser, "BUY", 0, "NONE"}) /\ NoRequest.status = "NONE"
  BY DEF NoRequest, Rows
<1>2. NoEscrow \in Escrows({0, NoUser, "base"}) /\ NoEscrow.state = "NONE"
  BY DEF NoEscrow, Escrows
<1>3. Tabled
  <2>1. requests \in [Ids -> Rows({NoUser, "BUY", 0, "NONE"})]
    BY <1>1
  <2>2. feeEscrow \in [Ids -> Escrows({0, NoUser, "base"})]
    BY <1>2
  <2> QED
    BY <2>1, <2>2 DEF Tabled
<1>4. \A i \in Ids : requests[i].status = "NONE" /\ feeEscrow[i].state = "NONE"
  BY <1>1, <1>2
<1> QED
  BY <1>3, <1>4 DEF DeskInv, NonceTyped

-----------------------------------------------------------------------------
(* Opening takes, closing closes, paying releases; the rest stutters.      *)
LEMMA StepKeepsDesk ==
  ASSUME DeskInv, NonceTyped, [Next]_desk
  PROVE  [Desk!DeskNext]_(Desk!deskVars)
<1> DEFINE status == [i \in Ids |-> requests[i].status]
           fee    == [i \in Ids |-> feeEscrow[i].state]
<1>1. ASSUME NEW t, NEW n, Opens(t, n)
      PROVE  Desk!DeskNext
  <2>1. PICK i \in Ids : i = nextRequestId
    BY <1>1 DEF Opens
  <2>2. status[i] = "NONE" /\ fee[i] = "NONE"
    BY <2>1 DEF DeskInv
  <2>3. status' = [status EXCEPT ![i] = "PENDING"]
    BY <1>1, <2>1 DEF Opens
  <2>4. PICK f \in {"NONE", "ESCROWED"} : f = feeEscrow'[i].state
    BY <1>1, <2>1 DEF Opens
  <2>5. fee' = [fee EXCEPT ![i] = f]
    BY <1>1, <2>1, <2>4 DEF Opens
  <2>6. Desk!Take(i)
    BY <2>2, <2>3, <2>5 DEF Desk!Take
  <2> QED
    BY <2>6 DEF Desk!DeskNext
<1>2. ASSUME NEW i \in Ids, NEW outcome, Closes(i, outcome)
      PROVE  Desk!DeskNext
  <2>1. outcome \in Desk!Outcomes
    BY <1>2 DEF Closes, Terminal, Desk!Outcomes
  <2>2. status[i] = "PENDING" /\ fee' = fee
    BY <1>2 DEF Closes
  <2>3. status' = [status EXCEPT ![i] = outcome]
    BY <1>2 DEF Closes
  <2>4. Desk!Close(i, outcome)
    BY <2>2, <2>3 DEF Desk!Close
  <2> QED
    BY <2>1, <2>4 DEF Desk!DeskNext
<1>3. ASSUME NEW i \in Ids, PaysFees(i)
      PROVE  Desk!DeskNext
  <2>1. /\ status[i] \in Desk!Outcomes /\ fee[i] = "ESCROWED"
        /\ status' = status
    BY <1>3 DEF PaysFees, Terminal, Desk!Outcomes
  <2>2. Settled(i) = Desk!Due(status[i])
    <3>1. EscrowTotal(feeEscrow[i]) > 0
      BY <1>3 DEF PaysFees, DeskInv
    <3>2. CASE requests[i].status = "FILLED"
      BY <3>2 DEF Settled, Payout, Desk!Due
    <3>3. CASE requests[i].status # "FILLED"
      BY <3>1, <3>3 DEF Settled, Payout, Desk!Due
    <3> QED
      BY <3>2, <3>3
  <2>3. PICK s : s = Settled(i)
    OBVIOUS
  <2>4. fee' = [fee EXCEPT ![i] = s]
    BY <1>3, <2>3 DEF PaysFees
  <2>5. Desk!Release(i)
    BY <2>1, <2>2, <2>3, <2>4 DEF Desk!Release
  <2> QED
    BY <2>5 DEF Desk!DeskNext
<1>4. CASE Idles
  BY <1>4 DEF Idles, Desk!deskVars
<1> QED
  BY <1>1, <1>2, <1>3, <1>4, KindsOfStep

(***************************************************************************)
(* Refinement (programs/swap_request): the program keeps what an order     *)
(* desk promises.  A request is taken once, closed once, and its fees are  *)
(* released once, after it has closed, to whom its outcome makes them due. *)
(***************************************************************************)
THEOREM DeskIsKept == Spec => KeepsDesk
<1>1. Init => Desk!DeskInit
  BY DEF Init, SolanaInit, NoRequest, NoEscrow, Desk!DeskInit
<1>2. Init => DeskInv /\ NonceTyped
  BY DeskInvInit
<1>3. DeskInv /\ NonceTyped /\ [Next]_desk => (DeskInv /\ NonceTyped)'
  BY DeskInvKept
<1>4. DeskInv /\ NonceTyped /\ [Next]_desk => [Desk!DeskNext]_(Desk!deskVars)
  BY StepKeepsDesk
<1> QED
  BY <1>1, <1>2, <1>3, <1>4, PTL DEF Spec, KeepsDesk, Desk!DeskSpec

-----------------------------------------------------------------------------
(* The index accounts.                                                     *)

(* The index of request i, as it was written with it.                      *)
IndexOf(i) ==
  [oft |-> TokenIn(requests[i].dir), nonce |-> requests[i].lzNonce, id |-> i,
   user |-> requests[i].user, tokenIn |-> TokenIn(requests[i].dir)]

Matching(i) ==
  {e \in nonceIndex : e.oft = TokenIn(requests[i].dir) /\ e.nonce = requests[i].lzNonce}

(* The property, request by request.                                       *)
LEMMA LeadsHome ==
  IndexLeadsHome <=>
    \A i \in Ids : requests[i].status # "NONE" => Matching(i) = {IndexOf(i)}
BY DEF IndexLeadsHome, Matching, IndexOf

(* What a request remembers, whatever its amounts.                         *)
LEMMA RowsTyped ==
  ASSUME DeskInv, NEW i \in Ids
  PROVE  requests[i].lzNonce \in Nat /\ TokenIn(requests[i].dir) \in Tokens
<1>1. PICK U : requests \in [Ids -> Rows(U)]
  BY DEF DeskInv, Tabled
<1>2. requests[i] \in Rows(U)
  BY <1>1
<1> QED
  BY <1>2 DEF Rows, TokenIn, Tokens

(* Rows that keep their user, direction and nonce keep their index.        *)
LEMMA RowsKept ==
  ASSUME IndexInv, DeskInv', NonceTyped', nonceIndex' = nonceIndex,
         \A t \in Tokens : outNonce[Solana][t] <= outNonce'[Solana][t],
         \A i \in Ids : /\ requests'[i].user = requests[i].user
                        /\ requests'[i].dir = requests[i].dir
                        /\ requests'[i].lzNonce = requests[i].lzNonce
                        /\ requests'[i].status # "NONE" => requests[i].status # "NONE"
  PROVE  IndexInv'
<1>1. \A t \in Tokens : outNonce[Solana][t] \in Nat /\ outNonce'[Solana][t] \in Nat
  BY SolanaAssumption DEF IndexInv, NonceTyped
<1>2. \A e \in nonceIndex' :
        e.oft \in Tokens /\ e.nonce \in Nat /\ e.nonce <= outNonce'[Solana][e.oft]
  <2> TAKE e \in nonceIndex'
  <2>1. PICK t \in Tokens, n \in Nat :
          e.oft = t /\ e.nonce = n /\ n <= outNonce[Solana][t]
    BY DEF IndexInv, NoncesTaken
  <2> QED
    BY <1>1, <2>1
<1>3. ASSUME NEW i \in Ids, requests'[i].status # "NONE"
      PROVE  requests'[i].lzNonce <= outNonce'[Solana][TokenIn(requests'[i].dir)]
  <2>1. requests[i].lzNonce <= outNonce[Solana][TokenIn(requests[i].dir)]
    BY <1>3 DEF IndexInv, NoncesTaken
  <2>2. PICK t \in Tokens, n \in Nat :
          t = TokenIn(requests[i].dir) /\ n = requests[i].lzNonce
    BY RowsTyped DEF IndexInv
  <2>3. n <= outNonce'[Solana][t]
    BY <1>1, <2>1, <2>2
  <2> QED
    BY <2>2, <2>3
<1>4. NoncesTaken'
  BY <1>2, <1>3 DEF NoncesTaken
<1>5. \A i \in Ids : requests'[i].status # "NONE" => Matching(i)' = {IndexOf(i)'}
  BY LeadsHome DEF IndexInv, Matching, IndexOf
<1>6. IndexLeadsHome'
  BY <1>5 DEF IndexLeadsHome, Matching, IndexOf
<1> QED
  BY <1>4, <1>6 DEF IndexInv

(* A new index has a nonce no index and no request has.                    *)
LEMMA OpensIndexed ==
  ASSUME IndexInv, DeskInv', NonceTyped', NEW t \in Tokens,
         Opens(t, outNonce[Solana][t] + 1),
         outNonce'[Solana][t] = outNonce[Solana][t] + 1,
         \A u \in Tokens : outNonce[Solana][u] <= outNonce'[Solana][u]
  PROVE  IndexInv'
<1>1. PICK k \in Ids : k = nextRequestId
  BY DEF Opens
<1>2. PICK n \in Nat : n = outNonce[Solana][t] + 1
  BY SolanaAssumption DEF IndexInv, NonceTyped
<1> DEFINE new == [oft |-> t, nonce |-> n, id |-> k, user |-> requests'[k].user,
                   tokenIn |-> t]
<1>3. /\ requests'[k].status = "PENDING" /\ TokenIn(requests'[k].dir) = t
      /\ requests'[k].lzNonce = n
      /\ \A j \in Ids \ {k} : requests'[j] = requests[j]
      /\ nonceIndex' = nonceIndex \cup {new}
  BY <1>1, <1>2 DEF Opens
<1>4. /\ new = IndexOf(k)' /\ new.oft = t /\ new.nonce = n
  BY <1>3 DEF IndexOf
<1> HIDE DEF new
<1>5. \A u \in Tokens : outNonce[Solana][u] \in Nat /\ outNonce'[Solana][u] \in Nat
  BY SolanaAssumption DEF IndexInv, NonceTyped
<1>6. \A e \in nonceIndex :
        e.oft \in Tokens /\ e.nonce \in Nat /\ e.nonce <= outNonce[Solana][e.oft]
  BY DEF IndexInv, NoncesTaken
<1>7. \A e \in nonceIndex' :
        e.oft \in Tokens /\ e.nonce \in Nat /\ e.nonce <= outNonce'[Solana][e.oft]
  <2> TAKE e \in nonceIndex'
  <2>1. CASE e = new
    BY <1>2, <1>4, <2>1
  <2>2. CASE e \in nonceIndex
    <3>1. PICK u \in Tokens, x \in Nat :
            e.oft = u /\ e.nonce = x /\ x <= outNonce[Solana][u]
      BY <1>6, <2>2
    <3> QED
      BY <1>5, <3>1
  <2> QED
    BY <1>3, <2>1, <2>2
<1>8. ASSUME NEW i \in Ids, requests'[i].status # "NONE"
      PROVE  /\ requests'[i].lzNonce <= outNonce'[Solana][TokenIn(requests'[i].dir)]
             /\ Matching(i)' = {IndexOf(i)'}
  <2>1. CASE i = k
    <3>1. \A e \in nonceIndex : ~(e.oft = t /\ e.nonce = n)
      <4> SUFFICES ASSUME NEW e \in nonceIndex, e.oft = t, e.nonce = n PROVE FALSE
        OBVIOUS
      <4>1. n <= outNonce[Solana][t]
        BY <1>6
      <4> QED
        BY <1>2, <1>5, <4>1
    <3>2. Matching(i)' = {new}
      BY <1>3, <1>4, <2>1, <3>1 DEF Matching
    <3> QED
      BY <1>2, <1>3, <1>4, <2>1, <3>2
  <2>2. CASE i # k
    <3>1. requests'[i] = requests[i]
      BY <1>3, <2>2
    <3>2. PICK u \in Tokens, x \in Nat :
            /\ u = TokenIn(requests[i].dir) /\ x = requests[i].lzNonce
            /\ x <= outNonce[Solana][u]
      BY <1>8, <3>1, RowsTyped DEF IndexInv, NoncesTaken
    <3>3. ~(t = u /\ n = x)
      BY <1>2, <1>5, <3>2
    <3>4. Matching(i)' = Matching(i) /\ IndexOf(i)' = IndexOf(i)
      BY <1>3, <1>4, <3>1, <3>2, <3>3 DEF Matching, IndexOf
    <3>5. Matching(i) = {IndexOf(i)}
      BY <1>8, <3>1, LeadsHome DEF IndexInv
    <3>6. x <= outNonce'[Solana][u]
      BY <1>5, <3>2
    <3> QED
      BY <3>1, <3>2, <3>4, <3>5, <3>6
  <2> QED
    BY <2>1, <2>2
<1>9. NoncesTaken'
  BY <1>7, <1>8 DEF NoncesTaken
<1>10. IndexLeadsHome'
  BY <1>8 DEF IndexLeadsHome, Matching, IndexOf
<1> QED
  BY <1>9, <1>10 DEF IndexInv

(***************************************************************************)
(* A killed message can be named (swap_request, NonceIndex): whatever is   *)
(* sent through the same OFT, by orders or by users directly, the index at *)
(* an order's path and nonce leads to that order and to no other.          *)
(***************************************************************************)
THEOREM IndexFindsOrder == Spec => []IndexLeadsHome
<1>1. Init => IndexInv
  <2> SUFFICES ASSUME Init PROVE IndexInv
    OBVIOUS
  <2>1. DeskInv /\ NonceTyped
    BY DeskInvInit
  <2>2. \A i \in Ids : requests[i].status = "NONE"
    BY DEF Init, SolanaInit, NoRequest
  <2>3. nonceIndex = {}
    BY DEF Init, SolanaInit
  <2> QED
    BY <2>1, <2>2, <2>3 DEF IndexInv, NoncesTaken, IndexLeadsHome
<1>2. IndexInv /\ [Next]_desk => IndexInv'
  <2> SUFFICES ASSUME IndexInv, [Next]_desk PROVE IndexInv'
    OBVIOUS
  <2>1. DeskInv /\ NonceTyped /\ DeskInv' /\ NonceTyped'
    BY DeskInvKept DEF IndexInv
  <2>2. \A t \in Tokens : outNonce[Solana][t] <= outNonce'[Solana][t]
    BY <2>1, KindsOfStep
  <2>3. CASE \E t \in Tokens : /\ Opens(t, outNonce[Solana][t] + 1)
                               /\ outNonce'[Solana][t] = outNonce[Solana][t] + 1
    BY <2>1, <2>2, <2>3, OpensIndexed
  <2>4. ASSUME NEW i \in Ids, NEW outcome, Closes(i, outcome)
        PROVE  IndexInv'
    <3>1. \A j \in Ids : /\ requests'[j].user = requests[j].user
                         /\ requests'[j].dir = requests[j].dir
                         /\ requests'[j].lzNonce = requests[j].lzNonce
                         /\ requests'[j].status # "NONE" => requests[j].status # "NONE"
      BY <2>4 DEF Closes
    <3>2. nonceIndex' = nonceIndex
      BY <2>4 DEF Closes
    <3> QED
      BY <2>1, <2>2, <3>1, <3>2, RowsKept
  <2>5. CASE \E i \in Ids : PaysFees(i)
    <3>1. UNCHANGED <<requests, nonceIndex>>
      BY <2>5 DEF PaysFees
    <3> QED
      BY <2>1, <2>2, <3>1, RowsKept
  <2>6. CASE Idles
    <3>1. UNCHANGED <<requests, nonceIndex>>
      BY <2>6 DEF Idles
    <3> QED
      BY <2>1, <2>2, <3>1, RowsKept
  <2> QED
    BY <2>1, <2>3, <2>4, <2>5, <2>6, KindsOfStep
<1>3. IndexInv => IndexLeadsHome
  BY DEF IndexInv
<1> QED
  BY <1>1, <1>2, <1>3, PTL DEF Spec

-----------------------------------------------------------------------------
(* The assets behind the desk.                                             *)

(***************************************************************************)
(* Fees are due to people, never to one of the desk's own accounts.  The   *)
(* program does not look, so this is for the admin who registers partners  *)
(* to see: fees paid out of the vault into itself would stay there, and be *)
(* nobody's.                                                               *)
(***************************************************************************)
RecipientsApart == Store \notin Recipients /\ FeeVault \notin Recipients

(* Packets come from this mirror, and a settlement the OFT delivers is one *)
(* it has not delivered before.                                            *)
OnSolana == \A p \in orders \cup returns \cup composing : p.m = Solana

ReturnsAreNew ==
  /\ IsFiniteSet(composing)
  /\ returns \cap composing = {}
  /\ \A p \in returns \cup composing : p.nonce <= backNonce[p.m][p.t]

(* Fees that are held have somebody to go to.                              *)
PlatformNamed == platformFee.bps > 0 => platformFee.recipient \in Recipients

EscrowsNamed ==
  \A i \in Ids :
    feeEscrow[i].state = "ESCROWED" =>
      /\ feeEscrow[i].user \in Users
      /\ feeEscrow[i].partnerRecipient \in Recipients
      /\ feeEscrow[i].platformFee > 0 => feeEscrow[i].platformRecipient \in Recipients

DeskTypes == TypeOK /\ OnSolana /\ ReturnsAreNew /\ PlatformNamed /\ EscrowsNamed

VaultInv == DeskInv /\ DeskTypes /\ VaultIsOwed

(* The accounts that matter, and who is not one of the desk's.             *)
LEMMA DeskAccounts ==
  /\ Store \in Accounts /\ FeeVault \in Accounts /\ Store # FeeVault
  /\ Users \subseteq Accounts /\ Recipients \subseteq Accounts
  /\ \A u \in Users : u # Store /\ u # FeeVault
BY NamesAssumption DEF Accounts, Store, FeeVault, Contract, Vault

(* What an amount of shared units is worth here.                           *)
LEMMA SolanaWorth ==
  ASSUME NEW t \in Tokens, NEW sd \in Nat
  PROVE  /\ MirrorQuantum[Solana][t] \in Nat \ {0}
         /\ ToLocal(sd, MirrorQuantum[Solana][t]) \in Nat
<1>1. MirrorQuantum[Solana][t] \in Nat \ {0}
  BY WireAssumption, SolanaAssumption
<1> QED
  BY <1>1, AmountTypes

-----------------------------------------------------------------------------
(* Fees out of the vault.                                                  *)

(* One payment: to whoever it is due to, if it is anything.                *)
LEMMA PayFeeMoves ==
  ASSUME RecipientsApart, NEW k \in Token, NEW a, NEW x \in Nat,
         x > 0 => a \in Users \cup Recipients,
         CanPay(k, FeeVault, x)
  PROVE  /\ PayFee(k, a, x) \in Token
         /\ PayFee(k, a, x).bal[FeeVault] = k.bal[FeeVault] - x
         /\ \A c \in Accounts \ {FeeVault} :
              PayFee(k, a, x).bal[c] = k.bal[c] + (IF a = c THEN x ELSE 0)
<1>0. \A c \in Accounts : k.bal[c] \in Nat
  BY DEF Token
<1>1. CASE x = 0
  <2>1. PayFee(k, a, x) = k
    BY <1>1 DEF PayFee
  <2> QED
    BY <1>0, <1>1, <2>1, DeskAccounts
<1>2. CASE x # 0
  <2>1. a \in Accounts /\ a # FeeVault /\ FeeVault \in Accounts
    BY <1>2, DeskAccounts DEF RecipientsApart
  <2>2. PayFee(k, a, x) = Transfer(k, FeeVault, a, x)
    BY <1>2 DEF PayFee, TransferChecked
  <2>3. Transfer(k, FeeVault, a, x) \in Token
    BY <2>1, TransferType
  <2>4. /\ Transfer(k, FeeVault, a, x).bal[FeeVault] = k.bal[FeeVault] - x
        /\ Transfer(k, FeeVault, a, x).bal[a] = k.bal[a] + x
        /\ \A c \in Accounts \ {FeeVault, a} : Transfer(k, FeeVault, a, x).bal[c] = k.bal[c]
    BY <2>1, TransferMoves
  <2> QED
    BY <1>0, <2>1, <2>2, <2>3, <2>4
<1> QED
  BY <1>1, <1>2

(***************************************************************************)
(* settle_fees: the vault pays what the order's escrow holds, and every    *)
(* account outside it receives what the outcome makes due to it.           *)
(***************************************************************************)
LEMMA FeesPaidMoves ==
  ASSUME RecipientsApart, NEW i \in Ids, NEW k \in Token, feeEscrow[i] \in FeeEscrow,
         k = mirrorToken[Solana][feeEscrow[i].mint],
         feeEscrow[i].state = "ESCROWED", EscrowsNamed,
         CanPay(k, FeeVault, EscrowTotal(feeEscrow[i]))
  PROVE  /\ FeesPaid(i) \in Token
         /\ FeesPaid(i).bal[FeeVault] = k.bal[FeeVault] - EscrowTotal(feeEscrow[i])
         /\ \A c \in Accounts \ {FeeVault} : FeesPaid(i).bal[c] = k.bal[c] + DueTo(c, i)
<1> DEFINE f == feeEscrow[i]
           pay == Payout(requests[i].status, f)
<1>1. /\ f.partnerFee \in Nat /\ f.platformFee \in Nat
      /\ f.user \in Users /\ f.partnerRecipient \in Recipients
      /\ f.platformFee > 0 => f.platformRecipient \in Recipients
  BY DEF FeeEscrow, EscrowsNamed
<1>2. PICK x, y, z \in Nat :
        /\ x = pay.partner /\ y = pay.platform /\ z = pay.user
        /\ x + y + z = EscrowTotal(f)
        /\ y > 0 => f.platformFee > 0
        /\ \A c : DueTo(c, i) = (IF f.partnerRecipient = c THEN x ELSE 0)
                              + (IF f.platformRecipient = c THEN y ELSE 0)
                              + (IF f.user = c THEN z ELSE 0)
  <2>1. CASE requests[i].status = "FILLED"
    <3>1. pay = [partner |-> f.partnerFee, platform |-> f.platformFee, user |-> 0]
      BY <2>1 DEF Payout
    <3>2. \A c : DueTo(c, i) = (IF f.partnerRecipient = c THEN f.partnerFee ELSE 0)
                             + (IF f.platformRecipient = c THEN f.platformFee ELSE 0)
      BY <2>1 DEF DueTo
    <3> HIDE DEF f, pay
    <3>3. \A c : DueTo(c, i) = (IF f.partnerRecipient = c THEN f.partnerFee ELSE 0)
                             + (IF f.platformRecipient = c THEN f.platformFee ELSE 0)
                             + (IF f.user = c THEN 0 ELSE 0)
      BY <1>1, <3>2
    <3>4. f.partnerFee + f.platformFee + 0 = EscrowTotal(f)
      BY <1>1 DEF EscrowTotal
    <3>5. /\ f.partnerFee = pay.partner /\ f.platformFee = pay.platform /\ 0 = pay.user
      BY <3>1
    <3> USE <1>1
    <3> WITNESS f.partnerFee \in Nat, f.platformFee \in Nat, 0 \in Nat
    <3> QED
      BY <3>3, <3>4, <3>5
  <2>2. CASE requests[i].status # "FILLED"
    <3>1. pay = [partner |-> 0, platform |-> 0, user |-> EscrowTotal(f)]
      BY <2>2 DEF Payout
    <3>2. \A c : DueTo(c, i) = (IF f.user = c THEN EscrowTotal(f) ELSE 0)
      BY <2>2 DEF DueTo
    <3>3. EscrowTotal(f) \in Nat
      BY <1>1 DEF EscrowTotal
    <3> HIDE DEF f, pay
    <3>4. \A c : DueTo(c, i) = (IF f.partnerRecipient = c THEN 0 ELSE 0)
                             + (IF f.platformRecipient = c THEN 0 ELSE 0)
                             + (IF f.user = c THEN EscrowTotal(f) ELSE 0)
      BY <3>2, <3>3
    <3>5. 0 = pay.partner /\ 0 = pay.platform /\ EscrowTotal(f) = pay.user
      BY <3>1
    <3> QED
      BY <3>3, <3>4, <3>5
  <2> QED
    BY <2>1, <2>2
<1>3. FeesPaid(i) = PayFee(PayFee(PayFee(k, f.partnerRecipient, x), f.platformRecipient, y),
                           f.user, z)
  BY <1>2 DEF FeesPaid
<1>4. PICK v \in Nat : v = k.bal[FeeVault] /\ v >= x + y + z
  BY <1>2, DeskAccounts DEF CanPay, Token
<1> HIDE DEF pay
<1>5. PICK k1 \in Token :
        /\ k1 = PayFee(k, f.partnerRecipient, x)
        /\ k1.bal[FeeVault] = v - x
        /\ \A c \in Accounts \ {FeeVault} :
             k1.bal[c] = k.bal[c] + (IF f.partnerRecipient = c THEN x ELSE 0)
  BY <1>1, <1>4, PayFeeMoves DEF CanPay
<1>6. PICK k2 \in Token :
        /\ k2 = PayFee(k1, f.platformRecipient, y)
        /\ k2.bal[FeeVault] = v - x - y
        /\ \A c \in Accounts \ {FeeVault} :
             k2.bal[c] = k1.bal[c] + (IF f.platformRecipient = c THEN y ELSE 0)
  <2>1. y > 0 => f.platformRecipient \in Users \cup Recipients
    BY <1>1, <1>2
  <2>2. CanPay(k1, FeeVault, y)
    BY <1>4, <1>5 DEF CanPay
  <2>3. v - x - y = k1.bal[FeeVault] - y
    BY <1>5
  <2> HIDE DEF f
  <2> QED
    BY <2>1, <2>2, <2>3, PayFeeMoves
<1>7. PICK k3 \in Token :
        /\ k3 = PayFee(k2, f.user, z)
        /\ k3.bal[FeeVault] = v - x - y - z
        /\ \A c \in Accounts \ {FeeVault} :
             k3.bal[c] = k2.bal[c] + (IF f.user = c THEN z ELSE 0)
  BY <1>1, <1>4, <1>6, PayFeeMoves DEF CanPay
<1>8. FeesPaid(i) = k3
  BY <1>3, <1>5, <1>6, <1>7
<1>9. v - x - y - z = v - EscrowTotal(f)
  BY <1>2, <1>4
<1>10. ASSUME NEW c \in Accounts \ {FeeVault}
       PROVE  k3.bal[c] = k.bal[c] + DueTo(c, i)
  <2>1. k.bal[c] \in Nat
    BY DEF Token
  <2>2. PICK p, q, w \in Nat :
          /\ p = IF f.partnerRecipient = c THEN x ELSE 0
          /\ q = IF f.platformRecipient = c THEN y ELSE 0
          /\ w = IF f.user = c THEN z ELSE 0
    OBVIOUS
  <2> HIDE DEF f
  <2>3. DueTo(c, i) = p + q + w
    BY <1>2, <2>2
  <2>4. k1.bal[c] = k.bal[c] + p /\ k2.bal[c] = k1.bal[c] + q /\ k3.bal[c] = k2.bal[c] + w
    BY <1>5, <1>6, <1>7, <2>2
  <2> QED
    BY <2>1, <2>3, <2>4
<1> QED
  BY <1>4, <1>7, <1>8, <1>9, <1>10

-----------------------------------------------------------------------------
(* What the vault and the store owe, as sums.                              *)

(* What the escrow f keeps in t, and all the escrows of a table.           *)
HeldFor(f, t) == IF f.state = "ESCROWED" /\ f.mint = t THEN EscrowTotal(f) ELSE 0

HeldIn(E, t) == SumFunction([i \in Ids |-> HeldFor(E[i], t)])

(* What the settlement p pays in t, and all the settlements of a queue.    *)
PaysOut(p, t) == IF p.t = t THEN ToLocal(p.sd, MirrorQuantum[Solana][t]) ELSE 0

QueuedIn(C, t) == SumFunction([p \in C |-> PaysOut(p, t)])

(* The property, in these terms.                                           *)
LEMMA OwedInSums ==
  VaultIsOwed <=> \A t \in Tokens :
                    /\ mirrorToken[Solana][t].bal[FeeVault] = HeldIn(feeEscrow, t)
                    /\ mirrorToken[Solana][t].bal[Store] = QueuedIn(composing, t)
<1>1. \A t : Escrowed(t) = HeldIn(feeEscrow, t)
  BY DEF Escrowed, HeldIn, HeldFor
<1>2. \A t \in Tokens : Arrived(t) = QueuedIn(composing, t)
  <2> TAKE t \in Tokens
  <2>1. [p \in composing |->
           IF p.t = t THEN ToLocal(p.sd, MirrorQuantum[Solana][t]) ELSE 0]
        = [p \in composing |-> PaysOut(p, t)]
    BY DEF PaysOut
  <2> QED
    BY <2>1 DEF Arrived, QueuedIn
<1> QED
  BY <1>1, <1>2 DEF VaultIsOwed

(* One escrow of the table changes.                                        *)
DifferAt(E, F, i) == \A j \in Ids \ {i} : F[j] = E[j]

LEMMA HeldChanges ==
  ASSUME NEW E \in [Ids -> FeeEscrow], NEW F \in [Ids -> FeeEscrow], NEW i \in Ids,
         DifferAt(E, F, i), NEW t \in Tokens
  PROVE  /\ HeldIn(E, t) \in Nat
         /\ HeldFor(E[i], t) \in Nat /\ HeldFor(F[i], t) \in Nat
         /\ HeldIn(F, t) = HeldIn(E, t) - HeldFor(E[i], t) + HeldFor(F[i], t)
<1> DEFINE e == [j \in Ids |-> HeldFor(E[j], t)]
           f == [j \in Ids |-> HeldFor(F[j], t)]
<1>1. \A g \in FeeEscrow : HeldFor(g, t) \in Nat
  <2> TAKE g \in FeeEscrow
  <2>1. g.partnerFee \in Nat /\ g.platformFee \in Nat
    BY DEF FeeEscrow
  <2> QED
    BY <2>1 DEF HeldFor, EscrowTotal
<1>2. \A j \in Ids : e[j] \in Nat /\ f[j] \in Nat
  BY <1>1
<1>3. \A j \in Ids : j # i => f[j] = e[j]
  BY DEF DifferAt
<1>4. e[i] = HeldFor(E[i], t) /\ f[i] = HeldFor(F[i], t)
  OBVIOUS
<1>5. /\ HeldIn(E, t) = SumFunctionOnSet(e, Ids)
      /\ HeldIn(F, t) = SumFunctionOnSet(f, Ids)
  BY DEF HeldIn, SumFunction
<1>6. IsFiniteSet(Ids)
  BY FS_Interval, MaxRequestsAssumption DEF Ids
<1> HIDE DEF e, f
<1>7. /\ SumFunctionOnSet(e, Ids) \in Nat /\ SumFunctionOnSet(f, Ids) \in Nat
      /\ SumFunctionOnSet(f, Ids) = SumFunctionOnSet(e, Ids) - e[i] + f[i]
  BY <1>2, <1>3, <1>6, SumChanges
<1> QED
  BY <1>2, <1>4, <1>5, <1>7

(* A settlement pays a natural number.                                     *)
LEMMA PaysOutIsNat ==
  ASSUME NEW p \in ReturnPacket, NEW t \in Tokens
  PROVE  PaysOut(p, t) \in Nat
<1>1. p.sd \in Nat
  BY DEF ReturnPacket
<1> QED
  BY <1>1, SolanaWorth DEF PaysOut

(* A settlement leaves a queue, or joins it.                               *)
LEMMA QueueDrops ==
  ASSUME NEW C \in SUBSET ReturnPacket, IsFiniteSet(C), NEW p \in C, NEW t \in Tokens
  PROVE  /\ QueuedIn(C, t) \in Nat /\ QueuedIn(C \ {p}, t) \in Nat /\ PaysOut(p, t) \in Nat
         /\ QueuedIn(C, t) = PaysOut(p, t) + QueuedIn(C \ {p}, t)
<1> DEFINE g == [q \in C |-> PaysOut(q, t)]
           h == [q \in C \ {p} |-> PaysOut(q, t)]
<1>1. \A q \in C : g[q] = PaysOut(q, t) /\ g[q] \in Nat
  BY PaysOutIsNat
<1>2. \A q \in C \ {p} : h[q] = g[q] /\ g[q] \in Nat
  BY <1>1
<1>3. /\ QueuedIn(C, t) = SumFunctionOnSet(g, C)
      /\ QueuedIn(C \ {p}, t) = SumFunctionOnSet(h, C \ {p})
  BY DEF QueuedIn, SumFunction
<1>4. IsFiniteSet(C \ {p})
  BY FS_RemoveElement
<1> HIDE DEF g, h
<1>5. SumFunctionOnSet(h, C \ {p}) = SumFunctionOnSet(g, C \ {p})
  BY <1>2, <1>4, SumOfSame
<1>6. SumFunctionOnSet(g, C \ {p}) \in Nat /\ SumFunctionOnSet(g, C) \in Nat
  BY <1>1, <1>2, <1>4, SumIsNat
<1>7. SumFunctionOnSet(g, C) = g[p] + SumFunctionOnSet(g, C \ {p})
  BY <1>1, SumTakesAny
<1> QED
  BY <1>1, <1>3, <1>5, <1>6, <1>7

LEMMA QueueGrows ==
  ASSUME NEW C \in SUBSET ReturnPacket, IsFiniteSet(C), NEW p \in ReturnPacket, p \notin C,
         NEW t \in Tokens
  PROVE  /\ QueuedIn(C, t) \in Nat /\ PaysOut(p, t) \in Nat
         /\ QueuedIn(C \cup {p}, t) = QueuedIn(C, t) + PaysOut(p, t)
<1>0. C \cup {p} \in SUBSET ReturnPacket /\ IsFiniteSet(C \cup {p})
  BY FS_AddElement
<1>1. PICK D \in SUBSET ReturnPacket : D = C \cup {p} /\ IsFiniteSet(D)
  BY <1>0
<1>2. p \in D /\ D \ {p} = C
  BY <1>1
<1>3. /\ QueuedIn(D, t) \in Nat /\ QueuedIn(D \ {p}, t) \in Nat /\ PaysOut(p, t) \in Nat
      /\ QueuedIn(D, t) = PaysOut(p, t) + QueuedIn(D \ {p}, t)
  BY <1>1, <1>2, QueueDrops
<1>4. QueuedIn(C, t) \in Nat /\ QueuedIn(D, t) = PaysOut(p, t) + QueuedIn(C, t)
  BY <1>2, <1>3
<1> QED
  BY <1>1, <1>3, <1>4

-----------------------------------------------------------------------------
(* Tokens move.                                                            *)

(* The asset t of this desk becomes k.                                     *)
Becomes(t, k) == mirrorToken' = [mirrorToken EXCEPT ![Solana][t] = k]

(* Outside t nothing is owed that was not.                                 *)
OwedElsewhere(t) ==
  \A u \in Tokens \ {t} : /\ HeldIn(feeEscrow', u) = HeldIn(feeEscrow, u)
                          /\ QueuedIn(composing', u) = QueuedIn(composing, u)

LEMMA BecomesTyped ==
  ASSUME mirrorToken \in [Mirrors -> [Tokens -> Token]],
         NEW t \in Tokens, NEW k \in Token, Becomes(t, k)
  PROVE  /\ mirrorToken' \in [Mirrors -> [Tokens -> Token]]
         /\ mirrorToken'[Solana][t] = k
         /\ \A u \in Tokens \ {t} : mirrorToken'[Solana][u] = mirrorToken[Solana][u]
<1>1. Solana \in Mirrors
  BY SolanaAssumption
<1> QED
  BY <1>1 DEF Becomes

(* What an asset holds for the desk changes by what is owed in it.         *)
LEMMA OwedMoves ==
  ASSUME TypeOK, VaultIsOwed, NEW t \in Tokens, NEW k \in Token, Becomes(t, k),
         k.bal[FeeVault] = HeldIn(feeEscrow', t),
         k.bal[Store] = QueuedIn(composing', t),
         OwedElsewhere(t)
  PROVE  VaultIsOwed'
<1>1. /\ mirrorToken'[Solana][t] = k
      /\ \A u \in Tokens \ {t} : mirrorToken'[Solana][u] = mirrorToken[Solana][u]
  BY BecomesTyped DEF TypeOK, WireTypeOK
<1>2. \A u \in Tokens : /\ mirrorToken[Solana][u].bal[FeeVault] = HeldIn(feeEscrow, u)
                        /\ mirrorToken[Solana][u].bal[Store] = QueuedIn(composing, u)
  BY OwedInSums
<1>3. ASSUME NEW u \in Tokens
      PROVE  /\ mirrorToken'[Solana][u].bal[FeeVault] = HeldIn(feeEscrow', u)
             /\ mirrorToken'[Solana][u].bal[Store] = QueuedIn(composing', u)
  <2>1. CASE u = t
    BY <1>1, <2>1
  <2>2. CASE u # t
    BY <1>1, <1>2, <2>2 DEF OwedElsewhere
  <2> QED
    BY <2>1, <2>2
<1>4. \A u : Escrowed(u)' = HeldIn(feeEscrow', u)
  BY DEF Escrowed, HeldIn, HeldFor
<1>5. \A u \in Tokens : Arrived(u)' = QueuedIn(composing', u)
  <2> TAKE u \in Tokens
  <2>1. [p \in composing' |->
           IF p.t = u THEN ToLocal(p.sd, MirrorQuantum[Solana][u]) ELSE 0]
        = [p \in composing' |-> PaysOut(p, u)]
    BY DEF PaysOut
  <2> QED
    BY <2>1 DEF Arrived, QueuedIn
<1> QED
  BY <1>3, <1>4, <1>5 DEF VaultIsOwed

-----------------------------------------------------------------------------
(* Orders leave.                                                           *)

(* The OFT takes an order of this mirror.                                  *)
LEMMA SendOrderKeeps ==
  ASSUME DeskTypes, NEW t \in Tokens, NEW id \in Ids \cup {0}, NEW user \in Users,
         NEW sd \in Nat, NEW min \in Nat, SendOrder(Solana, t, id, user, sd, min)
  PROVE  /\ outNonce' \in [Mirrors -> [Tokens -> Nat]]
         /\ orders' \subseteq OrderPacket
         /\ \A p \in orders' : p.m = Solana
         /\ outNonce[Solana][t] + 1 \in Nat
<1>1. /\ outNonce \in [Mirrors -> [Tokens -> Nat]] /\ orders \subseteq OrderPacket
      /\ Solana \in Mirrors
  BY SolanaAssumption DEF DeskTypes, TypeOK, WireTypeOK
<1>2. PICK n \in Nat : n = outNonce[Solana][t] + 1
  BY <1>1
<1> DEFINE p == [m |-> Solana, t |-> t, nonce |-> n, id |-> id, user |-> user, sd |-> sd,
                 min |-> min]
<1>3. p \in OrderPacket /\ p.m = Solana
  BY <1>1 DEF OrderPacket
<1>4. orders' = orders \cup {p}
  BY <1>2 DEF SendOrder
<1>5. outNonce' = [outNonce EXCEPT ![Solana][t] = n]
  BY <1>1, <1>2 DEF SendOrder
<1> HIDE DEF p
<1> QED
  BY <1>1, <1>2, <1>3, <1>4, <1>5 DEF DeskTypes, OnSolana

(***************************************************************************)
(* open: what is sent passes through the store's account and leaves it.    *)
(***************************************************************************)
LEMMA OpenMoves ==
  ASSUME DeskTypes, NEW trade \in TradeType, NEW amountIn \in Nat, NEW held \in Token,
         Open(trade, amountIn, held)
  PROVE  /\ \E k \in Token : /\ Becomes(TokenIn(trade.dir), k)
                             /\ k.bal[FeeVault] = held.bal[FeeVault]
                             /\ k.bal[Store] = held.bal[Store]
         /\ outNonce' \in [Mirrors -> [Tokens -> Nat]]
         /\ orders' \subseteq OrderPacket
         /\ \A p \in orders' : p.m = Solana
<1> DEFINE t == TokenIn(trade.dir)
           u == trade.user
           sent == RemoveDust(amountIn, MirrorQuantum[Solana][t])
           there == Transfer(held, u, Store, sent)
<1>1. /\ t \in Tokens /\ TokenOut(trade.dir) \in Tokens
      /\ u \in Users /\ trade.min \in Nat
  BY DEF TradeType, TokenIn, TokenOut, Tokens, Direction
<1>2. /\ MirrorQuantum[Solana][t] \in Nat \ {0}
      /\ MirrorQuantum[Solana][TokenOut(trade.dir)] \in Nat \ {0}
  BY <1>1, SolanaWorth
<1>3. /\ sent \in Nat /\ ToShared(sent, MirrorQuantum[Solana][t]) \in Nat
      /\ LdToSdCeil(trade.min, TokenOut(trade.dir)) \in Nat
  BY <1>1, <1>2, AmountTypes DEF LdToSdCeil
<1>4. u \in Accounts /\ Store \in Accounts /\ FeeVault \in Accounts
      /\ u # Store /\ u # FeeVault /\ Store # FeeVault
  BY <1>1, DeskAccounts
<1>5. CanPay(held, u, sent) /\ nextRequestId \in Ids
  BY DEF Open
<1>6. /\ mirrorToken' = [mirrorToken EXCEPT ![Solana][t] = Burn(there, Store, sent)]
      /\ SendOrder(Solana, t, nextRequestId, u, ToShared(sent, MirrorQuantum[Solana][t]),
                   LdToSdCeil(trade.min, TokenOut(trade.dir)))
  BY DEF Open, DispatchOftSend, TransferChecked
<1> HIDE DEF t, u, sent
<1>7. there \in Token
  BY <1>3, <1>4, <1>5, TransferType
<1>8. /\ there.bal[Store] = held.bal[Store] + sent /\ held.bal[Store] \in Nat
      /\ there.bal[FeeVault] = held.bal[FeeVault]
  BY <1>3, <1>4, TransferMoves
<1> HIDE DEF there
<1>9. CanPay(there, Store, sent)
  BY <1>3, <1>8 DEF CanPay
<1>10. Burn(there, Store, sent) \in Token
  BY <1>3, <1>4, <1>7, <1>9, BurnType
<1>11. /\ Burn(there, Store, sent).bal[Store] = there.bal[Store] - sent
       /\ Burn(there, Store, sent).bal[FeeVault] = there.bal[FeeVault]
  BY <1>3, <1>4, <1>7, BurnMoves
<1>12. \E k \in Token : /\ Becomes(t, k)
                        /\ k.bal[FeeVault] = held.bal[FeeVault]
                        /\ k.bal[Store] = held.bal[Store]
  <2>1. Burn(there, Store, sent).bal[Store] = held.bal[Store]
    BY <1>3, <1>8, <1>11
  <2> WITNESS Burn(there, Store, sent) \in Token
  <2> QED
    BY <1>6, <1>8, <1>11, <2>1 DEF Becomes
<1>13. /\ outNonce' \in [Mirrors -> [Tokens -> Nat]]
       /\ orders' \subseteq OrderPacket
       /\ \A p \in orders' : p.m = Solana
  BY <1>1, <1>3, <1>5, <1>6, SendOrderKeeps
<1> QED
  BY <1>12, <1>13 DEF t

(* The request and its index are written.                                  *)
LEMMA OpenTables ==
  ASSUME DeskTypes, NEW trade \in TradeType, NEW amountIn \in Nat, NEW held \in Token,
         Open(trade, amountIn, held)
  PROVE  /\ requests' \in [Ids -> Request]
         /\ nextRequestId' \in Nat \ {0}
         /\ nonceIndex' \subseteq NonceIndex
         /\ UNCHANGED <<returns, backNonce, composing, notices, noticeNonce, storeVars>>
<1> DEFINE t == TokenIn(trade.dir)
           id == nextRequestId
<1>1. /\ t \in Tokens /\ trade.dir \in Direction
      /\ trade.user \in Users /\ trade.min \in Nat
  BY DEF TradeType, TokenIn, Tokens, Direction
<1>2. /\ id \in Ids /\ id \in Nat \ {0}
      /\ requests \in [Ids -> Request] /\ nonceIndex \subseteq NonceIndex
  BY DEF Open, DeskTypes, TypeOK, SolanaTypeOK
<1>3. outNonce[Solana][t] + 1 \in Nat
  BY <1>1, SolanaAssumption DEF DeskTypes, TypeOK, WireTypeOK
<1>4. PICK sent \in Nat :
        requests' = [requests EXCEPT ![id] =
          [user |-> trade.user, dir |-> trade.dir, amountIn |-> sent,
           minAmountOut |-> trade.min, amountOut |-> 0, status |-> "PENDING",
           lzNonce |-> outNonce[Solana][t] + 1]]
  BY <1>1, SolanaWorth, AmountTypes DEF Open
<1>5. [user |-> trade.user, dir |-> trade.dir, amountIn |-> sent,
       minAmountOut |-> trade.min, amountOut |-> 0, status |-> "PENDING",
       lzNonce |-> outNonce[Solana][t] + 1] \in Request
  BY <1>1, <1>3 DEF Request, Status
<1>6. /\ nextRequestId' = id + 1
      /\ nonceIndex' = nonceIndex \cup {Indexed(t, id, trade.user)}
      /\ UNCHANGED <<returns, backNonce, composing, notices, noticeNonce, storeVars>>
  BY DEF Open
<1>7. Indexed(t, id, trade.user) \in NonceIndex
  BY <1>1, <1>2, <1>3 DEF Indexed, NonceIndex
<1> HIDE DEF t, id
<1>8. requests' \in [Ids -> Request]
  BY <1>2, <1>4, <1>5
<1> QED
  BY <1>2, <1>6, <1>7, <1>8

(* What is left of DeskTypes once the tables and the asset are typed.      *)
LEMMA OpenTypes ==
  ASSUME DeskTypes, NEW trade \in TradeType, NEW amountIn \in Nat, NEW held \in Token,
         Open(trade, amountIn, held),
         feeEscrow' \in [Ids -> FeeEscrow], executed' \subseteq Nat, EscrowsNamed'
  PROVE  DeskTypes'
<1>1. TokenIn(trade.dir) \in Tokens
  BY DEF TradeType, TokenIn, Tokens
<1>2. PICK k \in Token : Becomes(TokenIn(trade.dir), k)
  BY OpenMoves
<1>3. mirrorToken' \in [Mirrors -> [Tokens -> Token]]
  BY <1>1, <1>2, BecomesTyped DEF DeskTypes, TypeOK, WireTypeOK
<1>4. /\ outNonce' \in [Mirrors -> [Tokens -> Nat]]
      /\ orders' \subseteq OrderPacket
      /\ \A p \in orders' : p.m = Solana
  BY OpenMoves
<1>5. /\ requests' \in [Ids -> Request]
      /\ nextRequestId' \in Nat \ {0}
      /\ nonceIndex' \subseteq NonceIndex
      /\ UNCHANGED <<returns, backNonce, composing, notices, noticeNonce>>
      /\ UNCHANGED <<homeRelay, partners, partnerRequired, platformFee>>
  BY OpenTables DEF storeVars
<1>6. WireTypeOK'
  BY <1>3, <1>4, <1>5 DEF DeskTypes, TypeOK, WireTypeOK
<1>7. SolanaTypeOK'
  BY <1>5 DEF DeskTypes, TypeOK, SolanaTypeOK
<1>8. OnSolana' /\ ReturnsAreNew' /\ PlatformNamed'
  BY <1>4, <1>5 DEF DeskTypes, OnSolana, ReturnsAreNew, PlatformNamed
<1> QED
  BY <1>6, <1>7, <1>8 DEF DeskTypes, TypeOK

(* An order without fees.                                                  *)
LEMMA OpenRequestKeeps ==
  ASSUME VaultInv, NEW trade \in Trades, OpenRequest(trade)
  PROVE  DeskTypes' /\ VaultIsOwed'
<1> DEFINE t == TokenIn(trade.dir)
           held == mirrorToken[Solana][t]
<1>1. trade \in TradeType /\ trade.gross \in Nat /\ t \in Tokens
  BY SolanaAssumption DEF TradeType, TokenIn, Tokens
<1>2. held \in Token /\ DeskTypes /\ TypeOK /\ VaultIsOwed
  BY <1>1, SolanaAssumption DEF VaultInv, DeskTypes, TypeOK, WireTypeOK
<1>3. Open(trade, trade.gross, held) /\ UNCHANGED <<feeEscrow, executed>>
  BY DEF OpenRequest
<1> HIDE DEF t, held
<1>4. DeskTypes'
  <2>1. feeEscrow' \in [Ids -> FeeEscrow] /\ executed' \subseteq Nat /\ EscrowsNamed'
    BY <1>2, <1>3 DEF DeskTypes, TypeOK, SolanaTypeOK, EscrowsNamed
  <2> QED
    BY <1>1, <1>2, <1>3, <2>1, OpenTypes
<1>5. composing' = composing
  BY <1>1, <1>2, <1>3, OpenTables
<1>6. PICK k \in Token : /\ Becomes(t, k)
                         /\ k.bal[FeeVault] = held.bal[FeeVault]
                         /\ k.bal[Store] = held.bal[Store]
  BY <1>1, <1>2, <1>3, OpenMoves DEF t
<1>7. /\ held.bal[FeeVault] = HeldIn(feeEscrow, t)
      /\ held.bal[Store] = QueuedIn(composing, t)
  BY <1>1, <1>2, OwedInSums DEF held
<1>8. OwedElsewhere(t)
  BY <1>3, <1>5 DEF OwedElsewhere
<1>9. /\ k.bal[FeeVault] = HeldIn(feeEscrow', t)
      /\ k.bal[Store] = QueuedIn(composing', t)
  BY <1>3, <1>5, <1>6, <1>7
<1>10. VaultIsOwed'
  BY <1>1, <1>2, <1>6, <1>8, <1>9, OwedMoves
<1> QED
  BY <1>4, <1>10

(***************************************************************************)
(* An order through a partner: its fees go into the vault, and into an     *)
(* escrow that was empty.                                                  *)
(***************************************************************************)
LEMMA OpenViaPartnerKeeps ==
  ASSUME VaultInv, NEW s \in CoSigned, NEW p \in partners[s.partner], OpenViaPartner(s, p)
  PROVE  DeskTypes' /\ VaultIsOwed'
<1> DEFINE trade == s.trade
           t == TokenIn(trade.dir)
           i == nextRequestId
           due == ComputeFees(trade.gross, s.feeBps, platformFee.bps)
           cut == FeeOf(trade.gross, s.feeBps, FeeUnit)
           ours == FeeOf(trade.gross, platformFee.bps, FeeUnit)
           total == cut + ours
           held == mirrorToken[Solana][t]
           left == Transfer(held, trade.user, FeeVault, total)
           f == [partner |-> s.partner, user |-> trade.user, mint |-> t,
                 partnerRecipient |-> p.recipient,
                 platformRecipient |-> platformFee.recipient,
                 partnerFee |-> cut, platformFee |-> ours,
                 state |-> IF total > 0 THEN "ESCROWED" ELSE "NONE"]
<1>1. /\ s \in CoSignedType /\ trade \in TradeType /\ trade.gross \in Nat
      /\ trade.user \in Users /\ s.partner \in PartnerIds /\ s.feeBps \in Nat
      /\ s.tx \in Nat /\ t \in Tokens
  BY SolanaAssumption DEF CoSignedType, TradeType, TokenIn, Tokens
<1>2. /\ held \in Token /\ DeskTypes /\ TypeOK /\ VaultIsOwed
      /\ feeEscrow \in [Ids -> FeeEscrow] /\ executed \subseteq Nat /\ EscrowsNamed
      /\ platformFee \in PlatformType /\ p \in PartnerType
  BY <1>1, SolanaAssumption DEF VaultInv, DeskTypes, TypeOK, WireTypeOK, SolanaTypeOK
<1>3. cut \in Nat /\ ours \in Nat /\ total \in Nat
  <2>1. platformFee.bps \in Nat
    BY <1>2 DEF PlatformType
  <2>2. cut \in Nat /\ ours \in Nat
    BY <1>1, <2>1, FeeType, SolanaAssumption
  <2> QED
    BY <2>2
<1>4. /\ due.partner = cut /\ due.platform = ours
      /\ due.partner + due.platform = total
      /\ due.net = trade.gross - cut - ours
  BY DEF ComputeFees
<1>5. /\ i \in Ids /\ executed' = executed \cup {s.tx}
      /\ due.net > 0 /\ CanPay(held, trade.user, total)
      /\ feeEscrow' = [feeEscrow EXCEPT ![i] = f]
      /\ Open(trade, due.net, left)
  BY <1>4 DEF OpenViaPartner, TransferChecked
<1>6. due.net \in Nat
  BY <1>1, <1>3, <1>4, <1>5
<1>7. /\ f \in FeeEscrow
      /\ f.state = "ESCROWED" => /\ f.user \in Users /\ f.partnerRecipient \in Recipients
                                 /\ f.platformFee > 0 => f.platformRecipient \in Recipients
  <2>1. p.recipient \in Recipients /\ platformFee.recipient \in Recipients \cup {NoUser}
    BY <1>2 DEF PartnerType, PlatformType
  <2>2. ours > 0 => platformFee.recipient \in Recipients
    <3>1. platformFee.bps \in Nat
      BY <1>2 DEF PlatformType
    <3>2. CASE platformFee.bps = 0
      <4>1. trade.gross * 0 = 0 /\ 0 \div FeeUnit = 0
        BY <1>1, SolanaAssumption
      <4> QED
        BY <3>2, <4>1 DEF FeeOf
    <3>3. CASE platformFee.bps > 0
      BY <1>2, <3>3 DEF DeskTypes, PlatformNamed
    <3> QED
      BY <3>1, <3>2, <3>3
  <2> HIDE DEF cut, ours, total, trade
  <2>3. f \in FeeEscrow
    BY <1>1, <1>3, <2>1 DEF FeeEscrow
  <2> QED
    BY <1>1, <2>1, <2>2, <2>3
<1>8. HeldFor(f, t) = total /\ \A u \in Tokens \ {t} : HeldFor(f, u) = 0
  <2> HIDE DEF cut, ours, trade, t
  <2>1. EscrowTotal(f) = total
    BY DEF EscrowTotal
  <2> QED
    BY <1>3, <2>1 DEF HeldFor
<1>9. feeEscrow[i].state = "NONE"
  BY <1>5 DEF VaultInv, DeskInv
<1> HIDE DEF f, due, cut, ours, total, t, trade, held, left, i
<1>10. feeEscrow' \in [Ids -> FeeEscrow] /\ feeEscrow'[i] = f
       /\ \A j \in Ids \ {i} : feeEscrow'[j] = feeEscrow[j]
  BY <1>2, <1>5, <1>7
<1>11. \A u \in Tokens : HeldIn(feeEscrow', u) = HeldIn(feeEscrow, u) + HeldFor(f, u)
  <2> TAKE u \in Tokens
  <2>1. PICK E, F \in [Ids -> FeeEscrow] :
          E = feeEscrow /\ F = feeEscrow' /\ F[i] = f /\ DifferAt(E, F, i)
    BY <1>2, <1>10 DEF DifferAt
  <2>2. /\ HeldIn(E, u) \in Nat /\ HeldFor(E[i], u) \in Nat /\ HeldFor(F[i], u) \in Nat
        /\ HeldIn(F, u) = HeldIn(E, u) - HeldFor(E[i], u) + HeldFor(F[i], u)
    <3>1. PICK n \in Ids : n = i /\ DifferAt(E, F, n)
      BY <1>5, <2>1
    <3>2. /\ HeldIn(E, u) \in Nat /\ HeldFor(E[n], u) \in Nat /\ HeldFor(F[n], u) \in Nat
          /\ HeldIn(F, u) = HeldIn(E, u) - HeldFor(E[n], u) + HeldFor(F[n], u)
      BY <3>1, HeldChanges
    <3> QED
      BY <3>1, <3>2
  <2>3. HeldFor(E[i], u) = 0
    BY <1>9, <2>1 DEF HeldFor
  <2> QED
    BY <2>1, <2>2, <2>3
<1>12. left \in Token
  BY <1>1, <1>2, <1>3, <1>5, DeskAccounts, TransferType DEF left
<1>13. left.bal[FeeVault] = held.bal[FeeVault] + total /\ left.bal[Store] = held.bal[Store]
  <2>1. /\ trade.user \in Accounts /\ FeeVault \in Accounts /\ trade.user # FeeVault
        /\ Store \in Accounts \ {trade.user, FeeVault}
    BY <1>1, DeskAccounts
  <2> QED
    BY <1>2, <1>3, <2>1, TransferMoves DEF left
<1>14. DeskTypes'
  <2>1. executed' \subseteq Nat
    BY <1>1, <1>2, <1>5
  <2>2. EscrowsNamed'
    BY <1>2, <1>7, <1>10 DEF EscrowsNamed
  <2> QED
    BY <1>1, <1>2, <1>5, <1>6, <1>10, <1>12, <2>1, <2>2, OpenTypes
<1>15. composing' = composing
  BY <1>1, <1>2, <1>5, <1>6, <1>12, OpenTables
<1>16. PICK k \in Token : /\ Becomes(t, k)
                          /\ k.bal[FeeVault] = left.bal[FeeVault]
                          /\ k.bal[Store] = left.bal[Store]
  BY <1>1, <1>2, <1>5, <1>6, <1>12, OpenMoves DEF t
<1>17. /\ held.bal[FeeVault] = HeldIn(feeEscrow, t)
       /\ held.bal[Store] = QueuedIn(composing, t)
  BY <1>1, <1>2, OwedInSums DEF held
<1>18. OwedElsewhere(t)
  <2>1. \A u \in Tokens : HeldIn(feeEscrow, u) \in Nat
    BY <1>2, <1>5, HeldChanges DEF DifferAt
  <2> QED
    BY <1>8, <1>11, <1>15, <2>1 DEF OwedElsewhere
<1>19. /\ k.bal[FeeVault] = HeldIn(feeEscrow', t)
       /\ k.bal[Store] = QueuedIn(composing', t)
  BY <1>1, <1>8, <1>11, <1>13, <1>15, <1>16, <1>17
<1>20. VaultIsOwed'
  BY <1>1, <1>2, <1>16, <1>18, <1>19, OwedMoves
<1> QED
  BY <1>14, <1>20

-----------------------------------------------------------------------------
(* Settlements and notices arrive.                                         *)

(* A request's row once an outcome, and perhaps an amount, is written.     *)
LEMMA RequestUpdated ==
  ASSUME requests \in [Ids -> Request], NEW id, NEW st \in Status, NEW x \in Nat,
         \/ requests' = requests
         \/ requests' = [requests EXCEPT ![id].status = st]
         \/ requests' = [requests EXCEPT ![id].status = st, ![id].amountOut = x]
  PROVE  requests' \in [Ids -> Request]
<1>1. \A r \in Request : [r EXCEPT !.status = st] \in Request
                         /\ [[r EXCEPT !.status = st] EXCEPT !.amountOut = x] \in Request
  BY DEF Request
<1>2. CASE id \notin Ids
  BY <1>2
<1>3. ASSUME id \in Ids, requests' = [requests EXCEPT ![id].status = st]
      PROVE  requests' \in [Ids -> Request]
  <2>1. requests' = [requests EXCEPT ![id] = [requests[id] EXCEPT !.status = st]]
    BY <1>3
  <2> QED
    BY <1>1, <1>3, <2>1
<1>4. ASSUME id \in Ids,
             requests' = [requests EXCEPT ![id].status = st, ![id].amountOut = x]
      PROVE  requests' \in [Ids -> Request]
  <2>1. requests' = [requests EXCEPT
          ![id] = [[requests[id] EXCEPT !.status = st] EXCEPT !.amountOut = x]]
    BY <1>4
  <2>2. PICK r \in Request : r = [[requests[id] EXCEPT !.status = st] EXCEPT !.amountOut = x]
    BY <1>1, <1>4
  <2> QED
    BY <2>1, <2>2
<1> QED
  BY <1>2, <1>3, <1>4

(* lz_compose pays out of the store what the OFT minted for it.            *)
LEMMA ComposeKeeps ==
  ASSUME VaultInv, NEW p \in composing, ComposeFill(p) \/ ComposeRefund(p) \/ ComposeLate(p)
  PROVE  DeskTypes' /\ VaultIsOwed'
<1> DEFINE t == p.t
           x == ToLocal(p.sd, MirrorQuantum[Solana][t])
           u == requests[p.id].user
           k == mirrorToken[Solana][t]
           paid == Transfer(k, Store, u, x)
<1>1. /\ DeskTypes /\ TypeOK /\ VaultIsOwed /\ p \in ReturnPacket
      /\ composing \in SUBSET ReturnPacket /\ IsFiniteSet(composing)
      /\ requests \in [Ids -> Request]
  BY DEF VaultInv, DeskTypes, TypeOK, WireTypeOK, SolanaTypeOK, ReturnsAreNew
<1>2. t \in Tokens /\ p.sd \in Nat /\ p.id \in Ids
  BY <1>1 DEF ReturnPacket
<1>3. x \in Nat /\ k \in Token
  BY <1>1, <1>2, SolanaWorth, SolanaAssumption DEF TypeOK, WireTypeOK
<1>4. /\ VerifiedSettlement(p) /\ CanPay(k, Store, x)
      /\ composing' = composing \ {p}
      /\ mirrorToken' = [mirrorToken EXCEPT ![Solana][t] = Transfer(@, Store, u, x)]
      /\ UNCHANGED <<outNonce, orders, returns, backNonce, notices, noticeNonce>>
      /\ UNCHANGED <<nextRequestId, nonceIndex, feeEscrow, executed>>
      /\ UNCHANGED <<homeRelay, partners, partnerRequired, platformFee>>
  BY DEF ComposeFill, ComposeRefund, ComposeLate, LzCompose, TransferChecked, storeVars
<1>5. Becomes(t, paid)
  BY <1>1, <1>2, <1>4, SolanaAssumption DEF Becomes, TypeOK, WireTypeOK
<1>6. u \in Users
  BY <1>1, <1>2, <1>4 DEF VerifiedSettlement, Request
<1>7. /\ u \in Accounts /\ Store \in Accounts /\ u # Store
      /\ FeeVault \in Accounts \ {Store, u}
  BY <1>6, DeskAccounts
<1>8. requests' \in [Ids -> Request]
  BY <1>1, <1>3, RequestUpdated DEF ComposeFill, ComposeRefund, ComposeLate, Status
<1> HIDE DEF t, x, u, k
<1>9. paid \in Token
  BY <1>3, <1>4, <1>7, TransferType
<1>10. /\ paid.bal[Store] = k.bal[Store] - x /\ paid.bal[FeeVault] = k.bal[FeeVault]
       /\ k.bal[Store] \in Nat
  BY <1>3, <1>7, TransferMoves
<1> HIDE DEF paid
<1>11. DeskTypes'
  <2>1. mirrorToken' \in [Mirrors -> [Tokens -> Token]]
    BY <1>1, <1>2, <1>5, <1>9, BecomesTyped DEF TypeOK, WireTypeOK
  <2>2. WireTypeOK'
    BY <1>1, <1>4, <2>1 DEF TypeOK, WireTypeOK
  <2>3. SolanaTypeOK'
    BY <1>1, <1>4, <1>8 DEF TypeOK, SolanaTypeOK
  <2>4. IsFiniteSet(composing')
    BY <1>1, <1>4, FS_RemoveElement
  <2>5. OnSolana' /\ ReturnsAreNew' /\ PlatformNamed' /\ EscrowsNamed'
    BY <1>1, <1>4, <2>4 DEF DeskTypes, OnSolana, ReturnsAreNew, PlatformNamed, EscrowsNamed
  <2> QED
    BY <2>2, <2>3, <2>5 DEF DeskTypes, TypeOK
<1>12. PICK C \in SUBSET ReturnPacket : C = composing /\ IsFiniteSet(C) /\ p \in C
  BY <1>1
<1>13. \A v \in Tokens : /\ QueuedIn(C \ {p}, v) \in Nat /\ PaysOut(p, v) \in Nat
                         /\ QueuedIn(C, v) = PaysOut(p, v) + QueuedIn(C \ {p}, v)
  BY <1>12, QueueDrops
<1>14. PaysOut(p, t) = x /\ \A v \in Tokens \ {t} : PaysOut(p, v) = 0
  BY DEF PaysOut, t, x
<1>15. OwedElsewhere(t)
  <2> SUFFICES ASSUME NEW v \in Tokens \ {t}
               PROVE  /\ HeldIn(feeEscrow', v) = HeldIn(feeEscrow, v)
                      /\ QueuedIn(composing', v) = QueuedIn(composing, v)
    BY DEF OwedElsewhere
  <2>1. QueuedIn(C, v) = 0 + QueuedIn(C \ {p}, v) /\ QueuedIn(C \ {p}, v) \in Nat
    BY <1>13, <1>14
  <2>2. QueuedIn(composing', v) = QueuedIn(C \ {p}, v)
    BY <1>4, <1>12
  <2> QED
    BY <1>4, <1>12, <2>1, <2>2
<1>16. /\ k.bal[FeeVault] = HeldIn(feeEscrow, t)
       /\ k.bal[Store] = QueuedIn(composing, t)
  BY <1>1, <1>2, OwedInSums DEF k
<1>17. paid.bal[FeeVault] = HeldIn(feeEscrow', t)
  BY <1>4, <1>10, <1>16
<1>18. paid.bal[Store] = QueuedIn(composing', t)
  <2>1. QueuedIn(C, t) = x + QueuedIn(C \ {p}, t) /\ QueuedIn(C \ {p}, t) \in Nat
    BY <1>2, <1>13, <1>14
  <2>2. k.bal[Store] - x = QueuedIn(C \ {p}, t)
    BY <1>3, <1>12, <1>16, <2>1
  <2> QED
    BY <1>4, <1>10, <1>12, <2>2
<1>19. VaultIsOwed'
  BY <1>1, <1>2, <1>5, <1>9, <1>15, <1>17, <1>18, OwedMoves
<1> QED
  BY <1>11, <1>19

(* The OFT mints to the store what it hands over for lz_compose.           *)
LEMMA ReceiveReturnKeeps ==
  ASSUME VaultInv, NEW p \in returns, ReceiveReturn(p), UNCHANGED solanaVars
  PROVE  DeskTypes' /\ VaultIsOwed'
<1> DEFINE t == p.t
           x == ToLocal(p.sd, MirrorQuantum[Solana][t])
           k == mirrorToken[Solana][t]
           more == Mint(k, Store, x)
<1>1. /\ DeskTypes /\ TypeOK /\ VaultIsOwed /\ p \in ReturnPacket
      /\ composing \in SUBSET ReturnPacket /\ IsFiniteSet(composing)
      /\ returns \in SUBSET ReturnPacket
      /\ returns \cap composing = {}
      /\ p.m = Solana
  BY DEF VaultInv, DeskTypes, TypeOK, WireTypeOK, SolanaTypeOK, ReturnsAreNew, OnSolana
<1>2. t \in Tokens /\ p.sd \in Nat
  BY <1>1 DEF ReturnPacket
<1>3. x \in Nat /\ k \in Token
  BY <1>1, <1>2, SolanaWorth, SolanaAssumption DEF TypeOK, WireTypeOK
<1>4. /\ returns' = returns \ {p} /\ composing' = composing \cup {p}
      /\ mirrorToken' = [mirrorToken EXCEPT ![Solana][t] = Mint(@, Store, x)]
      /\ UNCHANGED <<outNonce, orders, backNonce, notices, noticeNonce>>
  BY <1>1 DEF ReceiveReturn, Store
<1>5. Becomes(t, more)
  BY <1>1, <1>2, <1>4, SolanaAssumption DEF Becomes, TypeOK, WireTypeOK
<1>6. /\ UNCHANGED <<nextRequestId, requests, nonceIndex, feeEscrow, executed>>
      /\ UNCHANGED <<homeRelay, partners, partnerRequired, platformFee>>
  BY DEF solanaVars, storeVars
<1> HIDE DEF t, x, k
<1>7. more \in Token
  BY <1>3, MintType
<1>8. more.bal[Store] = k.bal[Store] + x /\ more.bal[FeeVault] = k.bal[FeeVault]
  <2>1. Store \in Accounts /\ FeeVault \in Accounts \ {Store}
    BY DeskAccounts
  <2> QED
    BY <1>3, <2>1, MintMoves
<1> HIDE DEF more
<1>9. DeskTypes'
  <2>1. mirrorToken' \in [Mirrors -> [Tokens -> Token]]
    BY <1>1, <1>2, <1>5, <1>7, BecomesTyped DEF TypeOK, WireTypeOK
  <2>2. WireTypeOK'
    BY <1>1, <1>4, <2>1 DEF TypeOK, WireTypeOK
  <2>3. SolanaTypeOK'
    BY <1>1, <1>6 DEF TypeOK, SolanaTypeOK
  <2>4. IsFiniteSet(composing')
    BY <1>1, <1>4, FS_AddElement
  <2>5. OnSolana' /\ ReturnsAreNew' /\ PlatformNamed' /\ EscrowsNamed'
    BY <1>1, <1>4, <1>6, <2>4
    DEF DeskTypes, OnSolana, ReturnsAreNew, PlatformNamed, EscrowsNamed
  <2> QED
    BY <2>2, <2>3, <2>5 DEF DeskTypes, TypeOK
<1>10. PICK C \in SUBSET ReturnPacket : C = composing /\ IsFiniteSet(C) /\ p \notin C
  BY <1>1
<1>11. \A v \in Tokens : /\ QueuedIn(C, v) \in Nat /\ PaysOut(p, v) \in Nat
                         /\ QueuedIn(C \cup {p}, v) = QueuedIn(C, v) + PaysOut(p, v)
  BY <1>1, <1>10, QueueGrows
<1>12. PaysOut(p, t) = x /\ \A v \in Tokens \ {t} : PaysOut(p, v) = 0
  BY DEF PaysOut, t, x
<1>13. OwedElsewhere(t)
  <2> SUFFICES ASSUME NEW v \in Tokens \ {t}
               PROVE  /\ HeldIn(feeEscrow', v) = HeldIn(feeEscrow, v)
                      /\ QueuedIn(composing', v) = QueuedIn(composing, v)
    BY DEF OwedElsewhere
  <2>1. QueuedIn(C \cup {p}, v) = QueuedIn(C, v) + 0 /\ QueuedIn(C, v) \in Nat
    BY <1>11, <1>12
  <2>2. QueuedIn(composing', v) = QueuedIn(C \cup {p}, v)
    BY <1>4, <1>10
  <2> QED
    BY <1>6, <1>10, <2>1, <2>2
<1>14. /\ k.bal[FeeVault] = HeldIn(feeEscrow, t)
       /\ k.bal[Store] = QueuedIn(composing, t)
  BY <1>1, <1>2, OwedInSums DEF k
<1>15. more.bal[FeeVault] = HeldIn(feeEscrow', t)
  BY <1>6, <1>8, <1>14
<1>16. more.bal[Store] = QueuedIn(composing', t)
  BY <1>2, <1>4, <1>8, <1>10, <1>11, <1>12, <1>14
<1>17. VaultIsOwed'
  BY <1>1, <1>2, <1>5, <1>7, <1>13, <1>15, <1>16, OwedMoves
<1> QED
  BY <1>9, <1>17

(* Others' balances may change without anything being owed.                *)
LEMMA OwedKept ==
  ASSUME TypeOK, VaultIsOwed, NEW t \in Tokens, NEW k \in Token, Becomes(t, k),
         k.bal[FeeVault] = mirrorToken[Solana][t].bal[FeeVault],
         k.bal[Store] = mirrorToken[Solana][t].bal[Store],
         UNCHANGED <<feeEscrow, composing>>
  PROVE  VaultIsOwed'
<1>1. /\ k.bal[FeeVault] = HeldIn(feeEscrow', t)
      /\ k.bal[Store] = QueuedIn(composing', t)
  BY OwedInSums
<1>2. OwedElsewhere(t)
  BY DEF OwedElsewhere
<1> QED
  BY <1>1, <1>2, OwedMoves

(* And so may everything else.                                             *)
LEMMA OwedAsBefore ==
  ASSUME VaultIsOwed, UNCHANGED <<mirrorToken, feeEscrow, composing>>
  PROVE  VaultIsOwed'
BY DEF VaultIsOwed, Escrowed, Arrived

(* A user bridges what is theirs.                                          *)
LEMMA DirectSendKeeps ==
  ASSUME VaultInv, NEW t \in Tokens, NEW u \in Users, NEW sd \in DirectAmounts,
         DirectSend(Solana, t, u, sd), UNCHANGED solanaVars
  PROVE  DeskTypes' /\ VaultIsOwed'
<1> DEFINE x == ToLocal(sd, MirrorQuantum[Solana][t])
           k == mirrorToken[Solana][t]
           less == Burn(k, u, x)
<1>1. DeskTypes /\ TypeOK /\ VaultIsOwed /\ sd \in Nat
  BY WireAssumption DEF VaultInv, DeskTypes
<1>2. x \in Nat /\ k \in Token
  BY <1>1, SolanaWorth, SolanaAssumption DEF TypeOK, WireTypeOK
<1>3. /\ CanPay(k, u, x)
      /\ mirrorToken' = [mirrorToken EXCEPT ![Solana][t] = Burn(@, u, x)]
      /\ SendOrder(Solana, t, 0, u, sd, 0)
      /\ UNCHANGED <<returns, backNonce, composing, notices, noticeNonce>>
  BY DEF DirectSend
<1>4. Becomes(t, less)
  BY <1>1, <1>3, SolanaAssumption DEF Becomes, TypeOK, WireTypeOK
<1>5. /\ UNCHANGED <<nextRequestId, requests, nonceIndex, feeEscrow, executed>>
      /\ UNCHANGED <<homeRelay, partners, partnerRequired, platformFee>>
  BY DEF solanaVars, storeVars
<1>6. u \in Accounts /\ Store \in Accounts \ {u} /\ FeeVault \in Accounts \ {u}
  BY DeskAccounts
<1> HIDE DEF x, k
<1>7. less \in Token
  BY <1>2, <1>3, <1>6, BurnType
<1>8. less.bal[Store] = k.bal[Store] /\ less.bal[FeeVault] = k.bal[FeeVault]
  BY <1>2, <1>6, BurnMoves
<1> HIDE DEF less
<1>9. DeskTypes'
  <2>1. mirrorToken' \in [Mirrors -> [Tokens -> Token]]
    BY <1>1, <1>4, <1>7, BecomesTyped DEF TypeOK, WireTypeOK
  <2>2. /\ outNonce' \in [Mirrors -> [Tokens -> Nat]]
        /\ orders' \subseteq OrderPacket
        /\ \A p \in orders' : p.m = Solana
    BY <1>1, <1>3, SendOrderKeeps
  <2>3. WireTypeOK'
    BY <1>1, <1>3, <2>1, <2>2 DEF TypeOK, WireTypeOK
  <2>4. SolanaTypeOK'
    BY <1>1, <1>5 DEF TypeOK, SolanaTypeOK
  <2>5. OnSolana' /\ ReturnsAreNew' /\ PlatformNamed' /\ EscrowsNamed'
    BY <1>1, <1>3, <1>5, <2>2
    DEF DeskTypes, OnSolana, ReturnsAreNew, PlatformNamed, EscrowsNamed
  <2> QED
    BY <2>3, <2>4, <2>5 DEF DeskTypes, TypeOK
<1>10. VaultIsOwed'
  BY <1>1, <1>3, <1>4, <1>5, <1>7, <1>8, OwedKept DEF k
<1> QED
  BY <1>9, <1>10

(* A notice is heard: what a cancellation restores is the user's.          *)
LEMMA NoticeKeeps ==
  ASSUME VaultInv, NEW n \in notices, NEW id \in Ids,
         NoticeStranded(n, id) \/ NoticeCancelled(n, id) \/ NoticeLate(n, id)
  PROVE  DeskTypes' /\ VaultIsOwed'
<1>1. /\ DeskTypes /\ TypeOK /\ VaultIsOwed /\ n \in Notice
      /\ requests \in [Ids -> Request]
      /\ mirrorToken \in [Mirrors -> [Tokens -> Token]]
  BY DEF VaultInv, DeskTypes, TypeOK, WireTypeOK, SolanaTypeOK
<1>2. /\ notices' = notices \ {n}
      /\ UNCHANGED <<outNonce, orders, returns, backNonce, composing, noticeNonce>>
      /\ UNCHANGED <<nextRequestId, nonceIndex, feeEscrow, executed>>
      /\ UNCHANGED <<homeRelay, partners, partnerRequired, platformFee>>
  BY DEF NoticeStranded, NoticeCancelled, NoticeLate, LzReceive, storeVars
<1>3. requests' \in [Ids -> Request]
  BY <1>1, RequestUpdated DEF NoticeStranded, NoticeCancelled, NoticeLate, Status
<1>4. mirrorToken' \in [Mirrors -> [Tokens -> Token]] /\ VaultIsOwed'
  <2>1. CASE mirrorToken' = mirrorToken
    BY <1>1, <1>2, <2>1, OwedAsBefore
  <2>2. CASE NoticeCancelled(n, id)
    <3> DEFINE t == n.t
               u == requests[id].user
               x == requests[id].amountIn
               k == mirrorToken[Solana][t]
               more == Mint(k, u, x)
    <3>1. t \in Tokens /\ k \in Token /\ x \in Nat
      BY <1>1, SolanaAssumption DEF Notice, Request
    <3>2. Becomes(t, more)
      BY <1>1, <2>2, <3>1, SolanaAssumption DEF NoticeCancelled, RecoveryCredit, Becomes
    <3>3. u \in Users
      <4>1. PICK e \in nonceIndex : e.id = id /\ requests[e.id].user = e.user
        BY <2>2 DEF NoticeCancelled, LzReceive, Named, Cancelled
      <4> QED
        BY <1>1, <4>1 DEF TypeOK, SolanaTypeOK, NonceIndex
    <3>4. u \in Accounts /\ Store \in Accounts \ {u} /\ FeeVault \in Accounts \ {u}
      BY <3>3, DeskAccounts
    <3> HIDE DEF t, u, x, k
    <3>5. more \in Token
      BY <3>1, MintType
    <3>6. more.bal[Store] = k.bal[Store] /\ more.bal[FeeVault] = k.bal[FeeVault]
      BY <3>1, <3>4, MintMoves
    <3> HIDE DEF more
    <3>7. mirrorToken' \in [Mirrors -> [Tokens -> Token]]
      BY <1>1, <3>1, <3>2, <3>5, BecomesTyped
    <3>8. VaultIsOwed'
      BY <1>1, <1>2, <3>1, <3>2, <3>5, <3>6, OwedKept DEF k
    <3> QED
      BY <3>7, <3>8
  <2> QED
    BY <2>1, <2>2 DEF NoticeStranded, NoticeLate
<1>5. WireTypeOK'
  BY <1>1, <1>2, <1>4 DEF TypeOK, WireTypeOK
<1>6. SolanaTypeOK'
  BY <1>1, <1>2, <1>3 DEF TypeOK, SolanaTypeOK
<1>7. OnSolana' /\ ReturnsAreNew' /\ PlatformNamed' /\ EscrowsNamed'
  BY <1>1, <1>2 DEF DeskTypes, OnSolana, ReturnsAreNew, PlatformNamed, EscrowsNamed
<1> QED
  BY <1>4, <1>5, <1>6, <1>7 DEF DeskTypes, TypeOK

-----------------------------------------------------------------------------
(* Fees are paid, terms change, the home chain answers.                    *)

(* settle_fees takes one order's fees out of the vault.                    *)
LEMMA SettleFeesKeeps ==
  ASSUME RecipientsApart, VaultInv, NEW i \in Ids, SettleFees(i)
  PROVE  DeskTypes' /\ VaultIsOwed'
<1> DEFINE f == feeEscrow[i]
           g == feeEscrow'[i]
           t == f.mint
           k == mirrorToken[Solana][t]
           paid == FeesPaid(i)
<1>1. /\ DeskTypes /\ TypeOK /\ VaultIsOwed /\ EscrowsNamed
      /\ feeEscrow \in [Ids -> FeeEscrow] /\ f \in FeeEscrow
      /\ mirrorToken \in [Mirrors -> [Tokens -> Token]]
  BY DEF VaultInv, DeskTypes, TypeOK, WireTypeOK, SolanaTypeOK
<1>2. t \in Tokens /\ k \in Token
  BY <1>1, SolanaAssumption DEF FeeEscrow
<1>3. /\ f.state = "ESCROWED" /\ CanPay(k, FeeVault, EscrowTotal(f))
      /\ mirrorToken' = [mirrorToken EXCEPT ![Solana][t] = paid]
      /\ feeEscrow' = [feeEscrow EXCEPT ![i].state = Settled(i)]
  BY DEF SettleFees, Releasable
<1>4. /\ UNCHANGED <<outNonce, orders, returns, backNonce, composing, notices, noticeNonce>>
      /\ UNCHANGED <<nextRequestId, requests, nonceIndex, executed>>
      /\ UNCHANGED <<homeRelay, partners, partnerRequired, platformFee>>
  BY DEF SettleFees, storeVars
<1>5. Becomes(t, paid)
  BY <1>3 DEF Becomes
<1>6. PICK h \in FeeEscrow : h = [f EXCEPT !.state = Settled(i)] /\ h.state # "ESCROWED"
  <2>1. PICK st \in {"RETURNED", "PAID"} : st = Settled(i)
    BY DEF Settled
  <2>2. [f EXCEPT !.state = st] \in FeeEscrow /\ [f EXCEPT !.state = st].state = st
    BY <1>1 DEF FeeEscrow
  <2> HIDE DEF f
  <2> QED
    BY <2>1, <2>2
<1>7. feeEscrow' = [feeEscrow EXCEPT ![i] = h]
  BY <1>1, <1>3, <1>6
<1>8. /\ feeEscrow' \in [Ids -> FeeEscrow] /\ g = h
      /\ \A j \in Ids \ {i} : feeEscrow'[j] = feeEscrow[j]
  BY <1>1, <1>7
<1>9. /\ paid \in Token
      /\ paid.bal[FeeVault] = k.bal[FeeVault] - EscrowTotal(f)
      /\ paid.bal[Store] = k.bal[Store]
  <2>1. /\ paid \in Token
        /\ paid.bal[FeeVault] = k.bal[FeeVault] - EscrowTotal(f)
        /\ \A c \in Accounts \ {FeeVault} : paid.bal[c] = k.bal[c] + DueTo(c, i)
    BY <1>1, <1>2, <1>3, FeesPaidMoves
  <2>2. Store \in Accounts \ {FeeVault} /\ k.bal[Store] \in Nat
    BY <1>2, DeskAccounts DEF Token
  <2>3. DueTo(Store, i) = 0
    <3>1. /\ f.user # Store /\ f.partnerRecipient # Store
          /\ f.platformFee > 0 => f.platformRecipient # Store
          /\ f.platformFee \in Nat
      BY <1>1, <1>3, DeskAccounts DEF EscrowsNamed, RecipientsApart, FeeEscrow
    <3>2. f.platformRecipient = Store => f.platformFee = 0
      BY <3>1
    <3> HIDE DEF f
    <3> QED
      BY <3>1, <3>2 DEF DueTo, f
  <2> QED
    BY <2>1, <2>2, <2>3
<1> HIDE DEF f, g, t, k, paid
<1>10. DeskTypes'
  <2>1. mirrorToken' \in [Mirrors -> [Tokens -> Token]]
    BY <1>1, <1>2, <1>5, <1>9, BecomesTyped
  <2>2. WireTypeOK'
    BY <1>1, <1>4, <2>1 DEF TypeOK, WireTypeOK
  <2>3. SolanaTypeOK'
    BY <1>1, <1>4, <1>8 DEF TypeOK, SolanaTypeOK
  <2>4. EscrowsNamed'
    <3> SUFFICES ASSUME NEW j \in Ids, feeEscrow'[j].state = "ESCROWED"
                 PROVE  /\ feeEscrow'[j].user \in Users
                        /\ feeEscrow'[j].partnerRecipient \in Recipients
                        /\ feeEscrow'[j].platformFee > 0 =>
                             feeEscrow'[j].platformRecipient \in Recipients
      BY DEF EscrowsNamed
    <3>1. feeEscrow'[j] = feeEscrow[j]
      BY <1>6, <1>8 DEF g
    <3> QED
      BY <1>1, <3>1 DEF EscrowsNamed
  <2>5. OnSolana' /\ ReturnsAreNew' /\ PlatformNamed'
    BY <1>1, <1>4 DEF DeskTypes, OnSolana, ReturnsAreNew, PlatformNamed
  <2> QED
    BY <2>2, <2>3, <2>4, <2>5 DEF DeskTypes, TypeOK
<1>11. \A v \in Tokens :
         /\ HeldIn(feeEscrow, v) \in Nat
         /\ HeldIn(feeEscrow', v) = HeldIn(feeEscrow, v) - HeldFor(f, v)
  <2> TAKE v \in Tokens
  <2>1. PICK E, F \in [Ids -> FeeEscrow] :
          /\ E = feeEscrow /\ F = feeEscrow' /\ E[i] = f /\ F[i] = h
          /\ DifferAt(E, F, i)
    BY <1>1, <1>8 DEF DifferAt, f, g
  <2>2. /\ HeldIn(E, v) \in Nat /\ HeldFor(E[i], v) \in Nat /\ HeldFor(F[i], v) \in Nat
        /\ HeldIn(F, v) = HeldIn(E, v) - HeldFor(E[i], v) + HeldFor(F[i], v)
    BY <2>1, HeldChanges
  <2>3. HeldFor(F[i], v) = 0
    BY <1>6, <2>1 DEF HeldFor
  <2> QED
    BY <2>1, <2>2, <2>3
<1>12. HeldFor(f, t) = EscrowTotal(f) /\ \A v \in Tokens \ {t} : HeldFor(f, v) = 0
  BY <1>3 DEF HeldFor, t
<1>13. OwedElsewhere(t)
  <2> SUFFICES ASSUME NEW v \in Tokens \ {t}
               PROVE  /\ HeldIn(feeEscrow', v) = HeldIn(feeEscrow, v)
                      /\ QueuedIn(composing', v) = QueuedIn(composing, v)
    BY DEF OwedElsewhere
  <2>1. HeldIn(feeEscrow', v) = HeldIn(feeEscrow, v) - 0 /\ HeldIn(feeEscrow, v) \in Nat
    BY <1>11, <1>12
  <2> QED
    BY <1>4, <2>1
<1>14. /\ k.bal[FeeVault] = HeldIn(feeEscrow, t)
       /\ k.bal[Store] = QueuedIn(composing, t)
  BY <1>1, <1>2, OwedInSums DEF k
<1>15. paid.bal[FeeVault] = HeldIn(feeEscrow', t)
  BY <1>2, <1>9, <1>11, <1>12, <1>14
<1>16. paid.bal[Store] = QueuedIn(composing', t)
  BY <1>4, <1>9, <1>14
<1>17. VaultIsOwed'
  BY <1>1, <1>2, <1>5, <1>9, <1>13, <1>15, <1>16, OwedMoves
<1> QED
  BY <1>10, <1>17

(* The admin's calls move no tokens.                                       *)
LEMMA AdministeringKeeps ==
  ASSUME VaultInv, Administering
  PROVE  DeskTypes' /\ VaultIsOwed'
<1>1. /\ DeskTypes /\ TypeOK /\ VaultIsOwed
      /\ partners \in [PartnerIds -> SUBSET PartnerType] /\ partnerRequired \in BOOLEAN
      /\ platformFee \in PlatformType /\ homeRelay \in BOOLEAN
  BY DEF VaultInv, DeskTypes, TypeOK, SolanaTypeOK
<1>2. /\ UNCHANGED <<mirrorToken, outNonce, orders, returns, backNonce, composing,
                     notices, noticeNonce>>
      /\ UNCHANGED <<nextRequestId, requests, nonceIndex, feeEscrow, executed>>
  BY DEF Administering, SetHomeRelay, RegisterPartner, UpdatePartner, WritePartner,
         SetPartnerRequired, SetPlatformFee, RestOfDesk, wireVars
<1>3. /\ partners' \in [PartnerIds -> SUBSET PartnerType] /\ partnerRequired' \in BOOLEAN
      /\ platformFee' \in PlatformType /\ homeRelay' \in BOOLEAN
      /\ platformFee' # platformFee =>
           (platformFee'.bps > 0 => platformFee'.recipient \in Recipients)
  <2>1. ASSUME NEW wired \in RelayWired, SetHomeRelay(wired)
        PROVE  /\ homeRelay' \in BOOLEAN
               /\ UNCHANGED <<partners, partnerRequired, platformFee>>
    BY <2>1, SolanaAssumption DEF SetHomeRelay
  <2>2. ASSUME NEW j \in PartnerIds, NEW terms \in PartnerTerms,
               RegisterPartner(j, terms) \/ UpdatePartner(j, terms)
        PROVE  /\ partners' \in [PartnerIds -> SUBSET PartnerType]
               /\ UNCHANGED <<homeRelay, partnerRequired, platformFee>>
    <3>1. partners' = [partners EXCEPT ![j] = {terms}]
      BY <2>2 DEF RegisterPartner, UpdatePartner, WritePartner
    <3>2. {terms} \in SUBSET PartnerType
      BY SolanaAssumption
    <3> QED
      BY <1>1, <2>2, <3>1, <3>2 DEF RegisterPartner, UpdatePartner, WritePartner
  <2>3. ASSUME NEW required \in PartnerOnly, SetPartnerRequired(required)
        PROVE  /\ partnerRequired' \in BOOLEAN
               /\ UNCHANGED <<homeRelay, partners, platformFee>>
    BY <2>3, SolanaAssumption DEF SetPartnerRequired
  <2>4. ASSUME NEW terms \in PlatformTerms, SetPlatformFee(terms)
        PROVE  /\ platformFee' \in PlatformType
               /\ platformFee'.bps > 0 => platformFee'.recipient \in Recipients
               /\ UNCHANGED <<homeRelay, partners, partnerRequired>>
    BY <2>4, SolanaAssumption DEF SetPlatformFee, PlatformType
  <2> QED
    BY <1>1, <2>1, <2>2, <2>3, <2>4 DEF Administering
<1>4. WireTypeOK'
  BY <1>1, <1>2 DEF TypeOK, WireTypeOK
<1>5. SolanaTypeOK'
  BY <1>1, <1>2, <1>3 DEF TypeOK, SolanaTypeOK
<1>6. OnSolana' /\ ReturnsAreNew' /\ EscrowsNamed'
  BY <1>1, <1>2 DEF DeskTypes, OnSolana, ReturnsAreNew, EscrowsNamed
<1>7. PlatformNamed'
  BY <1>1, <1>3 DEF DeskTypes, PlatformNamed
<1>8. VaultIsOwed'
  BY <1>1, <1>2, OwedAsBefore
<1> QED
  BY <1>4, <1>5, <1>6, <1>7, <1>8 DEF DeskTypes, TypeOK

(* The home chain answers: what comes back has a nonce of its own.         *)
LEMMA HomeKeeps ==
  ASSUME VaultInv, HomeAnswers, UNCHANGED solanaVars
  PROVE  DeskTypes' /\ VaultIsOwed'
<1>1. /\ DeskTypes /\ TypeOK /\ VaultIsOwed
      /\ orders \subseteq OrderPacket /\ returns \subseteq ReturnPacket
      /\ notices \subseteq Notice /\ noticeNonce \in [Mirrors -> Nat]
      /\ backNonce \in [Mirrors -> [Tokens -> Nat]]
  BY DEF VaultInv, DeskTypes, TypeOK, WireTypeOK
<1>2. /\ UNCHANGED <<nextRequestId, requests, nonceIndex, feeEscrow, executed>>
      /\ UNCHANGED <<homeRelay, partners, partnerRequired, platformFee>>
  BY DEF solanaVars, storeVars
<1>3. PICK p \in orders :
        \/ \E t \in Tokens, sd \in Outputs \cup {p.sd}, status \in {"FILLED", "REFUNDED"} :
             Answer(p, t, sd, status)
        \/ Hold(p)
        \/ Kill(p)
        \/ Consume(p)
  BY DEF HomeAnswers
<1>4. /\ p.m \in Mirrors /\ p.m = Solana /\ p.t \in Tokens /\ p.id \in Ids \cup {0}
      /\ p.sd \in Nat /\ p.nonce \in Nat
  BY <1>1, <1>3 DEF OrderPacket, DeskTypes, OnSolana
<1>5. UNCHANGED <<mirrorToken, outNonce, composing>> /\ orders' \subseteq orders
  BY <1>3 DEF Answer, Hold, Kill, Consume
<1>6. /\ returns' \subseteq ReturnPacket
      /\ backNonce' \in [Mirrors -> [Tokens -> Nat]]
      /\ (\A q \in returns' : q.m = Solana) /\ ReturnsAreNew'
  <2>1. CASE UNCHANGED <<backNonce, returns>>
    BY <1>1, <1>5, <2>1 DEF DeskTypes, OnSolana, ReturnsAreNew
  <2>2. ASSUME NEW t \in Tokens, NEW sd \in Outputs \cup {p.sd},
               NEW status \in {"FILLED", "REFUNDED"}, Answer(p, t, sd, status)
        PROVE  /\ returns' \subseteq ReturnPacket
               /\ backNonce' \in [Mirrors -> [Tokens -> Nat]]
               /\ (\A q \in returns' : q.m = Solana) /\ ReturnsAreNew'
    <3>1. sd \in Nat /\ p.id \in Ids
      BY <1>4, <2>2, PromiseAssumption DEF Answer
    <3>2. PICK n \in Nat : n = backNonce[p.m][t] + 1
      BY <1>1, <1>4
    <3>3. PICK q \in ReturnPacket :
            q = [m |-> p.m, t |-> t, nonce |-> n, id |-> p.id, sd |-> sd, status |-> status]
      BY <1>4, <3>1 DEF ReturnPacket
    <3>4. backNonce' = [backNonce EXCEPT ![p.m][t] = n] /\ returns' = returns \cup {q}
      BY <1>1, <1>4, <2>2, <3>2, <3>3 DEF Answer, SendReturn
    <3>5. q.m = p.m /\ q.t = t /\ q.nonce = n
      BY <3>3
    <3>6. backNonce' \in [Mirrors -> [Tokens -> Nat]] /\ backNonce'[p.m][t] = n
          /\ \A m \in Mirrors, v \in Tokens : backNonce[m][v] <= backNonce'[m][v]
      BY <1>1, <1>4, <3>2, <3>4
    <3>7. /\ IsFiniteSet(composing) /\ returns \cap composing = {}
          /\ \A r \in returns \cup composing :
               r.m \in Mirrors /\ r.t \in Tokens /\ r.nonce \in Nat
               /\ r.nonce <= backNonce[r.m][r.t]
      BY <1>1 DEF DeskTypes, TypeOK, WireTypeOK, ReturnsAreNew, ReturnPacket
    <3>8. q \notin composing
      <4> SUFFICES ASSUME q \in composing PROVE FALSE
        OBVIOUS
      <4>1. n <= backNonce[p.m][t] /\ backNonce[p.m][t] \in Nat
        BY <1>1, <1>4, <3>5, <3>7
      <4> QED
        BY <3>2, <4>1
    <3>9. \A r \in returns' \cup composing' : r.nonce <= backNonce'[r.m][r.t]
      <4> TAKE r \in returns' \cup composing'
      <4>1. CASE r = q
        BY <3>5, <3>6, <4>1
      <4>2. CASE r # q
        <5>1. /\ r.m \in Mirrors /\ r.t \in Tokens /\ r.nonce \in Nat
              /\ r.nonce <= backNonce[r.m][r.t]
          BY <1>5, <3>4, <3>7, <4>2
        <5>2. /\ backNonce[r.m][r.t] <= backNonce'[r.m][r.t]
              /\ backNonce[r.m][r.t] \in Nat /\ backNonce'[r.m][r.t] \in Nat
          BY <1>1, <3>6, <5>1
        <5> QED
          BY <5>1, <5>2
      <4> QED
        BY <4>1, <4>2
    <3>10. ReturnsAreNew'
      BY <1>5, <3>4, <3>7, <3>8, <3>9 DEF ReturnsAreNew
    <3> QED
      BY <1>1, <1>4, <3>4, <3>5, <3>6, <3>10 DEF DeskTypes, OnSolana
  <2> QED
    BY <1>3, <2>1, <2>2 DEF Hold, Kill, Consume
<1>7. notices' \subseteq Notice /\ noticeNonce' \in [Mirrors -> Nat]
  <2>1. ASSUME NEW status \in {"STRANDED", "CANCELLED"}, NEW id \in Ids \cup {0},
               NEW t \in Tokens, NEW lzNonce \in Nat,
               SendNotice(p.m, status, id, t, lzNonce)
        PROVE  notices' \subseteq Notice /\ noticeNonce' \in [Mirrors -> Nat]
    <3>1. noticeNonce[p.m] + 1 \in Nat
      BY <1>1, <1>4
    <3>2. [m |-> p.m, nonce |-> noticeNonce[p.m] + 1, status |-> status, id |-> id,
           t |-> t, lzNonce |-> lzNonce] \in Notice
      BY <1>4, <3>1 DEF Notice
    <3> QED
      BY <1>1, <1>4, <2>1, <3>1, <3>2 DEF SendNotice
  <2>2. CASE Hold(p)
    BY <1>4, <2>1, <2>2 DEF Hold, Tokens
  <2>3. CASE Kill(p)
    BY <1>4, <2>1, <2>3 DEF Kill
  <2> QED
    BY <1>1, <1>3, <2>2, <2>3 DEF Answer, Consume
<1>8. WireTypeOK'
  BY <1>1, <1>5, <1>6, <1>7 DEF TypeOK, WireTypeOK
<1>9. SolanaTypeOK'
  BY <1>1, <1>2 DEF TypeOK, SolanaTypeOK
<1>10. OnSolana' /\ PlatformNamed' /\ EscrowsNamed'
  BY <1>1, <1>2, <1>5, <1>6 DEF DeskTypes, OnSolana, PlatformNamed, EscrowsNamed
<1>11. VaultIsOwed'
  BY <1>1, <1>2, <1>5, OwedAsBefore
<1> QED
  BY <1>6, <1>8, <1>9, <1>10, <1>11 DEF DeskTypes, TypeOK

-----------------------------------------------------------------------------
(* Nothing is held at the start.                                           *)
LEMMA VaultInvInit == Init => VaultInv
<1> SUFFICES ASSUME Init PROVE VaultInv
  OBVIOUS
<1>1. DeskInv
  BY DeskInvInit
<1>2. mirrorToken \in [Mirrors -> [Tokens -> Token]]
      /\ \A t \in Tokens : /\ mirrorToken[Solana][t].bal[FeeVault] = 0
                           /\ mirrorToken[Solana][t].bal[Store] = 0
  <2> DEFINE float(m, t) == ToLocal(MirrorFloat[t], MirrorQuantum[m][t])
             asset(m, t) ==
               [bal |-> [a \in Accounts |-> IF a \in Users THEN float(m, t) ELSE 0],
                out |-> 0, in |-> Cardinality(Users) * float(m, t)]
  <2>1. Cardinality(Users) \in Nat
    BY WireAssumption, FS_CardinalityType
  <2>2. ASSUME NEW m \in Mirrors, NEW t \in Tokens
        PROVE  /\ asset(m, t) \in Token
               /\ asset(m, t).bal[FeeVault] = 0 /\ asset(m, t).bal[Store] = 0
    <3>1. MirrorFloat[t] \in Nat /\ MirrorQuantum[m][t] \in Nat \ {0}
      BY WireAssumption
    <3>2. float(m, t) \in Nat
      BY <3>1, AmountTypes
    <3> HIDE DEF float
    <3>3. Cardinality(Users) * float(m, t) \in Nat
      BY <2>1, <3>2, ProductNat
    <3>4. asset(m, t) \in Token
      BY <3>2, <3>3 DEF Token
    <3> QED
      BY <3>4, DeskAccounts
  <2>3. mirrorToken = [m \in Mirrors |-> [t \in Tokens |-> asset(m, t)]]
    BY DEF Init, WireInit
  <2> HIDE DEF asset
  <2>4. \A t \in Tokens : mirrorToken[Solana][t] = asset(Solana, t)
    BY <2>3, SolanaAssumption
  <2>5. mirrorToken \in [Mirrors -> [Tokens -> Token]]
    BY <2>2, <2>3
  <2> QED
    BY <2>2, <2>4, <2>5, SolanaAssumption
<1>3. composing = {} /\ \A i \in Ids : feeEscrow[i] = NoEscrow
  BY DEF Init, WireInit, SolanaInit
<1>4. WireTypeOK
  BY <1>2 DEF Init, WireInit, WireTypeOK
<1>5. SolanaTypeOK
  <2>1. NoRequest \in Request
    BY DEF NoRequest, Request, Direction, Status
  <2>2. NoEscrow \in FeeEscrow
    BY DEF NoEscrow, FeeEscrow, Tokens
  <2>3. /\ requests = [i \in Ids |-> NoRequest] /\ feeEscrow = [i \in Ids |-> NoEscrow]
        /\ partners = [k \in PartnerIds |-> {}] /\ platformFee = [bps |-> 0, recipient |-> NoUser]
        /\ homeRelay = FALSE /\ partnerRequired = FALSE
        /\ nextRequestId = 1 /\ nonceIndex = {} /\ executed = {}
    BY DEF Init, SolanaInit
  <2>4. requests \in [Ids -> Request] /\ feeEscrow \in [Ids -> FeeEscrow]
    BY <2>1, <2>2, <2>3
  <2>5. partners \in [PartnerIds -> SUBSET PartnerType] /\ platformFee \in PlatformType
    BY <2>3 DEF PlatformType
  <2>6. homeRelay \in BOOLEAN /\ partnerRequired \in BOOLEAN
    BY <2>3
  <2>7. nextRequestId \in Nat \ {0} /\ nonceIndex \subseteq NonceIndex /\ executed \subseteq Nat
    BY <2>3
  <2> QED
    BY <2>4, <2>5, <2>6, <2>7 DEF SolanaTypeOK
<1>6. OnSolana /\ ReturnsAreNew /\ PlatformNamed /\ EscrowsNamed
  BY <1>3, FS_EmptySet
  DEF Init, WireInit, SolanaInit, OnSolana, ReturnsAreNew, PlatformNamed, EscrowsNamed, NoEscrow
<1>7. \A t \in Tokens : HeldIn(feeEscrow, t) = 0 /\ QueuedIn(composing, t) = 0
  <2> TAKE t \in Tokens
  <2> DEFINE e == [i \in Ids |-> HeldFor(feeEscrow[i], t)]
             g == [p \in composing |-> PaysOut(p, t)]
  <2>1. \A i \in Ids : e[i] = 0
    BY <1>3 DEF HeldFor, NoEscrow
  <2>2. IsFiniteSet(Ids)
    BY FS_Interval, MaxRequestsAssumption DEF Ids
  <2>3. /\ HeldIn(feeEscrow, t) = SumFunctionOnSet(e, Ids)
        /\ QueuedIn(composing, t) = SumFunctionOnSet(g, {})
    BY <1>3 DEF HeldIn, QueuedIn, SumFunction
  <2> HIDE DEF e, g
  <2>4. SumFunctionOnSet(e, Ids) = 0 /\ SumFunctionOnSet(g, {}) = 0
    BY <2>1, <2>2, SumOfZeros, SumOfNone
  <2> QED
    BY <2>3, <2>4
<1>8. VaultIsOwed
  BY <1>2, <1>7, OwedInSums
<1> QED
  BY <1>1, <1>4, <1>5, <1>6, <1>8 DEF VaultInv, DeskTypes, TypeOK

(***************************************************************************)
(* Every step keeps the vault and the store whole.                         *)
(***************************************************************************)
LEMMA VaultInvKept ==
  ASSUME RecipientsApart, VaultInv, [Next]_desk
  PROVE  VaultInv'
<1>1. DeskInv'
  <2>1. NonceTyped
    BY DEF VaultInv, DeskTypes, TypeOK, WireTypeOK, NonceTyped
  <2> QED
    BY <2>1, DeskInvKept DEF VaultInv
<1>2. CASE Bridging /\ UNCHANGED solanaVars
  <2>1. CASE \E t \in Tokens, u \in Users, sd \in DirectAmounts : DirectSend(Solana, t, u, sd)
    BY <1>2, <2>1, DirectSendKeeps, <1>1 DEF VaultInv
  <2>2. CASE \E p \in returns : ReceiveReturn(p)
    BY <1>2, <2>2, ReceiveReturnKeeps, <1>1 DEF VaultInv
  <2> QED
    BY <1>2, <2>1, <2>2 DEF Bridging
<1>3. CASE Opening
  BY <1>1, <1>3, OpenRequestKeeps, OpenViaPartnerKeeps DEF Opening, VaultInv
<1>4. CASE Delivering
  <2>1. CASE \E p \in composing : ComposeFill(p) \/ ComposeRefund(p) \/ ComposeLate(p)
    BY <1>1, <2>1, ComposeKeeps DEF VaultInv
  <2>2. CASE \E n \in notices, id \in Ids :
               NoticeStranded(n, id) \/ NoticeCancelled(n, id) \/ NoticeLate(n, id)
    BY <1>1, <2>2, NoticeKeeps DEF VaultInv
  <2> QED
    BY <1>4, <2>1, <2>2 DEF Delivering
<1>5. CASE \E i \in Ids : SettleFees(i)
  BY <1>1, <1>5, SettleFeesKeeps DEF VaultInv
<1>6. CASE Administering
  BY <1>1, <1>6, AdministeringKeeps DEF VaultInv
<1>7. CASE HomeAnswers /\ UNCHANGED solanaVars
  BY <1>1, <1>7, HomeKeeps DEF VaultInv
<1>8. CASE UNCHANGED desk
  <2>1. /\ UNCHANGED <<mirrorToken, outNonce, orders, returns, backNonce, composing,
                       notices, noticeNonce>>
        /\ UNCHANGED <<nextRequestId, requests, nonceIndex, feeEscrow, executed>>
        /\ UNCHANGED <<homeRelay, partners, partnerRequired, platformFee>>
    BY <1>8 DEF desk, wireVars, solanaVars, storeVars
  <2>2. TypeOK'
    BY <2>1 DEF VaultInv, DeskTypes, TypeOK, WireTypeOK, SolanaTypeOK
  <2>3. OnSolana' /\ ReturnsAreNew' /\ PlatformNamed' /\ EscrowsNamed'
    BY <2>1 DEF VaultInv, DeskTypes, OnSolana, ReturnsAreNew, PlatformNamed, EscrowsNamed
  <2>4. VaultIsOwed'
    BY <2>1, OwedAsBefore DEF VaultInv
  <2> QED
    BY <1>1, <2>2, <2>3, <2>4 DEF VaultInv, DeskTypes
<1> QED
  BY <1>2, <1>3, <1>4, <1>5, <1>6, <1>7, <1>8 DEF Next, SolanaNext

(***************************************************************************)
(* The vault and the store (swap_request, settle_fees and lz_compose): in  *)
(* whatever order orders are opened, closed and settled, and terms changed *)
(* meanwhile, the vault holds exactly the fees not settled yet and the     *)
(* store's account exactly the settlements not paid out yet, provided that *)
(* no fees are due to these two accounts themselves.                       *)
(***************************************************************************)
THEOREM VaultHoldsWhatIsOwed ==
  ASSUME RecipientsApart
  PROVE  Spec => []VaultIsOwed
<1>1. VaultInv /\ [Next]_desk => VaultInv'
  BY VaultInvKept
<1>2. VaultInv => VaultIsOwed
  BY DEF VaultInv
<1> QED
  BY <1>1, <1>2, VaultInvInit, PTL DEF Spec

-----------------------------------------------------------------------------
(* Whom the fees and the restored inputs go to.                            *)

(* An index tells the asset its request is made in.                        *)
IndexTells ==
  \A e \in nonceIndex : /\ e.id \in Ids /\ e.id < nextRequestId
                        /\ e.tokenIn = TokenIn(requests[e.id].dir)

LEMMA IndexTellsKept ==
  ASSUME VaultInv, IndexTells, [Next]_desk
  PROVE  IndexTells'
<1>1. DeskInv /\ NonceTyped /\ nextRequestId \in Nat
  BY DEF VaultInv, DeskInv, DeskTypes, TypeOK, WireTypeOK, NonceTyped
<1>2. ASSUME NEW t \in Tokens, Opens(t, outNonce[Solana][t] + 1)
      PROVE  IndexTells'
  <2> SUFFICES ASSUME NEW e \in nonceIndex'
               PROVE  /\ e.id \in Ids /\ e.id < nextRequestId'
                      /\ e.tokenIn = TokenIn(requests'[e.id].dir)
    BY DEF IndexTells
  <2>1. /\ nextRequestId \in Ids /\ nextRequestId' = nextRequestId + 1
        /\ TokenIn(requests'[nextRequestId].dir) = t
        /\ \A j \in Ids \ {nextRequestId} : requests'[j] = requests[j]
    BY <1>2 DEF Opens
  <2>2. CASE e \in nonceIndex
    <3>1. PICK k \in Ids : k = e.id /\ k < nextRequestId
                           /\ e.tokenIn = TokenIn(requests[k].dir)
      BY <2>2 DEF IndexTells
    <3>2. k < nextRequestId + 1 /\ k # nextRequestId
      BY <1>1, <3>1 DEF Ids
    <3> QED
      BY <2>1, <3>1, <3>2
  <2>3. CASE e \notin nonceIndex
    <3>1. e.id = nextRequestId /\ e.tokenIn = t
      BY <1>2, <2>3 DEF Opens
    <3> QED
      BY <1>1, <2>1, <3>1
  <2> QED
    BY <2>2, <2>3
<1>3. ASSUME UNCHANGED <<nonceIndex, nextRequestId>>,
             \A j \in Ids : requests'[j].dir = requests[j].dir
      PROVE  IndexTells'
  BY <1>3 DEF IndexTells
<1>4. ASSUME NEW i \in Ids, NEW outcome, Closes(i, outcome)
      PROVE  IndexTells'
  BY <1>3, <1>4 DEF Closes
<1>5. ASSUME NEW i \in Ids, PaysFees(i)
      PROVE  IndexTells'
  BY <1>3, <1>5 DEF PaysFees
<1>6. CASE Idles
  BY <1>3, <1>6 DEF Idles
<1> QED
  BY <1>1, <1>2, <1>4, <1>5, <1>6, KindsOfStep

(* The two promises, as one step makes them for the order i.               *)
FeesGoOut(i) ==
  feeEscrow[i].state = "ESCROWED" /\ feeEscrow'[i].state # "ESCROWED" =>
    \A a \in Users \cup Recipients : Gains(a, feeEscrow[i].mint, DueTo(a, i))

InputComesBack(i) ==
  requests[i].status = "PENDING" /\ requests'[i].status = "CANCELLED" =>
    Gains(requests[i].user, TokenIn(requests[i].dir), requests[i].amountIn)

(* Only settle_fees ends an escrow.                                        *)
LEMMA FeesGoOutOnce ==
  ASSUME RecipientsApart, VaultInv, [Next]_desk, NEW i \in Ids
  PROVE  FeesGoOut(i)
<1> SUFFICES ASSUME feeEscrow[i].state = "ESCROWED", feeEscrow'[i].state # "ESCROWED"
             PROVE  \A a \in Users \cup Recipients : Gains(a, feeEscrow[i].mint, DueTo(a, i))
  BY DEF FeesGoOut
<1>1. /\ feeEscrow \in [Ids -> FeeEscrow] /\ EscrowsNamed
      /\ mirrorToken \in [Mirrors -> [Tokens -> Token]]
  BY DEF VaultInv, DeskTypes, TypeOK, WireTypeOK, SolanaTypeOK
<1>2. PICK j \in Ids : SettleFees(j)
  <2>1. CASE Bridging /\ UNCHANGED solanaVars
    BY <2>1 DEF solanaVars
  <2>2. CASE Opening
    <3>1. nextRequestId \in Ids => feeEscrow[nextRequestId].state = "NONE"
      BY DEF VaultInv, DeskInv
    <3>2. CASE feeEscrow' = feeEscrow
      BY <3>2
    <3>3. ASSUME NEW f, nextRequestId \in Ids,
                 feeEscrow' = [feeEscrow EXCEPT ![nextRequestId] = f]
          PROVE  FALSE
      BY <1>1, <3>1, <3>3
    <3> QED
      BY <2>2, <3>2, <3>3 DEF Opening, OpenRequest, OpenViaPartner
  <2>3. CASE Delivering
    BY <2>3 DEF Delivering, ComposeFill, ComposeRefund, ComposeLate, LzCompose,
                NoticeStranded, NoticeCancelled, NoticeLate, LzReceive
  <2>4. CASE Administering
    BY <2>4 DEF Administering, SetHomeRelay, RegisterPartner, UpdatePartner, WritePartner,
                SetPartnerRequired, SetPlatformFee, RestOfDesk
  <2>5. CASE HomeAnswers /\ UNCHANGED solanaVars
    BY <2>5 DEF solanaVars
  <2>6. CASE UNCHANGED desk
    BY <2>6 DEF desk, solanaVars
  <2> QED
    BY <2>1, <2>2, <2>3, <2>4, <2>5, <2>6 DEF Next, SolanaNext
<1>3. j = i
  BY <1>1, <1>2 DEF SettleFees
<1> DEFINE t == feeEscrow[i].mint
           k == mirrorToken[Solana][t]
<1>4. t \in Tokens /\ k \in Token
  BY <1>1, SolanaAssumption DEF FeeEscrow
<1>5. /\ CanPay(k, FeeVault, EscrowTotal(feeEscrow[i]))
      /\ mirrorToken' = [mirrorToken EXCEPT ![Solana][t] = FeesPaid(i)]
  BY <1>2, <1>3 DEF SettleFees
<1>6. mirrorToken'[Solana][t] = FeesPaid(i)
  BY <1>1, <1>4, <1>5, SolanaAssumption
<1>7. \A c \in Accounts \ {FeeVault} : FeesPaid(i).bal[c] = k.bal[c] + DueTo(c, i)
  <2>1. feeEscrow[i] \in FeeEscrow
    BY <1>1
  <2> QED
    BY <1>1, <1>4, <1>5, <2>1, FeesPaidMoves
<1>8. ASSUME NEW a \in Users \cup Recipients
      PROVE  Gains(a, t, DueTo(a, i))
  <2>1. a \in Accounts \ {FeeVault}
    BY DeskAccounts DEF RecipientsApart
  <2> QED
    BY <1>6, <1>7, <2>1 DEF Gains
<1> QED
  BY <1>8

(* Only a cancellation restores an input, in the asset it was burned in.   *)
LEMMA InputComesBackWhole ==
  ASSUME VaultInv, IndexTells, [Next]_desk, NEW i \in Ids
  PROVE  InputComesBack(i)
<1> SUFFICES ASSUME requests[i].status = "PENDING", requests'[i].status = "CANCELLED"
             PROVE  Gains(requests[i].user, TokenIn(requests[i].dir), requests[i].amountIn)
  BY DEF InputComesBack
<1>1. /\ requests \in [Ids -> Request] /\ nonceIndex \subseteq NonceIndex
      /\ notices \subseteq Notice
      /\ mirrorToken \in [Mirrors -> [Tokens -> Token]]
  BY DEF VaultInv, DeskTypes, TypeOK, WireTypeOK, SolanaTypeOK
<1>2. PICK n \in notices : NoticeCancelled(n, i)
  <2>1. CASE requests' = requests
    BY <2>1
  <2>2. CASE Opening
    <3>1. /\ nextRequestId \in Ids
          /\ \E r : r.status = "PENDING" /\ requests' = [requests EXCEPT ![nextRequestId] = r]
      BY <2>2 DEF Opening, OpenRequest, OpenViaPartner, Open
    <3> QED
      BY <1>1, <3>1
  <2>3. ASSUME NEW p \in composing, ComposeFill(p) \/ ComposeRefund(p) \/ ComposeLate(p)
        PROVE  FALSE
    <3>1. CASE ComposeFill(p)
      BY <1>1, <3>1 DEF ComposeFill
    <3>2. CASE ComposeRefund(p)
      BY <1>1, <3>2 DEF ComposeRefund
    <3>3. CASE ComposeLate(p)
      BY <3>3 DEF ComposeLate
    <3> QED
      BY <2>3, <3>1, <3>2, <3>3
  <2>4. ASSUME NEW n \in notices, NEW id \in Ids, NoticeStranded(n, id) \/ NoticeLate(n, id)
        PROVE  FALSE
    <3>1. CASE NoticeStranded(n, id)
      BY <1>1, <3>1 DEF NoticeStranded
    <3>2. CASE NoticeLate(n, id)
      BY <2>1, <3>2 DEF NoticeLate
    <3> QED
      BY <2>4, <3>1, <3>2
  <2>5. ASSUME NEW n \in notices, NEW id \in Ids, NoticeCancelled(n, id)
        PROVE  id = i
    BY <1>1, <2>5 DEF NoticeCancelled
  <2>6. CASE \/ (Bridging \/ HomeAnswers) /\ UNCHANGED solanaVars
             \/ Administering
             \/ \E k \in Ids : SettleFees(k)
             \/ UNCHANGED desk
    <3>1. requests' = requests
      BY <2>6 DEF Administering, SetHomeRelay, RegisterPartner, UpdatePartner, WritePartner,
                  SetPartnerRequired, SetPlatformFee, RestOfDesk, SettleFees, desk, solanaVars
    <3> QED
      BY <2>1, <3>1
  <2> QED
    BY <2>2, <2>3, <2>4, <2>5, <2>6 DEF Next, SolanaNext, Delivering
<1>3. PICK e \in nonceIndex : e.id = i /\ e.tokenIn = n.t /\ requests[i].user = e.user
  BY <1>2 DEF NoticeCancelled, LzReceive, Named, Cancelled
<1> DEFINE t == TokenIn(requests[i].dir)
           u == requests[i].user
           x == requests[i].amountIn
           k == mirrorToken[Solana][t]
<1>4. t = n.t
  BY <1>3 DEF IndexTells
<1>5. t \in Tokens /\ u \in Users /\ x \in Nat /\ k \in Token
  <2>1. n.t \in Tokens /\ e.user \in Users /\ requests[i].amountIn \in Nat
    BY <1>1, <1>2, <1>3 DEF Notice, NonceIndex, Request
  <2> QED
    BY <1>1, <1>3, <1>4, <2>1, SolanaAssumption
<1>6. mirrorToken' = [mirrorToken EXCEPT ![Solana][t] = Mint(@, u, x)]
  BY <1>2, <1>4 DEF NoticeCancelled, RecoveryCredit
<1> HIDE DEF t, u, x
<1>7. mirrorToken'[Solana][t] = Mint(k, u, x)
  BY <1>1, <1>5, <1>6, SolanaAssumption
<1>8. Mint(k, u, x).bal[u] = k.bal[u] + x
  BY <1>5, DeskAccounts, MintMoves
<1> QED
  BY <1>7, <1>8 DEF Gains, t, u, x

(***************************************************************************)
(* Paid as taken (swap_request, settle_fees and lz_receive): fees go, once *)
(* an order has closed, to those its outcome makes them due to under the   *)
(* terms it was taken on, and a cancellation restores what was burned, to  *)
(* whoever burned it.                                                      *)
(***************************************************************************)
THEOREM FeesGoWhereDue ==
  ASSUME RecipientsApart
  PROVE  Spec => PaidAsTaken
<1> DEFINE Inv == VaultInv /\ IndexTells
<1>1. Init => Inv
  <2>1. Init => IndexTells
    BY DEF Init, SolanaInit, IndexTells
  <2> QED
    BY <2>1, VaultInvInit
<1>2. Inv /\ [Next]_desk => Inv'
  BY VaultInvKept, IndexTellsKept
<1>3. Inv /\ [Next]_desk => [\A i \in Ids : FeesGoOut(i) /\ InputComesBack(i)]_desk
  BY FeesGoOutOnce, InputComesBackWhole
<1>4. [\A i \in Ids : FeesGoOut(i) /\ InputComesBack(i)]_desk
      => [\A i \in Ids :
            LET r == requests[i] IN
            /\ feeEscrow[i].state = "ESCROWED" /\ feeEscrow'[i].state # "ESCROWED" =>
                 \A a \in Users \cup Recipients : Gains(a, feeEscrow[i].mint, DueTo(a, i))
            /\ r.status = "PENDING" /\ requests'[i].status = "CANCELLED" =>
                 Gains(r.user, TokenIn(r.dir), r.amountIn)]_desk
  BY DEF FeesGoOut, InputComesBack
<1> HIDE DEF Inv
<1> QED
  BY <1>1, <1>2, <1>3, <1>4, PTL DEF Spec, PaidAsTaken

=============================================================================
