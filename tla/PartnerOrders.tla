--------------------------- MODULE PartnerOrders ---------------------------
(***************************************************************************)
(* A user's journey through the partner API: quote, approval by the        *)
(* partner, build, submission, and polling until the order is settled.     *)
(* infra/api/quote.ts and orders.ts, infra/solana/client.ts, and the SDK   *)
(* (packages/sdk/src) the partner and the user run.  The API keeps nothing *)
(* between two calls, and each call reads the chains in several awaits:    *)
(* what it read first may have moved when it answers, and what it answered *)
(* may have moved when the user submits.  A user who is refused starts     *)
(* again with a new quote.                                                 *)
(*                                                                         *)
(* On an EVM mirror the partner signs the order before it is built, with a *)
(* nonce and a deadline; on a Solana one it co-signs the built transaction,*)
(* which names the request id and the message nonce it will get.  What the *)
(* contracts do to tokens is in SwapRequest, SolanaRequest and SwapRelay;  *)
(* here they accept or refuse, and say what is delivered.  Users hold what *)
(* they spend and the native fee.                                          *)
(***************************************************************************)
EXTENDS SwapMath, Sequences, FiniteSets

CONSTANTS
  Evm, Solana,      \* the mirror chains, by the machine they run
  Journeys, Users,
  Wishes,           \* what the journeys may be after: subset of [Journeys -> WishType]
  Quantum,          \* local units of a shared unit: [mirror -> [token -> Nat]]
  HomeQuantum,
  MaxUint,
  FeeUnit,          \* BPS, 10 000 in the code
  Slippage,         \* slippageBps of a quote
  FirstTerms,       \* [mirror -> TermsType]
  LaterTerms,       \* [mirror -> what its owner may set instead]
  FirstPool,        \* the home market: what it holds of each asset
  LaterPools,       \* where other people's trades may take it
  FirstAllowance,   \* what a user has left of an earlier approval
  Prices,           \* native fees of a message
  MaxMoves          \* bound: moves of the world, and calls that fail

Mirrors == Evm \cup Solana
Tokens == {"base", "quote"}

TermsType ==
  [required : BOOLEAN, platform : Nat, signer : STRING, max : Nat, active : BOOLEAN]

WishType ==
  [m : Mirrors, user : Users, side : {"buy", "sell"}, gross : Nat, via : BOOLEAN,
   bps : Nat, keepsFee : BOOLEAN]

ASSUME PartnerAssumption ==
  /\ Evm \cap Solana = {} /\ Wishes \subseteq [Journeys -> WishType]
  /\ Quantum \in [Mirrors -> [Tokens -> Nat \ {0}]]
  /\ HomeQuantum \in [Tokens -> Nat \ {0}]
  /\ FeeUnit \in Nat \ {0} /\ Slippage \in 0..FeeUnit
  /\ {MaxUint, FirstAllowance, MaxMoves} \subseteq Nat /\ Prices \subseteq Nat
  /\ FirstTerms \in [Mirrors -> TermsType] /\ LaterTerms \in [Mirrors -> SUBSET TermsType]
  /\ {FirstPool} \cup LaterPools \subseteq [Tokens -> Nat]

(* No partner, no partner fee (quote.ts:55); the two rates together are    *)
(* capped far below the whole (MAX_PARTNER_FEE_BPS, MAX_PLATFORM_FEE_BPS). *)
ASSUME RatesAssumption ==
  /\ \A w \in Wishes, j \in Journeys : w[j].via \/ w[j].bps = 0
  /\ \A m \in Mirrors : \A t \in {FirstTerms[m]} \cup LaterTerms[m] :
       t.platform + t.max <= FeeUnit
  /\ Prices # {}

VARIABLES
  wish,             \* what each journey is after, from the start
  terms,            \* [Mirrors -> TermsType]
  price,            \* what a message home costs, by mirror
  pool,             \* the home market
  allowance,        \* of the EVM SwapRequests: [Evm -> [Users -> [Tokens -> Nat]]]
  used,             \* partner nonces spent or withdrawn, by EVM mirror
  nextId,           \* the next request id of a mirror
  outbound,         \* messages sent on a Solana mirror's paths home
  orders,           \* the sequence of orders placed
  pc,               \* where a journey is
  attempt,          \* what its present attempt has gathered
  answer,           \* what its polling has read
  undisturbed,      \* attempts during which nothing else has moved
  moves

chainVars == <<terms, price, pool, allowance, used, nextId, outbound, orders>>
journeyVars == <<pc, attempt, answer, undisturbed>>
vars == <<wish, chainVars, journeyVars, moves>>

Spent(j) == IF wish[j].side = "buy" THEN "quote" ELSE "base"
Bought(j) == IF wish[j].side = "buy" THEN "base" ELSE "quote"
On(j) == wish[j].m
Now(j) == terms[On(j)]

(* An approval of the partner, or, without one, the user's own.            *)
Fresh(j) ==
  LET spent == {orders[n].approval : n \in DOMAIN orders} \cup UNION {used[m] : m \in Evm}
  IN  <<j, Cardinality({a \in spent : a[1] = j})>>

Blank ==
  [platform |-> 0, pool |-> FirstPool, traded |-> 0, expected |-> 0, min |-> 0,
   fee |-> 0, approval |-> <<>>, signer |-> "none", lapsed |-> FALSE, value |-> 0,
   id |-> 0, index |-> 0]

Unread == [parts |-> 0, status |-> "pending", fees |-> "none", held |-> "none"]

Init ==
  /\ wish \in Wishes /\ terms = FirstTerms /\ pool = FirstPool
  /\ price = [m \in Mirrors |-> CHOOSE p \in Prices : TRUE]
  /\ allowance = [m \in Evm |-> [u \in Users |-> [t \in Tokens |-> FirstAllowance]]]
  /\ used = [m \in Evm |-> {}]
  /\ nextId = [m \in Mirrors |-> 1]
  /\ outbound = [m \in Solana |-> [t \in Tokens |-> 0]]
  /\ orders = <<>>
  /\ pc = [j \in Journeys |-> "start"]
  /\ attempt = [j \in Journeys |-> Blank]
  /\ answer = [j \in Journeys |-> Unread]
  /\ undisturbed = Journeys /\ moves = 0

-----------------------------------------------------------------------------
(* Steps of a journey: a call reads the chains, and goes on or refuses.    *)

Goes(j, to) == pc' = [pc EXCEPT ![j] = to]

Reads(j, to, a) ==
  /\ Goes(j, to) /\ attempt' = [attempt EXCEPT ![j] = a]
  /\ UNCHANGED <<wish, chainVars, answer, undisturbed, moves>>

Learns(j, to, field, v) == Reads(j, to, [attempt[j] EXCEPT ![field] = v])

Refused(j) == Reads(j, "refused", Blank)

(* The user asks for a quote again.                                        *)
StartAgain(j) ==
  /\ pc[j] = "refused" /\ Goes(j, "start")
  /\ undisturbed' = undisturbed \cup {j}
  /\ UNCHANGED <<wish, chainVars, attempt, answer, moves>>

(* What the quote and the build ask of the mirror's terms.                 *)
Welcome(w, t) ==
  /\ t.required => w.via
  /\ w.via => t.active /\ w.bps <= t.max

(* Mutant: no platform fee without a partner, on EVM either.               *)
PlatformRateOfPartners(j, bps) == IF wish[j].via THEN bps ELSE 0

(* EVM charges the platform fee on every order, Solana on partner orders.  *)
PlatformRate(j, bps) == IF On(j) \in Evm \/ wish[j].via THEN bps ELSE 0

(* quote: mirrorTerms.                                                     *)
QuoteTerms(j) ==
  /\ pc[j] = "start"
  /\ IF Welcome(wish[j], Now(j))
     THEN Learns(j, "market", "platform", Now(j).platform)
     ELSE Refused(j)

(* What is left of the input for the bridge, after fees and dust.          *)
Traded(j, platform) ==
  LET net == wish[j].gross - FeeOf(wish[j].gross, wish[j].bps, FeeUnit)
                           - FeeOf(wish[j].gross, platform, FeeUnit)
  IN  RemoveDust(net, Quantum[On(j)][Spent(j)])

(* The venue: what it pays for an input is a function of what it holds.    *)
Pays(p, t, x) ==
  LET o == IF t = "base" THEN "quote" ELSE "base" IN (p[o] * x) \div (p[t] + x)

(* What comes back across, of what the home market pays.                   *)
Expected(j, p, traded) ==
  LET input == ToLocal(ToShared(traded, Quantum[On(j)][Spent(j)]), HomeQuantum[Spent(j)])
      out   == Pays(p, Spent(j), input)
  IN  ToLocal(ToShared(out, HomeQuantum[Bought(j)]), Quantum[On(j)][Bought(j)])

(* The floor, rounded down to what the bridge can carry.                   *)
MinAmountOut(j, expected) ==
  RemoveDust((expected * (FeeUnit - Slippage)) \div FeeUnit, Quantum[On(j)][Bought(j)])

(* quote: homeSwap, unless nothing is left to trade.                       *)
QuoteMarket(j) ==
  LET traded == Traded(j, PlatformRate(j, attempt[j].platform))
      out    == Expected(j, pool, traded)
  IN
  /\ pc[j] = "market"
  /\ IF traded = 0 THEN Refused(j)
     ELSE Reads(j, "fee", [attempt[j] EXCEPT
            !.pool = pool, !.traded = traded, !.expected = out, !.min = MinAmountOut(j, out)])

(* quote: messagingFeeFor.                                                 *)
QuoteFee(j) == pc[j] = "fee" /\ Learns(j, "quoted", "fee", price[On(j)])

SignsFirst(j) == On(j) \in Evm /\ wish[j].via

(* authorizeEvmOrder: the partner signs this order, under a fresh nonce.   *)
Authorize(j) ==
  /\ pc[j] = "quoted" /\ SignsFirst(j)
  /\ Reads(j, "authorized", [attempt[j] EXCEPT
       !.approval = Fresh(j), !.signer = Now(j).signer])

(* An amount is an integer above zero.                                     *)
ParseAmount(x) == x > 0

(* buildOrder: the floor must be an amount; the terms are read again.      *)
BuildTerms(j) ==
  /\ pc[j] = IF SignsFirst(j) THEN "authorized" ELSE "quoted"
  /\ IF ~ParseAmount(attempt[j].min) \/ ~Welcome(wish[j], Now(j)) THEN Refused(j)
     ELSE Reads(j, IF SignsFirst(j) THEN "nonce"
                   ELSE IF On(j) \in Evm THEN "value"
                   ELSE IF wish[j].via THEN "signer" ELSE "id", attempt[j])

(* buildEvm: the deadline, the nonce, and whose signature it is.           *)
CheckNonce(j) ==
  /\ pc[j] = "nonce"
  /\ IF attempt[j].lapsed \/ attempt[j].approval \in used[On(j)] THEN Refused(j)
     ELSE Reads(j, "signer", attempt[j])

CheckSigner(j) ==
  /\ pc[j] = "signer" /\ On(j) \in Evm
  /\ IF attempt[j].signer # Now(j).signer THEN Refused(j)
     ELSE Reads(j, "value", attempt[j])

(* Exactly the quoted fee, if the caller passes it on.                     *)
ReadValue(j) ==
  /\ pc[j] = "value" /\ On(j) \in Evm
  /\ Learns(j, "allowance", "value",
            IF wish[j].keepsFee THEN attempt[j].fee ELSE price[On(j)])

(* Mutant: any allowance at all will do.                                   *)
ApprovesIfNone(held, gross) == held = 0

(* Whether an approval comes before the order.                             *)
Approves(held, gross) == held < gross

ReadAllowance(j) ==
  /\ pc[j] = "allowance"
  /\ Reads(j, IF Approves(allowance[On(j)][wish[j].user][Spent(j)], wish[j].gross)
              THEN "approve" ELSE "submit", attempt[j])

(* buildSolana: the signer to ask; buildOpen: the accounts the order will  *)
(* have, and the cap on its fee.                                           *)
NameSigner(j) ==
  pc[j] = "signer" /\ On(j) \in Solana /\ Learns(j, "id", "signer", Now(j).signer)

NextRequestId(j) == pc[j] = "id" /\ Learns(j, "index", "id", nextId[On(j)])

(* Mutant: the account of the last message, not of the next.               *)
LastOutboundNonce(m, t) == outbound[m][t]

NextOutboundNonce(m, t) == outbound[m][t] + 1

NonceIndex(j) ==
  pc[j] = "index" /\ Learns(j, "cap", "index", NextOutboundNonce(On(j), Spent(j)))

QuoteSend(j) ==
  /\ pc[j] = "cap"
  /\ Reads(j, IF wish[j].via THEN "cosign" ELSE "submit",
           [attempt[j] EXCEPT !.value = price[On(j)], !.approval = Fresh(j)])

(* authorizeSolanaOrder: refused unless it asks for the partner's key.     *)
CoSign(j) ==
  /\ pc[j] = "cosign"
  /\ IF attempt[j].signer # Now(j).signer THEN Refused(j)
     ELSE Reads(j, "submit", attempt[j])

Quote(j) == QuoteTerms(j) \/ QuoteMarket(j) \/ QuoteFee(j)

BuildEvm(j) == CheckNonce(j) \/ CheckSigner(j) \/ ReadValue(j) \/ ReadAllowance(j)

BuildSolana(j) == NameSigner(j) \/ NextRequestId(j) \/ NonceIndex(j) \/ QuoteSend(j)

-----------------------------------------------------------------------------
(* The transactions.                                                       *)

(* The attempts that may depend on what has just moved.                    *)
Disturbs(others) == undisturbed' = undisturbed \ others

OnMirror(m) == {j \in Journeys : On(j) = m}

(* Orders on Solana share the request ids, a user's on EVM the allowances. *)
Rivals(j) ==
  {k \in OnMirror(On(j)) \ {j} : On(j) \in Evm => wish[k].user = wish[j].user}

Approve(j) ==
  /\ pc[j] = "approve" /\ Goes(j, "submit")
  /\ allowance' = [allowance EXCEPT ![On(j)][wish[j].user][Spent(j)] = wish[j].gross]
  /\ Disturbs(Rivals(j))
  /\ UNCHANGED <<terms, price, pool, used, nextId, outbound, orders, attempt, answer, moves, wish>>

(* Mutant: an approval may be used again.                                  *)
ApprovedAgain(j) ==
  wish[j].via =>
    /\ Now(j).active /\ wish[j].bps <= Now(j).max
    /\ attempt[j].signer = Now(j).signer

(* _authorize, and check_partner: who approved it, and whether in time.    *)
Approved(j) ==
  wish[j].via =>
    /\ Now(j).active /\ wish[j].bps <= Now(j).max
    /\ attempt[j].signer = Now(j).signer
    /\ On(j) \in Evm => attempt[j].approval \notin used[On(j)]

(* The accounts the program derives: its next request, its next message.   *)
Names(j) ==
  /\ attempt[j].id = nextId[On(j)]
  /\ attempt[j].index = outbound[On(j)][Spent(j)] + 1

(* _takeFees, on every EVM order; open_request_via_partner.                *)
PlatformCharged(j) == IF On(j) \in Evm \/ wish[j].via THEN Now(j).platform ELSE 0

FeesTaken(j) ==
  LET due(bps) == FeeOf(wish[j].gross, bps, FeeUnit)
  IN  due(wish[j].bps) + due(PlatformCharged(j))

(* SwapRequest takes its input by allowance, and LayerZero exactly its     *)
(* fee; swap_request's transaction must be recent, and its fee suffice.    *)
Accepted(j) ==
  /\ ~attempt[j].lapsed
  /\ Now(j).required => wish[j].via
  /\ Approved(j)
  /\ ToShared(wish[j].gross - FeesTaken(j), Quantum[On(j)][Spent(j)]) > 0
  /\ IF On(j) \in Evm
     THEN /\ allowance[On(j)][wish[j].user][Spent(j)] >= wish[j].gross
          /\ attempt[j].value = price[On(j)]
     ELSE Names(j) /\ price[On(j)] <= attempt[j].value

Order(j) ==
  [approval |-> IF SignsFirst(j) \/ On(j) \in Solana THEN attempt[j].approval ELSE Fresh(j),
   journey |-> j, id |-> nextId[On(j)], platform |-> Now(j).platform,
   sent |-> ToShared(wish[j].gross - FeesTaken(j), Quantum[On(j)][Spent(j)]),
   floor |-> FloorToShared(attempt[j].min, Quantum[On(j)][Bought(j)]),
   at |-> "sent", result |-> "none", out |-> 0, pool |-> FirstPool,
   status |-> "pending", fees |-> IF FeesTaken(j) > 0 THEN "escrowed" ELSE "none"]

(* A transaction that succeeds; its answer may be lost on the way back.    *)
Submit(j) ==
  LET m == On(j)
      t == Spent(j)
  IN
  /\ pc[j] = "submit" /\ Accepted(j)
  /\ orders' = Append(orders, Order(j))
  /\ nextId' = [nextId EXCEPT ![m] = @ + 1]
  /\ IF m \in Evm
     THEN /\ allowance' = [allowance EXCEPT ![m][wish[j].user][t] = @ - wish[j].gross]
          /\ used' = [used EXCEPT ![m] =
                        IF wish[j].via THEN @ \cup {attempt[j].approval} ELSE @]
          /\ UNCHANGED outbound
     ELSE /\ outbound' = [outbound EXCEPT ![m][t] = @ + 1]
          /\ UNCHANGED <<allowance, used>>
  /\ attempt' = [attempt EXCEPT ![j].approval = Order(j).approval]
  /\ \/ Goes(j, "placed") /\ UNCHANGED moves
     \/ Goes(j, "unsure") /\ moves < MaxMoves /\ moves' = moves + 1
  /\ Disturbs(Rivals(j))
  /\ UNCHANGED <<wish, terms, price, pool, answer>>

Placed(j) == \E n \in DOMAIN orders : orders[n].approval = attempt[j].approval

(* A transaction that fails: for good, or because it is there already.     *)
Reverted(j) ==
  /\ pc[j] = "submit" /\ ~Accepted(j)
  /\ IF Placed(j) THEN Reads(j, "placed", attempt[j]) ELSE Refused(j)

(* A user without an answer sends what is signed again, or looks it up.    *)
Resend(j) == pc[j] = "unsure" /\ wish[j].via /\ Reads(j, "submit", attempt[j])

(* listOrders: whether an order of the journey's user and kind is there.   *)
ListOrders(j) ==
  {n \in DOMAIN orders : wish[orders[n].journey].user = wish[j].user /\ On(orders[n].journey) = On(j)}

FindsOut(j) ==
  /\ pc[j] = "unsure"
  /\ \E n \in ListOrders(j) : orders[n].approval = attempt[j].approval
  /\ Reads(j, "placed", attempt[j])

-----------------------------------------------------------------------------
(* What becomes of an order, on the home chain and back.                   *)

Becomes(n, o) ==
  /\ orders' = [orders EXCEPT ![n] = o]
  /\ UNCHANGED <<wish, terms, price, allowance, used, nextId, outbound, journeyVars>>

Counted == moves < MaxMoves /\ moves' = moves + 1

(* The fees of a request that closes: an EVM desk releases them itself.    *)
Released(o, status) ==
  IF o.fees # "escrowed" \/ On(o.journey) \in Solana THEN o.fees
  ELSE IF status = "filled" THEN "paid" ELSE "returned"

Closed(o, status) == [o EXCEPT !.status = status, !.fees = Released(o, status)]

(* lzCompose: filled at the market if the floor is met, else sent back;    *)
(* a result that cannot be sent is held.                                   *)
Execute(n) ==
  LET o      == orders[n]
      j      == o.journey
      tIn    == Spent(j)
      tOut   == Bought(j)
      input  == ToLocal(o.sent, HomeQuantum[tIn])
      out    == Pays(pool, tIn, input)
      filled == out >= VenueFloor(o.floor, HomeQuantum[tOut], MaxUint)
  IN
  /\ o.at = "sent"
  /\ \E to \in {"returning", "held"} :
       /\ IF to = "held" THEN Counted ELSE UNCHANGED moves
       /\ Becomes(n, [o EXCEPT
            !.at = to, !.pool = pool, !.result = IF filled THEN "filled" ELSE "refunded",
            !.out = IF filled
                    THEN ToLocal(ToShared(out, HomeQuantum[tOut]), Quantum[On(j)][tOut])
                    ELSE ToLocal(o.sent, Quantum[On(j)][tIn])])
  /\ pool' = IF filled THEN [pool EXCEPT ![tIn] = @ + input, ![tOut] = @ - out] ELSE pool

(* The tokens arrive: the order's user has them, whatever its status was.  *)
Arrive(n) ==
  LET o      == orders[n]
      status == IF o.at = "refunding" THEN "refunded" ELSE o.result
  IN
  /\ o.at \in {"returning", "refunding"} /\ UNCHANGED <<pool, moves>>
  /\ Becomes(n, [(IF o.status = "pending" THEN Closed(o, status) ELSE o)
                   EXCEPT !.at = "returned"])

(* retryReturn: what is held is sent on as a refund.                       *)
Retry(n) ==
  /\ orders[n].at = "held" /\ UNCHANGED <<pool, moves>>
  /\ Becomes(n, [orders[n] EXCEPT !.at = "refunding"])

(* cancelStuckInbound.                                                     *)
Kill(n) ==
  /\ orders[n].at = "sent" /\ Counted /\ UNCHANGED pool
  /\ Becomes(n, [orders[n] EXCEPT !.at = "killed"])

(* The relay's notice reaches the mirror, perhaps after the tokens.        *)
Notice(n) ==
  LET o == orders[n] IN
  /\ o.status = "pending" /\ o.at \in {"held", "refunding", "killed"} /\ UNCHANGED <<pool, moves>>
  /\ Becomes(n, Closed(o, IF o.at = "killed" THEN "cancelled" ELSE "stranded"))

(* settle_fees, by anybody.                                                *)
SettleFees(n) ==
  LET o == orders[n] IN
  /\ On(o.journey) \in Solana /\ o.status # "pending" /\ o.fees = "escrowed"
  /\ Becomes(n, [o EXCEPT !.fees = IF o.status = "filled" THEN "paid" ELSE "returned"])
  /\ UNCHANGED <<pool, moves>>

Progress(n) == Execute(n) \/ Arrive(n) \/ Retry(n) \/ Notice(n) \/ SettleFees(n)

-----------------------------------------------------------------------------
(* getOrder and waitForOrder.                                              *)

(* Mutant: the fees are read before the request they belong to.            *)
FeesFirst == <<"fees", "request", "held">>

(* The reads of getOrder, in their order.                                  *)
Parts == <<"request", "fees", "held">>

GetRequest(a, o) == [a EXCEPT !.status = o.status]
GetFeeEscrow(a, o) == [a EXCEPT !.fees = o.fees]

StrandedHeld(a, o) ==
  [a EXCEPT !.held = IF a.status = "stranded" /\ o.at = "held" THEN "held" ELSE "none"]

Part(a, o, part) ==
  CASE part = "request" -> GetRequest(a, o)
    [] part = "fees" -> GetFeeEscrow(a, o)
    [] part = "held" -> StrandedHeld(a, o)

(* What the user is told to expect, or may do.                             *)
NextStep(a, svm) ==
  CASE a.status = "pending" -> "wait"
    [] a.status = "stranded" /\ a.held = "held" -> "retry"
    [] a.status = "stranded" /\ a.held = "none" -> "recovered"
    [] OTHER -> IF svm /\ a.fees = "escrowed" THEN "settle fees" ELSE "nothing"

OrderOf(j) == CHOOSE n \in DOMAIN orders : orders[n].approval = attempt[j].approval

Poll(j) ==
  LET a == answer[j] IN
  /\ pc[j] = "placed" /\ a.parts < Len(Parts)
  /\ answer' = [answer EXCEPT ![j] =
                  [Part(a, orders[OrderOf(j)], Parts[a.parts + 1]) EXCEPT !.parts = @ + 1]]
  /\ UNCHANGED <<wish, chainVars, pc, attempt, undisturbed, moves>>

(* The whole answer: polled again while the order is pending.              *)
Answered(j) ==
  LET a == answer[j] IN
  /\ pc[j] = "placed" /\ a.parts = Len(Parts)
  /\ IF a.status = "pending"
     THEN answer' = [answer EXCEPT ![j] = Unread] /\ UNCHANGED pc
     ELSE Goes(j, "done") /\ UNCHANGED answer
  /\ UNCHANGED <<wish, chainVars, attempt, undisturbed, moves>>

-----------------------------------------------------------------------------
(* The world moves, and calls fail.                                        *)

Moves(others) == Counted /\ Disturbs(others) /\ UNCHANGED <<wish, pc, attempt, answer, orders>>

(* setPlatformFee, setPartner, setPartnerRequired.                         *)
OwnerSets(m, t) ==
  /\ Moves(OnMirror(m)) /\ terms[m] # t /\ terms' = [terms EXCEPT ![m] = t]
  /\ UNCHANGED <<price, pool, allowance, used, nextId, outbound>>

GasMoves(m, p) ==
  /\ Moves(OnMirror(m)) /\ price[m] # p /\ price' = [price EXCEPT ![m] = p]
  /\ UNCHANGED <<terms, pool, allowance, used, nextId, outbound>>

OthersTrade(p) ==
  /\ Moves({}) /\ pool # p /\ pool' = p
  /\ UNCHANGED <<terms, price, allowance, used, nextId, outbound>>

(* Another order is opened, or tokens are sent without one.                *)
OthersSend(m, t, opened) ==
  /\ Moves(OnMirror(m))
  /\ nextId' = IF opened THEN [nextId EXCEPT ![m] = @ + 1] ELSE nextId
  /\ outbound' = [outbound EXCEPT ![m][t] = @ + 1]
  /\ UNCHANGED <<terms, price, pool, allowance, used>>

(* invalidateNonce: the partner withdraws an approval not used yet.        *)
Withdraw(j) ==
  /\ Moves({j}) /\ SignsFirst(j) /\ attempt[j].approval \notin {<<>>} \cup used[On(j)]
  /\ used' = [used EXCEPT ![On(j)] = @ \cup {attempt[j].approval}]
  /\ UNCHANGED <<terms, price, pool, allowance, nextId, outbound>>

Signed(j) ==
  pc[j] \in {"submit", "cosign", "approve"} \/ (SignsFirst(j) /\ attempt[j].approval # <<>>)

(* A deadline passes, or a blockhash grows old.                            *)
Lapse(j) ==
  /\ Signed(j) /\ (On(j) \in Solana \/ wish[j].via) /\ ~attempt[j].lapsed
  /\ pc[j] \notin {"unsure", "placed", "done"}
  /\ Counted /\ attempt' = [attempt EXCEPT ![j].lapsed = TRUE]
  /\ undisturbed' = undisturbed \ {j}
  /\ UNCHANGED <<wish, chainVars, pc, answer>>

(* The API refuses a call, over its rate limit, or a read of it fails.     *)
CallFails(j) ==
  /\ pc[j] \notin {"refused", "approve", "submit", "unsure", "placed", "done"}
  /\ Counted /\ Goes(j, "refused")
  /\ attempt' = [attempt EXCEPT ![j] = Blank]
  /\ undisturbed' = undisturbed \ {j}
  /\ UNCHANGED <<wish, chainVars, answer>>

World ==
  \/ \E m \in Mirrors : \E t \in LaterTerms[m] : OwnerSets(m, t)
  \/ \E m \in Mirrors, p \in Prices : GasMoves(m, p)
  \/ \E p \in LaterPools : OthersTrade(p)
  \/ \E m \in Solana, t \in Tokens, opened \in BOOLEAN : OthersSend(m, t, opened)
  \/ \E j \in Journeys : Withdraw(j) \/ Lapse(j) \/ CallFails(j)

Attempt(j) ==
  \/ StartAgain(j) \/ Quote(j)
  \/ Authorize(j) \/ BuildTerms(j) \/ BuildEvm(j) \/ BuildSolana(j) \/ CoSign(j)
  \/ Approve(j) \/ Submit(j) \/ Reverted(j) \/ FindsOut(j)
  \/ Poll(j) \/ Answered(j)

Next ==
  \/ \E j \in Journeys : Attempt(j) \/ Resend(j)
  \/ \E n \in DOMAIN orders : Progress(n) \/ Kill(n)
  \/ World

Spec == Init /\ [][Next]_vars

(* Users and the API go on; LayerZero delivers, and somebody retries what  *)
(* is held and settles the fees.                                           *)
LiveSpec ==
  /\ Spec
  /\ \A j \in Journeys : WF_vars(Attempt(j))
  /\ \A n \in 1..(Cardinality(Journeys) + MaxMoves) :
       WF_vars(n \in DOMAIN orders /\ Progress(n))

-----------------------------------------------------------------------------
(* Properties.                                                             *)

Asked(n) == attempt[orders[n].journey]

(***************************************************************************)
(* validation/11-partner-sdk.ts:21, "Exactness is the point": an order that*)
(* meets the platform fee and the market its quote was made from is filled,*)
(* and delivers the quoted amount to the unit, on mirrors and a home that  *)
(* keep different decimals (quote, against SwapRequest and SwapRelay).     *)
(***************************************************************************)
QuotedIsDelivered ==
  \A n \in DOMAIN orders :
    LET o == orders[n] IN
    /\ o.result # "none"
    /\ o.pool = Asked(n).pool /\ o.platform = Asked(n).platform
    => o.result = "filled" /\ o.out = Asked(n).expected

(***************************************************************************)
(* A journey places at most one order, however often it is built, signed   *)
(* and sent again after a lost answer: no two orders have one approval     *)
(* (nonceUsed), nor has a journey two; and on Solana the order has the     *)
(* request id its transaction was built and announced with (buildOpen).    *)
(***************************************************************************)
PlacedOnce ==
  \A n, k \in DOMAIN orders :
    /\ orders[n].journey = orders[k].journey => n = k
    /\ On(orders[n].journey) \in Solana => orders[n].id = Asked(n).id

(***************************************************************************)
(* orders.ts:81, "Check it now rather than let the user pay gas for a      *)
(* revert": an order that was quoted is built and accepted, unless the     *)
(* mirror's terms, its fee, its counters or the user's allowance have moved*)
(* since the quote began, its approval lapsed, or its floor is zero.       *)
(***************************************************************************)
BuiltIsAccepted ==
  [][\A j \in Journeys :
       /\ pc[j] \notin {"start", "market", "fee"} /\ pc'[j] = "refused"
       => j \notin undisturbed' \/ attempt[j].min = 0]_vars

(***************************************************************************)
(* What getOrder gathers in several reads holds together: a closed EVM     *)
(* order has released its fees, to the partner and the platform if it was  *)
(* filled, else to the user; Solana fees are paid only on a fill; and a    *)
(* stranded order said to be recovered is on its way or returned.          *)
(***************************************************************************)
AnswersAgree ==
  \A j \in Journeys :
    LET a == answer[j] IN
    a.parts = Len(Parts) /\ a.status # "pending" =>
      /\ On(j) \in Evm => a.fees # "escrowed"
      /\ a.fees = "paid" => a.status = "filled"
      /\ a.fees = "returned" => a.status # "filled"
      /\ NextStep(a, On(j) \in Solana) = "recovered" =>
           orders[OrderOf(j)].at \in {"refunding", "returned"}

(***************************************************************************)
(* A user whose order the mirror would take, and leave something to trade  *)
(* and to receive, gets it placed and settled, whatever others trade, send,*)
(* change or withdraw meanwhile: some attempt meets no movement.           *)
(***************************************************************************)
Placeable(j) ==
  LET traded == Traded(j, PlatformRate(j, Now(j).platform)) IN
  /\ Welcome(wish[j], Now(j)) /\ traded > 0
  /\ MinAmountOut(j, Expected(j, pool, traded)) > 0

PlacedAtLast == \A j \in Journeys : []<>(pc[j] = "done" \/ ~Placeable(j))

=============================================================================
