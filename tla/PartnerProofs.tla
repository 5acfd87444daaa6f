--------------------------- MODULE PartnerProofs ---------------------------
(***************************************************************************)
(* What the partner API promises, for any number of journeys, users and    *)
(* mirrors, any amounts, rates and quanta, and any movement of the chains  *)
(* between two calls: a journey places one order, an order that meets its  *)
(* quote delivers it, what polling gathers holds together, and what was    *)
(* quoted is built and accepted as long as nothing it was read from moves. *)
(***************************************************************************)
EXTENDS PartnerOrders, FiniteSetTheorems, SequenceTheorems, TLAPS

(***************************************************************************)
(* What a quote works out, of a wish w alone.  A wish never changes.       *)
(***************************************************************************)
SpentBy(w) == IF w.side = "buy" THEN "quote" ELSE "base"
BoughtBy(w) == IF w.side = "buy" THEN "base" ELSE "quote"
SentQuantum(w) == Quantum[w.m][SpentBy(w)]
PaidQuantum(w) == Quantum[w.m][BoughtBy(w)]
Signs(w) == w.m \in Evm /\ w.via
RateOf(w, bps) == IF w.m \in Evm \/ w.via THEN bps ELSE 0

NetOf(w, platform) ==
  w.gross - FeeOf(w.gross, w.bps, FeeUnit) - FeeOf(w.gross, RateOf(w, platform), FeeUnit)

PaidFor(w, p, shared) == Pays(p, SpentBy(w), ToLocal(shared, HomeQuantum[SpentBy(w)]))

Returned(w, out) ==
  ToLocal(ToShared(out, HomeQuantum[BoughtBy(w)]), PaidQuantum(w))

(* The amounts of an attempt are those its quote worked out.               *)
MatchesQuote(w, a) ==
  /\ a.traded = RemoveDust(NetOf(w, a.platform), SentQuantum(w))
  /\ a.expected = Returned(w, PaidFor(w, a.pool, ToShared(a.traded, SentQuantum(w))))
  /\ a.min = RemoveDust((a.expected * (FeeUnit - Slippage)) \div FeeUnit, PaidQuantum(w))

(* An approval names the journey it was given to.                          *)
IsApproval(x, j) == \E i : x = <<j, i>>

(* Where a transaction may have been sent.                                 *)
Late == {"submit", "unsure", "placed", "done"}
Early == {"start", "market", "refused"}

(* What an attempt that is at a place has gathered by then.                *)
Gathered(j, w, at, a) ==
  /\ a.approval = <<>> \/ IsApproval(a.approval, j)
  /\ at \notin Early => MatchesQuote(w, a)
  /\ at \notin Early \cup {"fee", "quoted", "authorized"} => a.min > 0
  /\ Signs(w) /\ at \notin Early \cup {"fee", "quoted"} => IsApproval(a.approval, j)
  /\ w.m \in Solana /\ at \in Late \cup {"cosign"} => IsApproval(a.approval, j)
  /\ at \in {"allowance", "approve"} => w.m \in Evm

(* An order carries what its journey asked for.                            *)
AsAsked(w, a, o) ==
  /\ o.approval = a.approval /\ IsApproval(o.approval, o.journey)
  /\ w.m \in Solana => o.id = a.id
  /\ o.sent = ToShared(NetOf(w, o.platform), SentQuantum(w)) /\ o.sent \in Nat \ {0}
  /\ o.floor = FloorToShared(a.min, PaidQuantum(w))

(* An order that was run met the market it says, and its floor decided.    *)
AsRun(w, o) ==
  LET out == PaidFor(w, o.pool, o.sent)
  IN  o.result # "none" =>
        /\ o.pool \in [Tokens -> Nat]
        /\ o.result \in {"filled", "refunded"}
        /\ out >= VenueFloor(o.floor, HomeQuantum[BoughtBy(w)], MaxUint)
             => o.result = "filled" /\ o.out = Returned(w, out)

(* A request that is not pending has been closed, with its fees.           *)
AsClosed(w, o) ==
  /\ w.m \in Evm /\ o.status # "pending" => o.fees # "escrowed"
  /\ o.fees = "paid" => o.status = "filled"
  /\ o.fees = "returned" => o.status \notin {"filled", "pending"}
  /\ o.status = "stranded" => o.at \in {"held", "refunding", "returned"}

(* What polling has read agrees with the order it is about.                *)
AsRead(w, a, o) ==
  /\ o.status = a.status
  /\ a.parts >= 2 =>
       /\ w.m \in Evm => a.fees # "escrowed"
       /\ a.fees = "paid" => a.status = "filled"
       /\ a.fees = "returned" => a.status # "filled"
  /\ a.parts >= 3 /\ a.status = "stranded" /\ a.held = "none" =>
       o.at \in {"refunding", "returned"}

-----------------------------------------------------------------------------
(* The invariant.                                                          *)

AttemptFields ==
  {"platform", "pool", "traded", "expected", "min", "fee", "approval", "signer",
   "lapsed", "value", "id", "index"}

OrderFields ==
  {"approval", "journey", "id", "platform", "sent", "floor", "at", "result", "out",
   "pool", "status", "fees"}

AnswerFields == {"parts", "status", "fees", "held"}

IsSequence(s) == \E S : s \in Seq(S)

(* The state has the shape its actions need.                               *)
Shape ==
  /\ wish \in [Journeys -> WishType] /\ DOMAIN pc = Journeys
  /\ DOMAIN attempt = Journeys /\ \A j \in Journeys : DOMAIN attempt[j] = AttemptFields
  /\ DOMAIN answer = Journeys /\ \A j \in Journeys : DOMAIN answer[j] = AnswerFields
  /\ IsSequence(orders)
  /\ \A n \in DOMAIN orders : DOMAIN orders[n] = OrderFields /\ orders[n].journey \in Journeys
  /\ terms \in [Mirrors -> TermsType] /\ pool \in [Tokens -> Nat]
  /\ nextId \in [Mirrors -> Nat] /\ DOMAIN used = Evm

JourneysSound == \A j \in Journeys : Gathered(j, wish[j], pc[j], attempt[j])

OrdersSound ==
  \A n \in DOMAIN orders :
    LET o == orders[n]
        j == o.journey
        w == wish[j]
    IN  /\ AsAsked(w, attempt[j], o) /\ AsRun(w, o) /\ AsClosed(w, o)
        /\ pc[j] \in Late /\ (pc[j] = "submit" => w.via)
        /\ w.m \in Solana => o.id \in Nat /\ o.id < nextId[w.m]
        /\ Signs(w) => o.approval \in used[w.m]

OneEach == \A n, k \in DOMAIN orders : orders[n].journey = orders[k].journey => n = k

(* A journey past its submission has an order.                             *)
Ordered ==
  \A j \in Journeys :
    pc[j] \in {"unsure", "placed", "done"} => \E n \in DOMAIN orders : orders[n].journey = j

AnswersSound ==
  \A j \in Journeys :
    /\ answer[j].parts \in 0..3
    /\ answer[j].parts = 0 => answer[j].status = "pending"
    /\ answer[j].status # "pending" =>
         \E n \in DOMAIN orders :
           orders[n].journey = j /\ AsRead(wish[j], answer[j], orders[n])

PartnerInv ==
  Shape /\ JourneysSound /\ OrdersSound /\ OneEach /\ Ordered /\ AnswersSound

-----------------------------------------------------------------------------
(* Sequences of orders.                                                    *)

(* Named, for the solver to leave it alone.                                *)
Extends(t, s, o) == t = Append(s, o)

(* An order appended is the last, and the others stay where they are.      *)
LEMMA OneMore ==
  ASSUME NEW s, IsSequence(s), NEW o, NEW t, Extends(t, s, o)
  PROVE  /\ IsSequence(t)
         /\ \E k : /\ k \notin DOMAIN s /\ DOMAIN t = DOMAIN s \cup {k} /\ t[k] = o
                   /\ \A n \in DOMAIN s : t[n] = s[n]
<1>1. PICK S : s \in Seq(S)
  BY DEF IsSequence
<1>2. PICK T : T = S \cup {o}
  OBVIOUS
<1>3. s \in Seq(T) /\ o \in T
  BY <1>1, <1>2, SeqMonotonic
<1>4. /\ t \in Seq(T) /\ Len(t) = Len(s) + 1 /\ Len(s) \in Nat
      /\ \A i \in 1..Len(s) : t[i] = s[i]
      /\ t[Len(s) + 1] = o
  BY <1>3, AppendProperties DEF Extends
<1>5. DOMAIN s = 1..Len(s) /\ DOMAIN t = 1..(Len(s) + 1)
  BY <1>3, <1>4
<1>6. IsSequence(t)
  BY <1>4 DEF IsSequence
<1>7. PICK k : k = Len(s) + 1
  OBVIOUS
<1>8. k \notin DOMAIN s /\ DOMAIN t = DOMAIN s \cup {k} /\ t[k] = o /\ \A n \in DOMAIN s : t[n] = s[n]
  BY <1>4, <1>5, <1>7
<1> QED
  BY <1>6, <1>8

(* An order replaced.                                                      *)
LEMMA OneOther ==
  ASSUME NEW s, IsSequence(s), NEW k \in DOMAIN s, NEW o, NEW t, t = [s EXCEPT ![k] = o]
  PROVE  /\ IsSequence(t) /\ DOMAIN t = DOMAIN s /\ t[k] = o
         /\ \A n \in DOMAIN s : n # k => t[n] = s[n]
<1>1. PICK S : s \in Seq(S)
  BY DEF IsSequence
<1>2. PICK T : T = S \cup {o}
  OBVIOUS
<1>3. s \in Seq(T) /\ o \in T /\ DOMAIN s = 1..Len(s)
  BY <1>1, <1>2, SeqMonotonic
<1>4. t \in Seq(T)
  BY <1>3, ExceptSeq
<1> QED
  BY <1>3, <1>4 DEF IsSequence

-----------------------------------------------------------------------------
(* Steps of a kind.                                                        *)

(* A step of journey j, to a place, with what it has gathered.             *)
JourneyStep(j, to, a) ==
  /\ DOMAIN pc' = Journeys /\ pc'[j] = to
  /\ DOMAIN attempt' = Journeys /\ attempt'[j] = a
  /\ \A k \in Journeys \ {j} : pc'[k] = pc[k] /\ attempt'[k] = attempt[k]
  /\ UNCHANGED <<wish, terms, pool, used, nextId, orders, answer>>

HasOrder(j) == \E n \in DOMAIN orders : orders[n].journey = j

(* A journey that has an order stays with what it ordered by.              *)
LEMMA JourneyMoves ==
  ASSUME PartnerInv, NEW j \in Journeys, NEW to, NEW a, JourneyStep(j, to, a),
         DOMAIN a = AttemptFields, Gathered(j, wish[j], to, a),
         HasOrder(j) =>
           /\ to \in Late /\ (to = "submit" => wish[j].via)
           /\ a.approval = attempt[j].approval /\ a.id = attempt[j].id /\ a.min = attempt[j].min,
         to \in {"unsure", "placed", "done"} => HasOrder(j)
  PROVE  PartnerInv'
<1> USE DEF JourneyStep
<1>1. Shape'
  BY DEF PartnerInv, Shape
<1>2. JourneysSound'
  BY DEF PartnerInv, JourneysSound
<1>3. OrdersSound'
  <2> SUFFICES ASSUME NEW n \in DOMAIN orders,
                      NEW o, o = orders[n], NEW i, i = o.journey, NEW w, w = wish[i]
               PROVE  /\ AsAsked(w, attempt'[i], o) /\ AsRun(w, o) /\ AsClosed(w, o)
                      /\ pc'[i] \in Late /\ (pc'[i] = "submit" => w.via)
                      /\ w.m \in Solana => o.id \in Nat /\ o.id < nextId[w.m]
                      /\ Signs(w) => o.approval \in used[w.m]
    BY DEF OrdersSound
  <2>1. /\ AsAsked(w, attempt[i], o) /\ AsRun(w, o) /\ AsClosed(w, o)
        /\ pc[i] \in Late /\ (pc[i] = "submit" => w.via)
        /\ w.m \in Solana => o.id \in Nat /\ o.id < nextId[w.m]
        /\ Signs(w) => o.approval \in used[w.m]
    BY DEF PartnerInv, OrdersSound
  <2>2. i \in Journeys
    BY DEF PartnerInv, Shape
  <2>3. CASE i # j
    BY <2>1, <2>2, <2>3
  <2>4. CASE i = j
    <3>1. HasOrder(j)
      BY <2>4 DEF HasOrder
    <3>2. AsAsked(w, a, o)
      BY <2>1, <2>4, <3>1 DEF AsAsked
    <3> QED
      BY <2>1, <2>4, <3>1, <3>2
  <2> QED
    BY <2>3, <2>4
<1>4. OneEach'
  BY DEF PartnerInv, OneEach
<1>5. Ordered'
  BY DEF PartnerInv, Ordered, HasOrder
<1>6. AnswersSound'
  BY DEF PartnerInv, AnswersSound
<1> QED
  BY <1>1, <1>2, <1>3, <1>4, <1>5, <1>6 DEF PartnerInv

(* A journey that has not come to its submission has no order.             *)
LEMMA EarlyMoves ==
  ASSUME PartnerInv, NEW j \in Journeys, NEW to, NEW a, JourneyStep(j, to, a),
         DOMAIN a = AttemptFields, Gathered(j, wish[j], to, a),
         pc[j] \notin Late, to \notin {"unsure", "placed", "done"}
  PROVE  PartnerInv'
<1>1. ~HasOrder(j)
  BY DEF HasOrder, PartnerInv, OrdersSound
<1> QED
  BY <1>1, JourneyMoves

(* The chains move, under what is there.                                   *)
LEMMA ChainMoves ==
  ASSUME PartnerInv, UNCHANGED <<wish, pc, attempt, answer, orders>>,
         terms' \in [Mirrors -> TermsType], pool' \in [Tokens -> Nat],
         nextId' \in [Mirrors -> Nat], \A m \in Mirrors : nextId[m] <= nextId'[m],
         DOMAIN used' = Evm, \A m \in Evm : used[m] \subseteq used'[m]
  PROVE  PartnerInv'
<1>1. Shape'
  BY DEF PartnerInv, Shape
<1>2. JourneysSound' /\ OneEach' /\ Ordered' /\ AnswersSound'
  BY DEF PartnerInv, JourneysSound, OneEach, Ordered, AnswersSound
<1>3. OrdersSound'
  <2> SUFFICES ASSUME NEW n \in DOMAIN orders,
                      NEW o, o = orders[n], NEW j, j = o.journey, NEW w, w = wish[j]
               PROVE  /\ AsAsked(w, attempt[j], o) /\ AsRun(w, o) /\ AsClosed(w, o)
                      /\ pc[j] \in Late /\ (pc[j] = "submit" => w.via)
                      /\ w.m \in Solana => o.id \in Nat /\ o.id < nextId'[w.m]
                      /\ Signs(w) => o.approval \in used'[w.m]
    BY DEF OrdersSound
  <2>1. /\ AsAsked(w, attempt[j], o) /\ AsRun(w, o) /\ AsClosed(w, o)
        /\ pc[j] \in Late /\ (pc[j] = "submit" => w.via)
        /\ w.m \in Solana => o.id \in Nat /\ o.id < nextId[w.m]
        /\ Signs(w) => o.approval \in used[w.m]
    BY DEF PartnerInv, OrdersSound
  <2>2. w.m \in Solana => w.m \in Mirrors /\ nextId[w.m] \in Nat /\ nextId'[w.m] \in Nat
    BY DEF PartnerInv, Shape, Mirrors
  <2>3. w.m \in Solana => o.id < nextId'[w.m]
    BY <2>1, <2>2
  <2>4. Signs(w) => w.m \in Evm
    BY DEF Signs
  <2> QED
    BY <2>1, <2>3, <2>4
<1> QED
  BY <1>1, <1>2, <1>3 DEF PartnerInv

(* An order moves on, and stays the order it is.                           *)
LEMMA OrderMoves ==
  ASSUME PartnerInv, NEW k \in DOMAIN orders, NEW o, orders' = [orders EXCEPT ![k] = o],
         UNCHANGED <<wish, terms, used, nextId, pc, attempt, answer>>,
         pool' \in [Tokens -> Nat], DOMAIN o = OrderFields,
         o.journey = orders[k].journey, o.approval = orders[k].approval,
         o.id = orders[k].id, o.sent = orders[k].sent, o.floor = orders[k].floor,
         o.platform = orders[k].platform,
         AsRun(wish[o.journey], o), AsClosed(wish[o.journey], o),
         orders[k].status # "pending" => o.status = orders[k].status,
         orders[k].at \in {"refunding", "returned"} => o.at \in {"refunding", "returned"}
  PROVE  PartnerInv'
<1>1. /\ IsSequence(orders') /\ DOMAIN orders' = DOMAIN orders /\ orders'[k] = o
      /\ \A n \in DOMAIN orders : n # k => orders'[n] = orders[n]
  <2>1. IsSequence(orders)
    BY DEF PartnerInv, Shape
  <2> QED
    BY <2>1, OneOther
<1>2. Shape'
  BY <1>1 DEF PartnerInv, Shape
<1>3. JourneysSound'
  BY DEF PartnerInv, JourneysSound
<1>4. \A n \in DOMAIN orders : orders'[n].journey = orders[n].journey
  BY <1>1
<1>5. OneEach'
  BY <1>1, <1>4 DEF PartnerInv, OneEach
<1>6. Ordered'
  BY <1>1, <1>4 DEF PartnerInv, Ordered
<1>7. OrdersSound'
  <2> SUFFICES ASSUME NEW n \in DOMAIN orders,
                      NEW p, p = orders'[n], NEW j, j = p.journey, NEW w, w = wish[j]
               PROVE  /\ AsAsked(w, attempt[j], p) /\ AsRun(w, p) /\ AsClosed(w, p)
                      /\ pc[j] \in Late /\ (pc[j] = "submit" => w.via)
                      /\ w.m \in Solana => p.id \in Nat /\ p.id < nextId[w.m]
                      /\ Signs(w) => p.approval \in used[w.m]
    BY <1>1 DEF OrdersSound
  <2>1. PICK q : q = orders[n]
    OBVIOUS
  <2>2. j = q.journey
    BY <1>4, <2>1
  <2>3. /\ AsAsked(w, attempt[j], q) /\ AsRun(w, q) /\ AsClosed(w, q)
        /\ pc[j] \in Late /\ (pc[j] = "submit" => w.via)
        /\ w.m \in Solana => q.id \in Nat /\ q.id < nextId[w.m]
        /\ Signs(w) => q.approval \in used[w.m]
    BY <2>1, <2>2 DEF PartnerInv, OrdersSound
  <2>4. CASE n # k
    BY <1>1, <2>1, <2>3, <2>4
  <2>5. CASE n = k
    <3>1. p = o
      BY <1>1, <2>5
    <3>2. AsAsked(w, attempt[j], p)
      BY <2>1, <2>2, <2>3, <2>5, <3>1 DEF AsAsked
    <3> QED
      BY <2>1, <2>2, <2>3, <2>5, <3>1, <3>2
  <2> QED
    BY <2>4, <2>5
<1>8. AnswersSound'
  <2> SUFFICES ASSUME NEW j \in Journeys, NEW a, a = answer[j], a.status # "pending",
                      NEW n \in DOMAIN orders, orders[n].journey = j,
                      AsRead(wish[j], a, orders[n])
               PROVE  AsRead(wish[j], a, orders'[n])
    BY <1>1, <1>4 DEF PartnerInv, AnswersSound
  <2>1. CASE n # k
    BY <1>1, <2>1
  <2>2. CASE n = k
    BY <1>1, <2>2 DEF AsRead
  <2> QED
    BY <2>1, <2>2
<1> QED
  BY <1>2, <1>3, <1>5, <1>6, <1>7, <1>8 DEF PartnerInv

(* A read of an order that is there.                                       *)
LEMMA PollMoves ==
  ASSUME PartnerInv, NEW j \in Journeys, NEW a,
         UNCHANGED <<wish, terms, pool, used, nextId, pc, attempt, orders>>,
         DOMAIN answer' = Journeys, answer'[j] = a, DOMAIN a = AnswerFields,
         \A i \in Journeys : i # j => answer'[i] = answer[i],
         a.parts \in 0..3, a.parts = 0 => a.status = "pending",
         a.status # "pending" =>
           \E n \in DOMAIN orders : orders[n].journey = j /\ AsRead(wish[j], a, orders[n])
  PROVE  PartnerInv'
<1>1. Shape'
  BY DEF PartnerInv, Shape
<1>2. JourneysSound' /\ OrdersSound' /\ OneEach' /\ Ordered'
  BY DEF PartnerInv, JourneysSound, OrdersSound, OneEach, Ordered
<1>3. AnswersSound'
  BY DEF PartnerInv, AnswersSound
<1> QED
  BY <1>1, <1>2, <1>3 DEF PartnerInv

-----------------------------------------------------------------------------
(* A journey's steps before its submission.                                *)

(* What a call reads is a step of its journey.                             *)
LEMMA ReadsIsStep ==
  ASSUME PartnerInv, NEW j \in Journeys, NEW to, NEW a, Reads(j, to, a)
  PROVE  JourneyStep(j, to, a)
BY DEF PartnerInv, Shape, Reads, Goes, chainVars, JourneyStep

(* A call that goes on, before the journey's submission.                   *)
LEMMA ReadsEarly ==
  ASSUME PartnerInv, NEW j \in Journeys, NEW to, NEW a, Reads(j, to, a),
         DOMAIN a = AttemptFields, Gathered(j, wish[j], to, a),
         pc[j] \notin Late, to \notin {"unsure", "placed", "done"}
  PROVE  PartnerInv'
BY ReadsIsStep, EarlyMoves

(* A call that refuses, and leaves nothing gathered.                       *)
LEMMA RefusedMoves ==
  ASSUME PartnerInv, NEW j \in Journeys, Refused(j), ~HasOrder(j)
  PROVE  PartnerInv'
<1>1. PICK a : a = Blank
  OBVIOUS
<1>2. DOMAIN a = AttemptFields /\ a.approval = <<>>
  BY <1>1 DEF Blank, AttemptFields
<1>3. Gathered(j, wish[j], "refused", a)
  BY <1>2 DEF Gathered, Early, Late
<1>4. JourneyStep(j, "refused", a)
  BY <1>1, ReadsIsStep DEF Refused
<1> QED
  BY <1>2, <1>3, <1>4, JourneyMoves

(* A call that refuses, before the submission.                             *)
LEMMA EarlyRefused ==
  ASSUME PartnerInv, NEW j \in Journeys, Refused(j), pc[j] \notin Late
  PROVE  PartnerInv'
<1>1. ~HasOrder(j)
  BY DEF HasOrder, PartnerInv, OrdersSound
<1> QED
  BY <1>1, RefusedMoves

(* What an attempt has gathered stays so on a step that keeps its quote.   *)
LEMMA QuoteKept ==
  ASSUME NEW w, NEW a, NEW b, MatchesQuote(w, a),
         b.platform = a.platform, b.pool = a.pool, b.traded = a.traded,
         b.expected = a.expected, b.min = a.min
  PROVE  MatchesQuote(w, b)
BY DEF MatchesQuote

(* A call that learns nothing the quote or the approval is about.          *)
LEMMA ReadsOn ==
  ASSUME PartnerInv, NEW j \in Journeys, NEW to, NEW b, Reads(j, to, b),
         DOMAIN b = AttemptFields, b.platform = attempt[j].platform,
         b.pool = attempt[j].pool, b.traded = attempt[j].traded,
         b.expected = attempt[j].expected, b.min = attempt[j].min,
         b.approval = attempt[j].approval \/ IsApproval(b.approval, j),
         pc[j] \notin Late \cup Early, to \notin {"unsure", "placed", "done"},
         to \notin Early,
         to \notin {"fee", "quoted", "authorized"} => attempt[j].min > 0,
         Signs(wish[j]) /\ to \notin {"fee", "quoted"} => IsApproval(b.approval, j),
         wish[j].m \in Solana /\ to \in {"submit", "cosign"} => IsApproval(b.approval, j),
         to \in {"allowance", "approve"} => wish[j].m \in Evm
  PROVE  PartnerInv'
<1>1. Gathered(j, wish[j], pc[j], attempt[j])
  BY DEF PartnerInv, JourneysSound
<1>2. MatchesQuote(wish[j], b)
  BY <1>1, QuoteKept DEF Gathered
<1>3. Gathered(j, wish[j], to, b)
  BY <1>1, <1>2 DEF Gathered, Late
<1> QED
  BY <1>3, ReadsEarly

(* A quote worked out of a wish is the one the calls work out.             *)
LEMMA QuoteOfWish ==
  ASSUME NEW j, NEW bps, NEW p, NEW x, NEW y
  PROVE  /\ Traded(j, PlatformRate(j, bps)) = RemoveDust(NetOf(wish[j], bps), SentQuantum(wish[j]))
         /\ Expected(j, p, x) = Returned(wish[j], PaidFor(wish[j], p, ToShared(x, SentQuantum(wish[j]))))
         /\ MinAmountOut(j, y)
              = RemoveDust((y * (FeeUnit - Slippage)) \div FeeUnit, PaidQuantum(wish[j]))
BY DEF Traded, PlatformRate, Expected, MinAmountOut, NetOf, RateOf, SentQuantum, PaidQuantum,
       Returned, PaidFor, SpentBy, BoughtBy, Spent, Bought, On

(* The calls of a quote.                                                   *)
LEMMA QuoteMoves ==
  ASSUME PartnerInv, NEW j \in Journeys, Quote(j)
  PROVE  PartnerInv'
<1> DEFINE w == wish[j]
<1>1. DOMAIN attempt[j] = AttemptFields /\ Gathered(j, w, pc[j], attempt[j])
  BY DEF PartnerInv, Shape, JourneysSound
<1>2. ASSUME QuoteTerms(j), ~Refused(j)  PROVE PartnerInv'
  <2>1. PICK a : a = [attempt[j] EXCEPT !.platform = Now(j).platform]
    OBVIOUS
  <2>2. pc[j] = "start" /\ Reads(j, "market", a)
    BY <1>2, <2>1 DEF QuoteTerms, Learns
  <2>3. DOMAIN a = AttemptFields /\ a.approval = attempt[j].approval
    BY <1>1, <2>1 DEF AttemptFields
  <2>4. Gathered(j, w, "market", a)
    BY <1>1, <2>3 DEF Gathered, Early, Late
  <2> QED
    BY <2>2, <2>3, <2>4, ReadsEarly DEF Late
<1>3. ASSUME QuoteMarket(j), ~Refused(j)  PROVE PartnerInv'
  <2>1. PICK traded : traded = Traded(j, PlatformRate(j, attempt[j].platform))
    OBVIOUS
  <2>2. PICK out : out = Expected(j, pool, traded)
    OBVIOUS
  <2>3. PICK min : min = MinAmountOut(j, out)
    OBVIOUS
  <2>4. PICK a : a = [attempt[j] EXCEPT !.pool = pool, !.traded = traded, !.expected = out, !.min = min]
    OBVIOUS
  <2>5. pc[j] = "market" /\ Reads(j, "fee", a)
    BY <1>3, <2>1, <2>2, <2>3, <2>4 DEF QuoteMarket
  <2>6. /\ DOMAIN a = AttemptFields /\ a.approval = attempt[j].approval
        /\ a.platform = attempt[j].platform /\ a.pool = pool
        /\ a.traded = traded /\ a.expected = out /\ a.min = min
    BY <1>1, <2>4 DEF AttemptFields
  <2>7. /\ traded = RemoveDust(NetOf(w, a.platform), SentQuantum(w))
        /\ out = Returned(w, PaidFor(w, pool, ToShared(traded, SentQuantum(w))))
        /\ min = RemoveDust((out * (FeeUnit - Slippage)) \div FeeUnit, PaidQuantum(w))
    BY <2>1, <2>2, <2>3, <2>6, QuoteOfWish
  <2>8. MatchesQuote(w, a)
    BY <2>6, <2>7 DEF MatchesQuote
  <2>9. Gathered(j, w, "fee", a)
    BY <1>1, <2>6, <2>8 DEF Gathered, Early, Late
  <2> QED
    BY <2>5, <2>6, <2>9, ReadsEarly DEF Late
<1>4. ASSUME QuoteFee(j)  PROVE PartnerInv'
  <2>1. PICK a : a = [attempt[j] EXCEPT !.fee = price[On(j)]]
    OBVIOUS
  <2>2. pc[j] = "fee" /\ Reads(j, "quoted", a)
    BY <1>4, <2>1 DEF QuoteFee, Learns
  <2>3. /\ DOMAIN a = AttemptFields /\ a.approval = attempt[j].approval
        /\ a.platform = attempt[j].platform /\ a.pool = attempt[j].pool
        /\ a.traded = attempt[j].traded /\ a.expected = attempt[j].expected /\ a.min = attempt[j].min
    BY <1>1, <2>1 DEF AttemptFields
  <2> QED
    BY <2>2, <2>3, ReadsOn DEF Late, Early
<1>5. pc[j] \in {"start", "market", "fee"}
  BY DEF Quote, QuoteTerms, QuoteMarket, QuoteFee
<1>6. Refused(j) => PartnerInv'
  BY <1>5, EarlyRefused DEF Late
<1> QED
  BY <1>2, <1>3, <1>4, <1>6 DEF Quote

(* What an attempt keeps when its later fields are learned.                *)
LEMMA LaterFields ==
  ASSUME NEW a, DOMAIN a = AttemptFields, NEW b, NEW x, NEW y,
         \/ b = a \/ b = [a EXCEPT !.value = x] \/ b = [a EXCEPT !.signer = x]
         \/ b = [a EXCEPT !.id = x] \/ b = [a EXCEPT !.index = x]
         \/ b = [a EXCEPT !.lapsed = x]
         \/ b = [a EXCEPT !.approval = x, !.signer = y]
         \/ b = [a EXCEPT !.value = y, !.approval = x]
         \/ b = [a EXCEPT !.approval = x]
  PROVE  /\ DOMAIN b = AttemptFields
         /\ b.platform = a.platform /\ b.pool = a.pool /\ b.traded = a.traded
         /\ b.expected = a.expected /\ b.min = a.min
         /\ b.approval = a.approval \/ b.approval = x
BY DEF AttemptFields

(* A fresh approval is its journey's.                                      *)
LEMMA FreshIsApproval ==
  ASSUME NEW j, NEW x, x = Fresh(j)
  PROVE  IsApproval(x, j)
BY DEF Fresh, IsApproval

(* The partner's signature, and the terms read again.                      *)
LEMMA BuildMoves ==
  ASSUME PartnerInv, NEW j \in Journeys, Authorize(j) \/ BuildTerms(j)
  PROVE  PartnerInv'
<1>1. DOMAIN attempt[j] = AttemptFields /\ Gathered(j, wish[j], pc[j], attempt[j])
  BY DEF PartnerInv, Shape, JourneysSound
<1>2. On(j) = wish[j].m /\ (SignsFirst(j) <=> Signs(wish[j]))
  BY DEF On, SignsFirst, Signs
<1>3. pc[j] \in {"quoted", "authorized"}
  BY DEF Authorize, BuildTerms
<1>4. CASE Authorize(j)
  <2>1. PICK x : x = Fresh(j)
    OBVIOUS
  <2>2. PICK b : b = [attempt[j] EXCEPT !.approval = x, !.signer = Now(j).signer]
    OBVIOUS
  <2>3. Reads(j, "authorized", b)
    BY <1>4, <2>1, <2>2 DEF Authorize
  <2>4. b.approval = x /\ IsApproval(x, j)
    BY <1>1, <2>1, <2>2, FreshIsApproval DEF AttemptFields
  <2>5. PICK v : v = Now(j).signer
    OBVIOUS
  <2>6. /\ DOMAIN b = AttemptFields
        /\ b.platform = attempt[j].platform /\ b.pool = attempt[j].pool
        /\ b.traded = attempt[j].traded /\ b.expected = attempt[j].expected
        /\ b.min = attempt[j].min
    BY <1>1, <2>2, <2>5, LaterFields
  <2>7. pc[j] = "quoted" /\ wish[j].m \notin Solana
    BY <1>2, <1>4, PartnerAssumption DEF Authorize, Signs
  <2> QED
    BY <2>3, <2>4, <2>6, <2>7, ReadsOn DEF Late, Early
<1>5. CASE BuildTerms(j)
  <2>1. CASE Refused(j)
    BY <1>3, <2>1, EarlyRefused DEF Late
  <2>2. CASE ~Refused(j)
    <3>1. PICK b : b = attempt[j]
      OBVIOUS
    <3>2. PICK to : to = IF SignsFirst(j) THEN "nonce"
                         ELSE IF On(j) \in Evm THEN "value"
                         ELSE IF wish[j].via THEN "signer" ELSE "id"
      OBVIOUS
    <3>3. /\ Reads(j, to, b) /\ b.min > 0
          /\ Signs(wish[j]) => pc[j] = "authorized"
      BY <1>2, <1>5, <2>2, <3>1, <3>2 DEF BuildTerms, ParseAmount
    <3>4. Signs(wish[j]) => IsApproval(b.approval, j)
      BY <1>1, <3>1, <3>3 DEF Gathered, Early
    <3> QED
      BY <1>1, <1>3, <3>1, <3>2, <3>3, <3>4, ReadsOn DEF Late, Early
  <2> QED
    BY <2>1, <2>2
<1> QED
  BY <1>4, <1>5

(* Building for an EVM mirror.                                             *)
LEMMA BuildEvmMoves ==
  ASSUME PartnerInv, NEW j \in Journeys, BuildEvm(j)
  PROVE  PartnerInv'
<1>1. DOMAIN attempt[j] = AttemptFields /\ Gathered(j, wish[j], pc[j], attempt[j])
  BY DEF PartnerInv, Shape, JourneysSound
<1>2. On(j) = wish[j].m
  BY DEF On
<1>3. pc[j] \in {"nonce", "signer", "value", "allowance"}
  BY DEF BuildEvm, CheckNonce, CheckSigner, ReadValue, ReadAllowance
<1>4. /\ attempt[j].min > 0
      /\ Signs(wish[j]) => IsApproval(attempt[j].approval, j)
  BY <1>1, <1>3 DEF Gathered, Early
<1>5. CASE Refused(j)
  BY <1>3, <1>5, EarlyRefused DEF Late
<1>6. ASSUME NEW to \in {"signer", "value", "allowance", "approve", "submit"}, NEW b,
             Reads(j, to, b), DOMAIN b = AttemptFields, b.platform = attempt[j].platform,
             b.pool = attempt[j].pool, b.traded = attempt[j].traded,
             b.expected = attempt[j].expected, b.min = attempt[j].min,
             b.approval = attempt[j].approval,
             to \in {"allowance", "approve", "submit"} => wish[j].m \in Evm
      PROVE  PartnerInv'
  <2>1. wish[j].m \in Evm => wish[j].m \notin Solana
    BY PartnerAssumption
  <2> QED
    BY <1>1, <1>3, <1>4, <1>6, <2>1, ReadsOn DEF Late, Early
<1>7. PICK a : a = attempt[j]
  OBVIOUS
<1>8. CASE CheckNonce(j)
  BY <1>1, <1>5, <1>6, <1>7, <1>8 DEF CheckNonce
<1>9. CASE CheckSigner(j)
  BY <1>1, <1>5, <1>6, <1>7, <1>9 DEF CheckSigner
<1>10. CASE ReadValue(j)
  <2>1. PICK x : x = IF wish[j].keepsFee THEN attempt[j].fee ELSE price[On(j)]
    OBVIOUS
  <2>2. PICK b : b = [attempt[j] EXCEPT !.value = x]
    OBVIOUS
  <2>3. Reads(j, "allowance", b) /\ wish[j].m \in Evm
    BY <1>2, <1>10, <2>1, <2>2 DEF ReadValue, Learns
  <2>4. /\ DOMAIN b = AttemptFields
        /\ b.platform = attempt[j].platform /\ b.pool = attempt[j].pool
        /\ b.traded = attempt[j].traded /\ b.expected = attempt[j].expected
        /\ b.min = attempt[j].min /\ b.approval = attempt[j].approval
    BY <1>1, <2>2 DEF AttemptFields
  <2> QED
    BY <1>6, <2>3, <2>4
<1>11. CASE ReadAllowance(j)
  <2>1. wish[j].m \in Evm
    BY <1>1, <1>11 DEF ReadAllowance, Gathered
  <2>2. PICK to : to = IF Approves(allowance[On(j)][wish[j].user][Spent(j)], wish[j].gross)
                       THEN "approve" ELSE "submit"
    OBVIOUS
  <2>3. Reads(j, to, a) /\ to \in {"approve", "submit"}
    BY <1>7, <1>11, <2>2 DEF ReadAllowance
  <2> QED
    BY <1>1, <1>6, <1>7, <2>1, <2>3
<1> QED
  BY <1>8, <1>9, <1>10, <1>11 DEF BuildEvm

(* Building for a Solana one, and the partner's signature of it.           *)
LEMMA BuildSolanaMoves ==
  ASSUME PartnerInv, NEW j \in Journeys, BuildSolana(j) \/ CoSign(j)
  PROVE  PartnerInv'
<1>1. DOMAIN attempt[j] = AttemptFields /\ Gathered(j, wish[j], pc[j], attempt[j])
  BY DEF PartnerInv, Shape, JourneysSound
<1>2. On(j) = wish[j].m
  BY DEF On
<1>3. pc[j] \in {"signer", "id", "index", "cap", "cosign"}
  BY DEF BuildSolana, NameSigner, NextRequestId, NonceIndex, QuoteSend, CoSign
<1>4. /\ attempt[j].min > 0
      /\ Signs(wish[j]) => IsApproval(attempt[j].approval, j)
  BY <1>1, <1>3 DEF Gathered, Early
<1>5. CASE Refused(j)
  BY <1>3, <1>5, EarlyRefused DEF Late
<1>6. ASSUME NEW to \in {"id", "index", "cap", "cosign", "submit"}, NEW b,
             Reads(j, to, b), DOMAIN b = AttemptFields, b.platform = attempt[j].platform,
             b.pool = attempt[j].pool, b.traded = attempt[j].traded,
             b.expected = attempt[j].expected, b.min = attempt[j].min,
             b.approval = attempt[j].approval \/ IsApproval(b.approval, j),
             wish[j].m \in Solana /\ to \in {"cosign", "submit"} => IsApproval(b.approval, j)
      PROVE  PartnerInv'
  BY <1>1, <1>3, <1>4, <1>6, ReadsOn DEF Late, Early
<1>7. ASSUME NEW to \in {"id", "index", "cap"}, NEW x, NEW b,
             \/ b = [attempt[j] EXCEPT !.signer = x]
             \/ b = [attempt[j] EXCEPT !.id = x]
             \/ b = [attempt[j] EXCEPT !.index = x],
             Reads(j, to, b)
      PROVE  PartnerInv'
  <2>1. /\ DOMAIN b = AttemptFields
        /\ b.platform = attempt[j].platform /\ b.pool = attempt[j].pool
        /\ b.traded = attempt[j].traded /\ b.expected = attempt[j].expected
        /\ b.min = attempt[j].min /\ b.approval = attempt[j].approval
    BY <1>1, <1>7 DEF AttemptFields
  <2> QED
    BY <1>6, <1>7, <2>1
<1>8. CASE NameSigner(j)
  <2>1. PICK x : x = Now(j).signer
    OBVIOUS
  <2>2. PICK b : b = [attempt[j] EXCEPT !.signer = x]
    OBVIOUS
  <2> QED
    BY <1>7, <1>8, <2>1, <2>2 DEF NameSigner, Learns
<1>9. CASE NextRequestId(j)
  <2>1. PICK x : x = nextId[On(j)]
    OBVIOUS
  <2>2. PICK b : b = [attempt[j] EXCEPT !.id = x]
    OBVIOUS
  <2> QED
    BY <1>7, <1>9, <2>1, <2>2 DEF NextRequestId, Learns
<1>10. CASE NonceIndex(j)
  <2>1. PICK x : x = NextOutboundNonce(On(j), Spent(j))
    OBVIOUS
  <2>2. PICK b : b = [attempt[j] EXCEPT !.index = x]
    OBVIOUS
  <2> QED
    BY <1>7, <1>10, <2>1, <2>2 DEF NonceIndex, Learns
<1>11. CASE QuoteSend(j)
  <2>1. PICK x : x = Fresh(j)
    OBVIOUS
  <2>2. PICK y : y = price[On(j)]
    OBVIOUS
  <2>3. PICK b : b = [attempt[j] EXCEPT !.value = y, !.approval = x]
    OBVIOUS
  <2>4. PICK to : to = IF wish[j].via THEN "cosign" ELSE "submit"
    OBVIOUS
  <2>5. Reads(j, to, b) /\ to \in {"cosign", "submit"}
    BY <1>11, <2>1, <2>2, <2>3, <2>4 DEF QuoteSend
  <2>6. /\ DOMAIN b = AttemptFields
        /\ b.platform = attempt[j].platform /\ b.pool = attempt[j].pool
        /\ b.traded = attempt[j].traded /\ b.expected = attempt[j].expected
        /\ b.min = attempt[j].min /\ b.approval = x
    BY <1>1, <2>3 DEF AttemptFields
  <2>7. IsApproval(x, j)
    BY <2>1, FreshIsApproval
  <2> QED
    BY <1>6, <2>5, <2>6, <2>7
<1>12. CASE CoSign(j)
  <2>1. PICK a : a = attempt[j]
    OBVIOUS
  <2>2. wish[j].m \in Solana => IsApproval(a.approval, j)
    BY <1>1, <1>12, <2>1 DEF CoSign, Gathered
  <2> QED
    BY <1>1, <1>5, <1>6, <1>12, <2>1, <2>2 DEF CoSign
<1> QED
  BY <1>8, <1>9, <1>10, <1>11, <1>12 DEF BuildSolana

(* A journey that starts again, or whose call fails, has no order.         *)
LEMMA RestartMoves ==
  ASSUME PartnerInv, NEW j \in Journeys, StartAgain(j) \/ CallFails(j)
  PROVE  PartnerInv'
<1>1. DOMAIN attempt[j] = AttemptFields /\ Gathered(j, wish[j], pc[j], attempt[j])
  BY DEF PartnerInv, Shape, JourneysSound
<1>2. pc[j] \notin Late
  BY DEF StartAgain, CallFails, Late
<1>3. CASE StartAgain(j)
  <2>1. PICK a : a = attempt[j]
    OBVIOUS
  <2>2. JourneyStep(j, "start", a)
    BY <1>3, <2>1 DEF PartnerInv, Shape, StartAgain, Goes, chainVars, JourneyStep
  <2>3. Gathered(j, wish[j], "start", a)
    BY <1>1, <2>1 DEF Gathered, Early, Late
  <2> QED
    BY <1>1, <1>2, <2>1, <2>2, <2>3, EarlyMoves
<1>4. CASE CallFails(j)
  <2>1. PICK a : a = Blank
    OBVIOUS
  <2>2. JourneyStep(j, "refused", a)
    BY <1>4, <2>1 DEF PartnerInv, Shape, CallFails, Goes, chainVars, JourneyStep
  <2>3. DOMAIN a = AttemptFields /\ a.approval = <<>>
    BY <2>1 DEF Blank, AttemptFields
  <2>4. Gathered(j, wish[j], "refused", a)
    BY <2>3 DEF Gathered, Early, Late
  <2> QED
    BY <1>2, <2>2, <2>3, <2>4, EarlyMoves
<1> QED
  BY <1>3, <1>4

(* An approval of the input, and an approval that lapses.                  *)
LEMMA ApproveMoves ==
  ASSUME PartnerInv, NEW j \in Journeys, Approve(j) \/ Lapse(j)
  PROVE  PartnerInv'
<1>1. DOMAIN attempt[j] = AttemptFields /\ Gathered(j, wish[j], pc[j], attempt[j])
  BY DEF PartnerInv, Shape, JourneysSound
<1>2. CASE Approve(j)
  <2>1. PICK a : a = attempt[j]
    OBVIOUS
  <2>2. JourneyStep(j, "submit", a) /\ pc[j] = "approve"
    BY <1>2, <2>1 DEF PartnerInv, Shape, Approve, Goes, JourneyStep
  <2>3. Gathered(j, wish[j], "submit", a)
    BY <1>1, <2>1, <2>2, PartnerAssumption DEF Gathered, Early, Late
  <2> QED
    BY <1>1, <2>1, <2>2, <2>3, EarlyMoves DEF Late
<1>3. CASE Lapse(j)
  <2>1. PICK b : b = [attempt[j] EXCEPT !.lapsed = TRUE]
    OBVIOUS
  <2>2. PICK to : to = pc[j]
    OBVIOUS
  <2>3. JourneyStep(j, to, b) /\ to \notin {"unsure", "placed", "done"}
    BY <1>3, <2>1, <2>2 DEF PartnerInv, Shape, Lapse, chainVars, JourneyStep
  <2>4. /\ DOMAIN b = AttemptFields
        /\ b.platform = attempt[j].platform /\ b.pool = attempt[j].pool
        /\ b.traded = attempt[j].traded /\ b.expected = attempt[j].expected
        /\ b.min = attempt[j].min /\ b.approval = attempt[j].approval /\ b.id = attempt[j].id
    BY <1>1, <2>1 DEF AttemptFields
  <2>5. Gathered(j, wish[j], to, b)
    <3>1. to \notin Early => MatchesQuote(wish[j], b)
      BY <1>1, <2>2, <2>4, QuoteKept DEF Gathered
    <3> QED
      BY <1>1, <2>2, <2>4, <3>1 DEF Gathered
  <2>6. HasOrder(j) => to \in Late /\ (to = "submit" => wish[j].via)
    BY <2>2 DEF HasOrder, PartnerInv, OrdersSound
  <2> QED
    BY <2>3, <2>4, <2>5, <2>6, JourneyMoves
<1> QED
  BY <1>2, <1>3

-----------------------------------------------------------------------------
(* The transactions.                                                       *)

(* An order and its journey's attempt have one approval, and no other has. *)
LEMMA OwnOrder ==
  ASSUME PartnerInv, NEW j \in Journeys, NEW n \in DOMAIN orders
  PROVE  orders[n].approval = attempt[j].approval <=> orders[n].journey = j
<1>1. PICK o : o = orders[n]
  OBVIOUS
<1>2. PICK k : k = o.journey
  OBVIOUS
<1>3. o.approval = attempt[k].approval /\ IsApproval(o.approval, k)
  BY <1>1, <1>2 DEF PartnerInv, OrdersSound, AsAsked
<1>4. attempt[j].approval = <<>> \/ IsApproval(attempt[j].approval, j)
  BY DEF PartnerInv, JourneysSound, Gathered
<1>5. ASSUME o.approval = attempt[j].approval  PROVE k = j
  BY <1>3, <1>4, <1>5 DEF IsApproval
<1> QED
  BY <1>1, <1>2, <1>3, <1>5

(* A transaction sent again, found out about, or that reverts.             *)
LEMMA AnswerMoves ==
  ASSUME PartnerInv, NEW j \in Journeys, Resend(j) \/ FindsOut(j) \/ Reverted(j)
  PROVE  PartnerInv'
<1>1. DOMAIN attempt[j] = AttemptFields /\ Gathered(j, wish[j], pc[j], attempt[j])
  BY DEF PartnerInv, Shape, JourneysSound
<1>2. pc[j] \in {"unsure", "submit"}
  BY DEF Resend, FindsOut, Reverted
<1>3. ASSUME NEW to \in {"submit", "placed"}, Reads(j, to, attempt[j]), HasOrder(j),
             to = "submit" => wish[j].via
      PROVE  PartnerInv'
  <2>1. PICK a : a = attempt[j]
    OBVIOUS
  <2>2. JourneyStep(j, to, a)
    BY <1>3, <2>1, ReadsIsStep
  <2>3. Gathered(j, wish[j], to, a)
    BY <1>1, <1>2, <2>1 DEF Gathered, Early, Late
  <2> QED
    BY <1>1, <1>3, <2>1, <2>2, <2>3, JourneyMoves DEF Late
<1>4. pc[j] = "unsure" => HasOrder(j)
  BY DEF PartnerInv, Ordered, HasOrder
<1>5. Placed(j) <=> HasOrder(j)
  BY OwnOrder DEF Placed, HasOrder
<1>6. CASE Resend(j)
  BY <1>3, <1>4, <1>6 DEF Resend
<1>7. CASE FindsOut(j)
  BY <1>3, <1>4, <1>7 DEF FindsOut
<1>8. CASE Reverted(j)
  BY <1>3, <1>5, <1>8, RefusedMoves DEF Reverted
<1> QED
  BY <1>6, <1>7, <1>8

(* What is accepted is not there yet: an approval is used, or the request  *)
(* id it was built for is taken.                                           *)
LEMMA AcceptedIsNew ==
  ASSUME PartnerInv, NEW j \in Journeys, pc[j] = "submit", Accepted(j)
  PROVE  ~HasOrder(j)
<1> SUFFICES ASSUME NEW n \in DOMAIN orders, NEW o, o = orders[n], o.journey = j
             PROVE  FALSE
  BY DEF HasOrder
<1> DEFINE w == wish[j]
<1>1. /\ AsAsked(w, attempt[j], o) /\ w.via
      /\ w.m \in Solana => o.id \in Nat /\ o.id < nextId[w.m]
      /\ Signs(w) => o.approval \in used[w.m]
  BY DEF PartnerInv, OrdersSound
<1>2. w.m \in Evm \/ w.m \in Solana
  BY DEF PartnerInv, Shape, WishType, Mirrors
<1>3. On(j) = w.m
  BY DEF On
<1>4. CASE w.m \in Evm
  BY <1>1, <1>3, <1>4 DEF Accepted, Approved, AsAsked, Signs
<1>5. CASE w.m \in Solana /\ w.m \notin Evm
  <2>1. o.id = nextId[w.m] /\ nextId[w.m] \in Nat
    BY <1>1, <1>3, <1>5 DEF Accepted, Names, AsAsked, PartnerInv, Shape, Mirrors
  <2> QED
    BY <1>1, <1>5, <2>1
<1> QED
  BY <1>2, <1>4, <1>5

(* A fee is a natural number, and fees come off one after the other.       *)
LEMMA FeesComeOff ==
  ASSUME NEW gross \in Nat, NEW bps \in Nat, NEW rate \in Nat
  PROVE  /\ FeeOf(gross, bps, FeeUnit) \in Nat
         /\ gross - (FeeOf(gross, bps, FeeUnit) + FeeOf(gross, rate, FeeUnit))
              = gross - FeeOf(gross, bps, FeeUnit) - FeeOf(gross, rate, FeeUnit)
<1>1. ASSUME NEW b \in Nat  PROVE FeeOf(gross, b, FeeUnit) \in Nat
  <2>1. PICK x : x = gross * b
    OBVIOUS
  <2>2. x \in Nat /\ FeeUnit \in Nat \ {0}
    BY <2>1, PartnerAssumption
  <2>3. x \div FeeUnit \in Nat
    BY <2>2
  <2> QED
    BY <2>1, <2>3 DEF FeeOf
<1> QED
  BY <1>1

(* What the order sent by a submission carries.                            *)
LEMMA OrderAsAsked ==
  ASSUME PartnerInv, NEW j \in Journeys, pc[j] = "submit", Accepted(j),
         NEW o, o = Order(j), NEW a, a.approval = o.approval, a.id = attempt[j].id,
         a.min = attempt[j].min
  PROVE  /\ DOMAIN o = OrderFields /\ o.journey = j /\ IsApproval(o.approval, j)
         /\ AsAsked(wish[j], a, o) /\ AsRun(wish[j], o) /\ AsClosed(wish[j], o)
         /\ o.id = nextId[wish[j].m] /\ (Signs(wish[j]) => o.approval = attempt[j].approval)
<1>1. PICK w : w = wish[j]
  OBVIOUS
<1>2. /\ w \in WishType /\ w.gross \in Nat /\ w.bps \in Nat /\ w.m \in Mirrors
      /\ terms[w.m].platform \in Nat
  BY <1>1 DEF PartnerInv, Shape, WishType, TermsType
<1>3. On(j) = w.m /\ (SignsFirst(j) <=> Signs(w)) /\ Spent(j) = SpentBy(w) /\ Bought(j) = BoughtBy(w)
  BY <1>1 DEF On, SignsFirst, Signs, Spent, Bought, SpentBy, BoughtBy
<1>4. PICK platform : platform = terms[w.m].platform
  OBVIOUS
<1>5. PlatformCharged(j) = RateOf(w, platform) /\ RateOf(w, platform) \in Nat
  BY <1>1, <1>2, <1>3, <1>4 DEF PlatformCharged, RateOf, Now
<1>6. w.gross - FeesTaken(j) = NetOf(w, platform)
  <2>1. FeesTaken(j) = FeeOf(w.gross, w.bps, FeeUnit) + FeeOf(w.gross, RateOf(w, platform), FeeUnit)
    BY <1>1, <1>5 DEF FeesTaken
  <2> QED
    BY <1>2, <1>5, <2>1, FeesComeOff DEF NetOf
<1>7. PICK fees : fees = IF FeesTaken(j) > 0 THEN "escrowed" ELSE "none"
  OBVIOUS
<1>8. PICK approval : approval = IF SignsFirst(j) \/ On(j) \in Solana THEN attempt[j].approval ELSE Fresh(j)
  OBVIOUS
<1>9. PICK id : id = nextId[w.m]
  OBVIOUS
<1>10. PICK sent : sent = ToShared(NetOf(w, platform), SentQuantum(w))
  OBVIOUS
<1>11. PICK floor : floor = FloorToShared(a.min, PaidQuantum(w))
  OBVIOUS
<1>12. o = [approval |-> approval, journey |-> j, id |-> id, platform |-> platform,
            sent |-> sent, floor |-> floor, at |-> "sent", result |-> "none", out |-> 0,
            pool |-> FirstPool, status |-> "pending", fees |-> fees]
  BY <1>1, <1>3, <1>4, <1>6, <1>7, <1>8, <1>9, <1>10, <1>11 DEF Order, Now, SentQuantum, PaidQuantum
<1>13. sent \in Nat \ {0}
  <2>1. PICK net : net = NetOf(w, platform)
    OBVIOUS
  <2>2. PICK q : q = SentQuantum(w)
    OBVIOUS
  <2>3. net \in Int
    <3>1. PICK rate : rate = RateOf(w, platform)
      OBVIOUS
    <3>2. PICK x : x = FeeOf(w.gross, w.bps, FeeUnit)
      OBVIOUS
    <3>3. PICK y : y = FeeOf(w.gross, rate, FeeUnit)
      OBVIOUS
    <3>4. x \in Nat /\ y \in Nat
      BY <1>2, <1>5, <3>1, <3>2, <3>3, FeesComeOff
    <3>5. net = w.gross - x - y
      BY <2>1, <3>1, <3>2, <3>3 DEF NetOf
    <3> QED
      BY <1>2, <3>4, <3>5
  <2>4. q \in Nat \ {0}
    BY <1>2, <2>2, PartnerAssumption DEF SentQuantum, SpentBy, Tokens
  <2>5. sent > 0
    BY <1>1, <1>3, <1>6, <1>10 DEF Accepted, SentQuantum
  <2>6. sent = net \div q
    BY <1>10, <2>1, <2>2 DEF ToShared
  <2> QED
    BY <2>3, <2>4, <2>5, <2>6
<1>14. IsApproval(approval, j)
  <2>1. Gathered(j, w, "submit", attempt[j])
    BY <1>1 DEF PartnerInv, JourneysSound
  <2>2. SignsFirst(j) \/ On(j) \in Solana => IsApproval(attempt[j].approval, j)
    BY <1>3, <2>1 DEF Gathered, Early, Late
  <2> QED
    BY <1>8, <2>2, FreshIsApproval
<1>15. /\ o.approval = approval /\ o.journey = j /\ o.id = id /\ o.platform = platform
       /\ o.sent = sent /\ o.floor = floor /\ o.result = "none" /\ o.status = "pending"
       /\ o.fees \in {"escrowed", "none"} /\ DOMAIN o = OrderFields
  BY <1>7, <1>12 DEF OrderFields
<1>16. w.m \in Solana => id = attempt[j].id
  BY <1>3, <1>9, PartnerAssumption DEF Accepted, Names
<1>17. AsAsked(w, a, o)
  BY <1>10, <1>11, <1>13, <1>14, <1>15, <1>16 DEF AsAsked
<1>18. AsRun(w, o) /\ AsClosed(w, o)
  BY <1>15 DEF AsRun, AsClosed
<1> QED
  BY <1>1, <1>3, <1>8, <1>9, <1>14, <1>15, <1>17, <1>18

(* A submission: one order more, of a journey that had none.               *)
LEMMA SubmitMoves ==
  ASSUME PartnerInv, NEW j \in Journeys, Submit(j)
  PROVE  PartnerInv'
<1>1. pc[j] = "submit" /\ Accepted(j) /\ ~HasOrder(j)
  BY AcceptedIsNew DEF Submit
<1>2. PICK w : w = wish[j]
  OBVIOUS
<1>3. PICK o : o = Order(j)
  OBVIOUS
<1>4. On(j) = w.m /\ w.m \in Mirrors
  BY <1>2 DEF On, PartnerInv, Shape, WishType
<1>5. PICK a : a = attempt'[j]
  OBVIOUS
<1>6. /\ DOMAIN attempt[j] = AttemptFields /\ Gathered(j, w, "submit", attempt[j])
      /\ j \in DOMAIN attempt
  BY <1>1, <1>2 DEF PartnerInv, Shape, JourneysSound
<1>7. PICK b : b = [attempt[j] EXCEPT !.approval = o.approval]
  OBVIOUS
<1>8. attempt' = [attempt EXCEPT ![j] = b] /\ a = b
  BY <1>3, <1>5, <1>6, <1>7 DEF Submit
<1>9. /\ DOMAIN b = AttemptFields
      /\ b.platform = attempt[j].platform /\ b.pool = attempt[j].pool
      /\ b.traded = attempt[j].traded /\ b.expected = attempt[j].expected
      /\ b.min = attempt[j].min /\ b.approval = o.approval /\ b.id = attempt[j].id
  BY <1>6, <1>7 DEF AttemptFields
<1>10. /\ DOMAIN o = OrderFields /\ o.journey = j /\ IsApproval(o.approval, j)
       /\ AsAsked(w, b, o) /\ AsRun(w, o) /\ AsClosed(w, o)
       /\ o.id = nextId[w.m] /\ (Signs(w) => o.approval = attempt[j].approval)
  BY <1>1, <1>2, <1>3, <1>9, OrderAsAsked
<1>11. PICK to : to = pc'[j]
  OBVIOUS
<1>12. /\ to \in {"placed", "unsure"} /\ DOMAIN pc' = Journeys
       /\ DOMAIN attempt' = Journeys /\ attempt'[j] = b
       /\ \A k \in Journeys \ {j} : pc'[k] = pc[k] /\ attempt'[k] = attempt[k]
  BY <1>8, <1>11 DEF Submit, Goes, PartnerInv, Shape
<1>13. Gathered(j, w, to, b)
  <2>1. MatchesQuote(w, b)
    BY <1>6, <1>9, QuoteKept DEF Gathered, Early
  <2> QED
    BY <1>6, <1>9, <1>10, <1>12, <2>1 DEF Gathered, Early, Late
<1>14. PICK c : /\ c \notin DOMAIN orders /\ DOMAIN orders' = DOMAIN orders \cup {c}
                /\ orders'[c] = o /\ IsSequence(orders')
                /\ \A n \in DOMAIN orders : orders'[n] = orders[n]
  <2>1. PICK s : s = orders
    OBVIOUS
  <2>2. PICK t : t = orders'
    OBVIOUS
  <2>3. IsSequence(s) /\ Extends(t, s, o)
    BY <1>3, <2>1, <2>2 DEF PartnerInv, Shape, Submit, Extends
  <2>4. /\ IsSequence(t)
        /\ \E k : /\ k \notin DOMAIN s /\ DOMAIN t = DOMAIN s \cup {k} /\ t[k] = o
                  /\ \A n \in DOMAIN s : t[n] = s[n]
    BY <2>3, OneMore
  <2> QED
    BY <2>1, <2>2, <2>4
<1>15. /\ nextId' \in [Mirrors -> Nat] /\ \A m \in Mirrors : nextId[m] <= nextId'[m]
       /\ nextId'[w.m] = nextId[w.m] + 1
  BY <1>4 DEF Submit, PartnerInv, Shape
<1>16. /\ DOMAIN used' = Evm /\ \A m \in Evm : used[m] \subseteq used'[m]
       /\ Signs(w) => attempt[j].approval \in used'[w.m]
  <2>1. CASE w.m \in Evm
    <3>1. PICK u : u = IF w.via THEN used[w.m] \cup {attempt[j].approval} ELSE used[w.m]
      OBVIOUS
    <3>2. used' = [used EXCEPT ![w.m] = u]
      BY <1>2, <1>4, <2>1, <3>1 DEF Submit
    <3>3. DOMAIN used = Evm
      BY DEF PartnerInv, Shape
    <3> QED
      BY <2>1, <3>1, <3>2, <3>3 DEF Signs
  <2>2. CASE w.m \notin Evm
    BY <1>4, <2>2 DEF Submit, PartnerInv, Shape, Signs
  <2> QED
    BY <2>1, <2>2
<1>17. UNCHANGED <<wish, terms, pool, answer>>
  BY DEF Submit
<1>18. \A n \in DOMAIN orders : orders[n].journey \in Journeys \ {j}
  BY <1>1 DEF HasOrder, PartnerInv, Shape
<1>19. Shape'
  BY <1>9, <1>10, <1>12, <1>14, <1>15, <1>16, <1>17 DEF PartnerInv, Shape
<1>20. JourneysSound'
  BY <1>2, <1>12, <1>11, <1>13, <1>17 DEF PartnerInv, JourneysSound
<1>21. OrdersSound'
  <2> SUFFICES ASSUME NEW n \in DOMAIN orders',
                      NEW p, p = orders'[n], NEW i, i = p.journey, NEW v, v = wish[i]
               PROVE  /\ AsAsked(v, attempt'[i], p) /\ AsRun(v, p) /\ AsClosed(v, p)
                      /\ pc'[i] \in Late /\ (pc'[i] = "submit" => v.via)
                      /\ v.m \in Solana => p.id \in Nat /\ p.id < nextId'[v.m]
                      /\ Signs(v) => p.approval \in used'[v.m]
    BY <1>17 DEF OrdersSound
  <2>1. CASE n = c
    <3>1. p = o /\ i = j /\ v = w
      BY <1>2, <1>10, <1>14, <2>1
    <3>2. o.id \in Nat /\ o.id < nextId'[w.m]
      BY <1>4, <1>10, <1>15 DEF PartnerInv, Shape
    <3> QED
      BY <1>10, <1>11, <1>12, <1>16, <3>1, <3>2 DEF Late
  <2>2. CASE n # c
    <3>1. n \in DOMAIN orders /\ p = orders[n] /\ i \in Journeys \ {j}
      BY <1>14, <1>18, <2>2
    <3>2. attempt'[i] = attempt[i] /\ pc'[i] = pc[i]
      BY <1>12, <3>1
    <3>3. /\ AsAsked(v, attempt[i], p) /\ AsRun(v, p) /\ AsClosed(v, p)
          /\ pc[i] \in Late /\ (pc[i] = "submit" => v.via)
          /\ v.m \in Solana => p.id \in Nat /\ p.id < nextId[v.m]
          /\ Signs(v) => p.approval \in used[v.m]
      BY <3>1 DEF PartnerInv, OrdersSound
    <3>4. v.m \in Mirrors /\ nextId[v.m] \in Nat /\ nextId'[v.m] \in Nat /\ nextId[v.m] <= nextId'[v.m]
      BY <1>15, <3>1 DEF PartnerInv, Shape, WishType
    <3>5. v.m \in Solana => p.id \in Nat /\ p.id < nextId'[v.m]
      BY <3>3, <3>4
    <3>6. Signs(v) => p.approval \in used'[v.m]
      BY <1>16, <3>3 DEF Signs
    <3> QED
      BY <3>2, <3>3, <3>5, <3>6
  <2> QED
    BY <2>1, <2>2
<1>22. OneEach'
  BY <1>10, <1>14, <1>18 DEF PartnerInv, OneEach
<1>23. Ordered'
  BY <1>10, <1>12, <1>14 DEF PartnerInv, Ordered
<1>24. AnswersSound'
  BY <1>14, <1>17 DEF PartnerInv, AnswersSound
<1> QED
  BY <1>19, <1>20, <1>21, <1>22, <1>23, <1>24 DEF PartnerInv

-----------------------------------------------------------------------------
(* What becomes of an order.                                               *)

(* An order run as it was is still run so, whatever else changes.          *)
LEMMA RunKept ==
  ASSUME NEW w, NEW o, AsRun(w, o), NEW p,
         p.result = o.result /\ p.out = o.out /\ p.pool = o.pool /\ p.sent = o.sent
           /\ p.floor = o.floor
  PROVE  AsRun(w, p)
BY DEF AsRun

(* A request that closes releases its fees on an EVM mirror.               *)
LEMMA ClosedIsSound ==
  ASSUME PartnerInv, NEW k \in DOMAIN orders, NEW o, o = orders[k], o.status = "pending",
         NEW status, status # "pending", NEW p, p = Closed(o, status),
         status = "stranded" => o.at \in {"held", "refunding", "returned"}
  PROVE  /\ DOMAIN p = OrderFields
         /\ p.journey = o.journey /\ p.approval = o.approval /\ p.id = o.id
         /\ p.sent = o.sent /\ p.floor = o.floor /\ p.platform = o.platform
         /\ p.result = o.result /\ p.out = o.out /\ p.pool = o.pool
         /\ p.at = o.at /\ p.status = status
         /\ AsClosed(wish[o.journey], p)
<1>1. DOMAIN o = OrderFields /\ AsClosed(wish[o.journey], o) /\ o.journey \in Journeys
  BY DEF PartnerInv, Shape, OrdersSound
<1>2. PICK w : w = wish[o.journey]
  OBVIOUS
<1>3. On(o.journey) = w.m /\ w.m \in Mirrors
  BY <1>1, <1>2 DEF On, PartnerInv, Shape, WishType
<1>4. PICK fees : fees = Released(o, status)
  OBVIOUS
<1>5. p = [o EXCEPT !.status = status, !.fees = fees]
  BY <1>4 DEF Closed
<1>6. /\ p.status = status /\ p.fees = fees /\ p.at = o.at
  BY <1>1, <1>5 DEF OrderFields
<1>7. /\ fees = "paid" => status = "filled"
      /\ fees = "returned" => status # "filled"
      /\ w.m \in Evm => fees # "escrowed"
  <2>1. o.fees \notin {"paid", "returned"}
    BY <1>1 DEF AsClosed
  <2>2. fees = IF o.fees # "escrowed" \/ w.m \in Solana THEN o.fees
               ELSE IF status = "filled" THEN "paid" ELSE "returned"
    BY <1>3, <1>4 DEF Released
  <2>3. w.m \in Evm => w.m \notin Solana
    BY PartnerAssumption
  <2> QED
    BY <2>1, <2>2, <2>3
<1>8. AsClosed(w, p)
  BY <1>6, <1>7 DEF AsClosed
<1>9. /\ DOMAIN p = OrderFields
      /\ p.journey = o.journey /\ p.approval = o.approval /\ p.id = o.id
      /\ p.sent = o.sent /\ p.floor = o.floor /\ p.platform = o.platform
      /\ p.result = o.result /\ p.out = o.out /\ p.pool = o.pool
  BY <1>1, <1>5 DEF OrderFields
<1> QED
  BY <1>2, <1>6, <1>8, <1>9

(* The order held is sent on, or its message is killed.                    *)
LEMMA RetryMoves ==
  ASSUME PartnerInv, NEW k \in DOMAIN orders, Retry(k) \/ Kill(k)
  PROVE  PartnerInv'
<1>1. PICK o : o = orders[k]
  OBVIOUS
<1>2. DOMAIN o = OrderFields /\ AsRun(wish[o.journey], o) /\ AsClosed(wish[o.journey], o)
  BY <1>1 DEF PartnerInv, Shape, OrdersSound
<1>3. PICK to : to = IF Retry(k) THEN "refunding" ELSE "killed"
  OBVIOUS
<1>4. PICK p : p = [o EXCEPT !.at = to]
  OBVIOUS
<1>5. /\ orders' = [orders EXCEPT ![k] = p]
      /\ UNCHANGED <<wish, terms, used, nextId, pc, attempt, answer, pool>>
      /\ \/ o.at = "held" /\ to = "refunding"
         \/ o.at = "sent" /\ to = "killed"
  <2>1. Retry(k) => ~Kill(k)
    BY DEF Retry, Kill
  <2> QED
    BY <1>1, <1>3, <1>4, <2>1 DEF Retry, Kill, Becomes, journeyVars
<1>6. /\ DOMAIN p = OrderFields
      /\ p.journey = o.journey /\ p.approval = o.approval /\ p.id = o.id
      /\ p.sent = o.sent /\ p.floor = o.floor /\ p.platform = o.platform
      /\ p.result = o.result /\ p.out = o.out /\ p.pool = o.pool
      /\ p.at = to /\ p.status = o.status /\ p.fees = o.fees
  BY <1>2, <1>4 DEF OrderFields
<1>7. AsRun(wish[p.journey], p)
  BY <1>2, <1>6, RunKept
<1>8. AsClosed(wish[p.journey], p)
  BY <1>2, <1>5, <1>6 DEF AsClosed
<1>9. pool' \in [Tokens -> Nat]
  BY <1>5 DEF PartnerInv, Shape
<1> QED
  BY <1>1, <1>5, <1>6, <1>7, <1>8, <1>9, OrderMoves

(* The fees of a Solana request are settled.                               *)
LEMMA SettleMoves ==
  ASSUME PartnerInv, NEW k \in DOMAIN orders, SettleFees(k)
  PROVE  PartnerInv'
<1>1. PICK o : o = orders[k]
  OBVIOUS
<1>2. /\ DOMAIN o = OrderFields /\ AsRun(wish[o.journey], o) /\ AsClosed(wish[o.journey], o)
      /\ o.journey \in Journeys
  BY <1>1 DEF PartnerInv, Shape, OrdersSound
<1>3. PICK fees : fees = IF o.status = "filled" THEN "paid" ELSE "returned"
  OBVIOUS
<1>4. PICK p : p = [o EXCEPT !.fees = fees]
  OBVIOUS
<1>5. /\ orders' = [orders EXCEPT ![k] = p]
      /\ UNCHANGED <<wish, terms, used, nextId, pc, attempt, answer, pool>>
      /\ o.status # "pending" /\ wish[o.journey].m \in Solana
  BY <1>1, <1>3, <1>4 DEF SettleFees, Becomes, journeyVars, On
<1>6. /\ DOMAIN p = OrderFields
      /\ p.journey = o.journey /\ p.approval = o.approval /\ p.id = o.id
      /\ p.sent = o.sent /\ p.floor = o.floor /\ p.platform = o.platform
      /\ p.result = o.result /\ p.out = o.out /\ p.pool = o.pool
      /\ p.at = o.at /\ p.status = o.status /\ p.fees = fees
  BY <1>2, <1>4 DEF OrderFields
<1>7. AsRun(wish[p.journey], p)
  BY <1>2, <1>6, RunKept
<1>8. AsClosed(wish[p.journey], p)
  BY <1>2, <1>3, <1>5, <1>6, PartnerAssumption DEF AsClosed
<1>9. pool' \in [Tokens -> Nat]
  BY <1>5 DEF PartnerInv, Shape
<1> QED
  BY <1>1, <1>5, <1>6, <1>7, <1>8, <1>9, OrderMoves

(* The relay's notice.                                                     *)
LEMMA NoticeMoves ==
  ASSUME PartnerInv, NEW k \in DOMAIN orders, Notice(k)
  PROVE  PartnerInv'
<1>1. PICK o : o = orders[k]
  OBVIOUS
<1>2. AsRun(wish[o.journey], o)
  BY <1>1 DEF PartnerInv, OrdersSound
<1>3. PICK status : status = IF o.at = "killed" THEN "cancelled" ELSE "stranded"
  OBVIOUS
<1>4. PICK p : p = Closed(o, status)
  OBVIOUS
<1>5. /\ orders' = [orders EXCEPT ![k] = p]
      /\ UNCHANGED <<wish, terms, used, nextId, pc, attempt, answer, pool>>
      /\ o.status = "pending" /\ o.at \in {"held", "refunding", "killed"}
  BY <1>1, <1>3, <1>4 DEF Notice, Becomes, journeyVars
<1>6. /\ DOMAIN p = OrderFields
      /\ p.journey = o.journey /\ p.approval = o.approval /\ p.id = o.id
      /\ p.sent = o.sent /\ p.floor = o.floor /\ p.platform = o.platform
      /\ p.result = o.result /\ p.out = o.out /\ p.pool = o.pool
      /\ p.at = o.at /\ p.status = status
      /\ AsClosed(wish[o.journey], p)
  BY <1>1, <1>3, <1>4, <1>5, ClosedIsSound
<1>7. AsRun(wish[p.journey], p)
  BY <1>2, <1>6, RunKept
<1>8. pool' \in [Tokens -> Nat]
  BY <1>5 DEF PartnerInv, Shape
<1> QED
  BY <1>1, <1>5, <1>6, <1>7, <1>8, OrderMoves

(* The tokens arrive.                                                      *)
LEMMA ArriveMoves ==
  ASSUME PartnerInv, NEW k \in DOMAIN orders, Arrive(k)
  PROVE  PartnerInv'
<1>1. PICK o : o = orders[k]
  OBVIOUS
<1>2. DOMAIN o = OrderFields /\ AsRun(wish[o.journey], o) /\ AsClosed(wish[o.journey], o)
  BY <1>1 DEF PartnerInv, Shape, OrdersSound
<1>3. PICK status : status = IF o.at = "refunding" THEN "refunded" ELSE o.result
  OBVIOUS
<1>4. PICK c : c = IF o.status = "pending" THEN Closed(o, status) ELSE o
  OBVIOUS
<1>5. PICK p : p = [c EXCEPT !.at = "returned"]
  OBVIOUS
<1>6. /\ orders' = [orders EXCEPT ![k] = p]
      /\ UNCHANGED <<wish, terms, used, nextId, pc, attempt, answer, pool>>
      /\ o.at \in {"returning", "refunding"}
  BY <1>1, <1>3, <1>4, <1>5 DEF Arrive, Becomes, journeyVars
<1>7. status \notin {"pending", "stranded"}
  BY <1>2, <1>3 DEF AsRun
<1>8. /\ DOMAIN c = OrderFields
      /\ c.journey = o.journey /\ c.approval = o.approval /\ c.id = o.id
      /\ c.sent = o.sent /\ c.floor = o.floor /\ c.platform = o.platform
      /\ c.result = o.result /\ c.out = o.out /\ c.pool = o.pool
      /\ o.status # "pending" => c.status = o.status
      /\ AsClosed(wish[o.journey], c)
  <2>1. CASE o.status = "pending"
    BY <1>1, <1>4, <1>7, <2>1, ClosedIsSound
  <2>2. CASE o.status # "pending"
    BY <1>2, <1>4, <2>2
  <2> QED
    BY <2>1, <2>2
<1>9. /\ DOMAIN p = OrderFields
      /\ p.journey = o.journey /\ p.approval = o.approval /\ p.id = o.id
      /\ p.sent = o.sent /\ p.floor = o.floor /\ p.platform = o.platform
      /\ p.result = o.result /\ p.out = o.out /\ p.pool = o.pool
      /\ p.at = "returned" /\ p.status = c.status /\ p.fees = c.fees
  BY <1>5, <1>8 DEF OrderFields
<1>10. AsRun(wish[p.journey], p)
  BY <1>2, <1>9, RunKept
<1>11. AsClosed(wish[p.journey], p)
  BY <1>8, <1>9 DEF AsClosed
<1>12. pool' \in [Tokens -> Nat]
  BY <1>6 DEF PartnerInv, Shape
<1> QED
  BY <1>1, <1>6, <1>8, <1>9, <1>10, <1>11, <1>12, OrderMoves

(* What the venue pays is a natural number.                                *)
LEMMA PaysFromThePool ==
  ASSUME NEW p \in [Tokens -> Nat], NEW t \in Tokens, NEW x \in Nat \ {0}
  PROVE  Pays(p, t, x) \in Nat
<1>1. PICK h : h = p[IF t = "base" THEN "quote" ELSE "base"]
  OBVIOUS
<1>2. PICK d : d = p[t] + x
  OBVIOUS
<1>3. h \in Nat /\ d \in Nat \ {0}
  BY <1>1, <1>2 DEF Tokens
<1>4. PICK y : y = h * x
  OBVIOUS
<1>5. y \in Nat
  BY <1>3, <1>4
<1>6. y \div d \in Nat
  BY <1>3, <1>5
<1> QED
  BY <1>1, <1>2, <1>4, <1>6 DEF Pays

(* It pays no more than it holds.                                          *)
LEMMA PaysNoMore ==
  ASSUME NEW p \in [Tokens -> Nat], NEW t \in Tokens, NEW x \in Nat \ {0}
  PROVE  Pays(p, t, x) <= p[IF t = "base" THEN "quote" ELSE "base"]
<1>1. PICK h : h = p[IF t = "base" THEN "quote" ELSE "base"]
  OBVIOUS
<1>2. PICK d : d = p[t] + x
  OBVIOUS
<1>3. h \in Nat /\ d \in Nat \ {0} /\ x <= d /\ p[t] \in Nat
  BY <1>1, <1>2 DEF Tokens
<1>4. PICK y : y = h * x
  OBVIOUS
<1>5. PICK z : z = h * d
  OBVIOUS
<1>6. z = h * p[t] + h * x
  BY <1>2, <1>3, <1>5
<1>7. y \in Nat /\ z \in Nat /\ y <= z
  <2>1. PICK u : u = h * p[t]
    OBVIOUS
  <2>2. u \in Nat /\ y \in Nat
    BY <1>3, <1>4, <2>1
  <2>3. z = u + y
    BY <1>4, <1>6, <2>1
  <2> QED
    BY <2>2, <2>3
<1>8. PICK o : o = y \div d
  OBVIOUS
<1>9. o \in Nat /\ o * d <= y
  BY <1>3, <1>7, <1>8
<1>10. ASSUME o >= h + 1  PROVE FALSE
  <2>1. o * d >= (h + 1) * d
    BY <1>3, <1>9, <1>10
  <2>2. (h + 1) * d = z + d
    BY <1>3, <1>5
  <2>3. PICK v : v = o * d
    OBVIOUS
  <2>4. v \in Nat
    BY <1>3, <1>9, <2>3
  <2> QED
    BY <1>3, <1>7, <1>9, <2>1, <2>2, <2>3, <2>4
<1>11. o <= h
  BY <1>3, <1>9, <1>10
<1> QED
  BY <1>1, <1>2, <1>4, <1>8, <1>11 DEF Pays

(* An order is run, and meets the market as it is then.                    *)
LEMMA ExecuteMoves ==
  ASSUME PartnerInv, NEW k \in DOMAIN orders, Execute(k)
  PROVE  PartnerInv'
<1>1. PICK o : o = orders[k]
  OBVIOUS
<1>2. PICK w : w = wish[o.journey]
  OBVIOUS
<1>3. /\ DOMAIN o = OrderFields /\ AsClosed(w, o) /\ o.journey \in Journeys
      /\ o.sent \in Nat \ {0} /\ w \in WishType
  BY <1>1, <1>2 DEF PartnerInv, Shape, OrdersSound, AsAsked
<1>4. PICK p : p = pool
  OBVIOUS
<1>5. p \in [Tokens -> Nat]
  BY <1>4 DEF PartnerInv, Shape
<1>6. /\ Spent(o.journey) = SpentBy(w) /\ Bought(o.journey) = BoughtBy(w)
      /\ On(o.journey) = w.m
      /\ SpentBy(w) \in Tokens /\ BoughtBy(w) \in Tokens
      /\ BoughtBy(w) = IF SpentBy(w) = "base" THEN "quote" ELSE "base"
      /\ SpentBy(w) # BoughtBy(w)
  BY <1>2 DEF Spent, Bought, On, SpentBy, BoughtBy, Tokens
<1>7. PICK input : input = ToLocal(o.sent, HomeQuantum[SpentBy(w)])
  OBVIOUS
<1>8. input \in Nat \ {0}
  <2>1. PICK q : q = HomeQuantum[SpentBy(w)]
    OBVIOUS
  <2>2. q \in Nat \ {0}
    BY <1>6, <2>1, PartnerAssumption
  <2>3. o.sent * q \in Nat \ {0}
    BY <1>3, <2>2
  <2> QED
    BY <1>7, <2>1, <2>3 DEF ToLocal
<1>9. PICK out : out = Pays(p, SpentBy(w), input)
  OBVIOUS
<1>10. out \in Nat /\ out <= p[BoughtBy(w)]
  BY <1>5, <1>6, <1>8, <1>9, PaysFromThePool, PaysNoMore
<1>11. PICK filled : filled = (out >= VenueFloor(o.floor, HomeQuantum[BoughtBy(w)], MaxUint))
  OBVIOUS
<1>12. PICK result : result = IF filled THEN "filled" ELSE "refunded"
  OBVIOUS
<1>13. PICK paid : paid = IF filled THEN Returned(w, out)
                          ELSE ToLocal(o.sent, Quantum[w.m][SpentBy(w)])
  OBVIOUS
<1>14. PICK to \in {"returning", "held"} :
         Becomes(k, [o EXCEPT !.at = to, !.pool = p, !.result = result, !.out = paid])
  BY <1>1, <1>4, <1>6, <1>7, <1>9, <1>11, <1>12, <1>13 DEF Execute, Returned, PaidQuantum
<1>15. PICK b : b = [o EXCEPT !.at = to, !.pool = p, !.result = result, !.out = paid]
  OBVIOUS
<1>16. /\ orders' = [orders EXCEPT ![k] = b]
       /\ UNCHANGED <<wish, terms, used, nextId, pc, attempt, answer>>
  BY <1>14, <1>15 DEF Becomes, journeyVars
<1>17. /\ DOMAIN b = OrderFields
       /\ b.journey = o.journey /\ b.approval = o.approval /\ b.id = o.id
       /\ b.sent = o.sent /\ b.floor = o.floor /\ b.platform = o.platform
       /\ b.result = result /\ b.out = paid /\ b.pool = p
       /\ b.at = to /\ b.status = o.status /\ b.fees = o.fees
  BY <1>3, <1>15 DEF OrderFields
<1>18. o.at = "sent"
  BY <1>1 DEF Execute
<1>19. AsClosed(w, b)
  BY <1>3, <1>17, <1>18 DEF AsClosed
<1>20. AsRun(w, b)
  <2>1. out = PaidFor(w, b.pool, b.sent)
    BY <1>7, <1>9, <1>17 DEF PaidFor
  <2> QED
    BY <1>5, <1>11, <1>12, <1>13, <1>17, <2>1 DEF AsRun
<1>21. pool' \in [Tokens -> Nat]
  <2>1. \/ pool' = p
        \/ pool' = [p EXCEPT ![SpentBy(w)] = @ + input, ![BoughtBy(w)] = @ - out]
    BY <1>1, <1>4, <1>6, <1>7, <1>9 DEF Execute
  <2> QED
    BY <1>5, <1>6, <1>8, <1>10, <2>1
<1> QED
  BY <1>1, <1>2, <1>16, <1>17, <1>18, <1>19, <1>20, <1>21, OrderMoves

-----------------------------------------------------------------------------
(* Polling, and the world.                                                 *)

(* The order a journey polls is its own.                                   *)
LEMMA OrderOfJourney ==
  ASSUME PartnerInv, NEW j \in Journeys, NEW n \in DOMAIN orders, orders[n].journey = j
  PROVE  OrderOf(j) = n
<1>1. orders[n].approval = attempt[j].approval
  BY OwnOrder
<1>2. \A k \in DOMAIN orders : orders[k].approval = attempt[j].approval => k = n
  BY OwnOrder DEF PartnerInv, OneEach
<1> QED
  BY <1>1, <1>2 DEF OrderOf

(* What a read of getOrder adds to the answer.                             *)
LEMMA PartsAre ==
  ASSUME NEW a, NEW o
  PROVE  /\ Part(a, o, "request") = GetRequest(a, o)
         /\ Part(a, o, "fees") = GetFeeEscrow(a, o)
         /\ Part(a, o, "held") = StrandedHeld(a, o)
<1>1. Part(a, o, "request") = GetRequest(a, o)
  BY DEF Part
<1>2. Part(a, o, "fees") = GetFeeEscrow(a, o)
  BY DEF Part
<1>3. Part(a, o, "held") = StrandedHeld(a, o)
  BY DEF Part
<1> QED
  BY <1>1, <1>2, <1>3

(* A read of getOrder, and the answer taken or thrown away.                *)
LEMMA PollingMoves ==
  ASSUME PartnerInv, NEW j \in Journeys, Poll(j)
  PROVE  PartnerInv'
<1>1. PICK n \in DOMAIN orders : orders[n].journey = j
  BY DEF Poll, PartnerInv, Ordered
<1>2. PICK o : o = orders[n]
  OBVIOUS
<1>3. PICK a : a = answer[j]
  OBVIOUS
<1>4. PICK w : w = wish[j]
  OBVIOUS
<1>5. /\ DOMAIN a = AnswerFields /\ DOMAIN answer = Journeys /\ a.parts \in 0..3
      /\ a.parts = 0 => a.status = "pending"
      /\ a.status # "pending" => AsRead(w, a, o)
      /\ AsClosed(w, o)
  BY <1>1, <1>2, <1>3, <1>4 DEF PartnerInv, Shape, AnswersSound, OrdersSound, OneEach
<1>6. /\ Parts[1] = "request" /\ Parts[2] = "fees" /\ Parts[3] = "held" /\ Len(Parts) = 3
  BY DEF Parts
<1>7. PICK part : part = Parts[a.parts + 1]
  OBVIOUS
<1>8. a.parts \in 0..2
  BY <1>3, <1>5, <1>6 DEF Poll
<1>9. /\ a.parts = 0 => part = "request"
      /\ a.parts = 1 => part = "fees"
      /\ a.parts = 2 => part = "held"
  BY <1>6, <1>7, <1>8
<1>10. PICK c : c = Part(a, o, part)
  OBVIOUS
<1>11. PICK b : b = [c EXCEPT !.parts = @ + 1]
  OBVIOUS
<1>12. answer' = [answer EXCEPT ![j] = b]
  BY <1>1, <1>2, <1>3, <1>7, <1>10, <1>11, OrderOfJourney DEF Poll
<1>13. PICK held : held = IF a.status = "stranded" /\ o.at = "held" THEN "held" ELSE "none"
  OBVIOUS
<1>14. c = IF a.parts = 0 THEN [a EXCEPT !.status = o.status]
           ELSE IF a.parts = 1 THEN [a EXCEPT !.fees = o.fees]
           ELSE [a EXCEPT !.held = held]
  <2>1. CASE a.parts = 0
    BY <1>9, <1>10, <2>1, PartsAre DEF GetRequest
  <2>2. CASE a.parts = 1
    <3>1. c = GetFeeEscrow(a, o) /\ a.parts # 0
      BY <1>8, <1>9, <1>10, <2>2, PartsAre
    <3> QED
      BY <2>2, <3>1 DEF GetFeeEscrow
  <2>3. CASE a.parts = 2
    <3>1. c = StrandedHeld(a, o) /\ a.parts # 0 /\ a.parts # 1
      BY <1>8, <1>9, <1>10, <2>3, PartsAre
    <3>2. c = [a EXCEPT !.held = held]
      BY <1>13, <3>1 DEF StrandedHeld
    <3> QED
      BY <3>1, <3>2
  <2> QED
    BY <1>8, <2>1, <2>2, <2>3
<1>15. /\ DOMAIN b = AnswerFields /\ b.parts = a.parts + 1
       /\ b.status = IF a.parts = 0 THEN o.status ELSE a.status
       /\ b.fees = IF a.parts = 1 THEN o.fees ELSE a.fees
       /\ b.held = IF a.parts = 2 THEN held ELSE a.held
  BY <1>5, <1>8, <1>11, <1>14 DEF AnswerFields
<1>16. b.parts \in 1..3
  BY <1>8, <1>15
<1>17. b.status # "pending" => AsRead(w, b, o)
  <2> SUFFICES ASSUME b.status # "pending"  PROVE AsRead(w, b, o)
    OBVIOUS
  <2>1. CASE a.parts = 0
    BY <1>15, <2>1 DEF AsRead
  <2>2. CASE a.parts = 1
    BY <1>5, <1>15, <2>2 DEF AsRead, AsClosed
  <2>3. CASE a.parts = 2
    BY <1>5, <1>13, <1>15, <2>3 DEF AsRead, AsClosed
  <2> QED
    BY <1>8, <2>1, <2>2, <2>3
<1>18. /\ DOMAIN answer' = Journeys /\ answer'[j] = b
       /\ \A i \in Journeys : i # j => answer'[i] = answer[i]
       /\ UNCHANGED <<wish, terms, pool, used, nextId, pc, attempt, orders>>
  BY <1>5, <1>12 DEF Poll, chainVars
<1>19. b.parts \in 0..3 /\ (b.parts = 0 => b.status = "pending")
  BY <1>16
<1>20. b.status # "pending" =>
         \E k \in DOMAIN orders : orders[k].journey = j /\ AsRead(wish[j], b, orders[k])
  BY <1>1, <1>2, <1>4, <1>17
<1> QED
  BY <1>15, <1>18, <1>19, <1>20, PollMoves

(* The whole answer: taken, or thrown away.                                *)
LEMMA AnsweredMoves ==
  ASSUME PartnerInv, NEW j \in Journeys, Answered(j)
  PROVE  PartnerInv'
<1>1. CASE answer[j].status = "pending"
  <2>1. PICK b : b = Unread
    OBVIOUS
  <2>2. /\ DOMAIN answer' = Journeys /\ answer'[j] = b
        /\ \A i \in Journeys : i # j => answer'[i] = answer[i]
        /\ UNCHANGED <<wish, terms, pool, used, nextId, pc, attempt, orders>>
    BY <1>1, <2>1 DEF Answered, chainVars, PartnerInv, Shape
  <2>3. DOMAIN b = AnswerFields /\ b.parts = 0 /\ b.status = "pending"
    BY <2>1 DEF Unread, AnswerFields
  <2> QED
    BY <2>2, <2>3, PollMoves
<1>2. CASE answer[j].status # "pending"
  <2>1. PICK a : a = attempt[j]
    OBVIOUS
  <2>2. JourneyStep(j, "done", a) /\ pc[j] = "placed"
    BY <1>2, <2>1 DEF Answered, Goes, chainVars, JourneyStep, PartnerInv, Shape
  <2>3. DOMAIN a = AttemptFields /\ Gathered(j, wish[j], "placed", a)
    BY <2>1, <2>2 DEF PartnerInv, Shape, JourneysSound
  <2>4. Gathered(j, wish[j], "done", a)
    BY <2>3 DEF Gathered, Early, Late
  <2>5. HasOrder(j)
    BY <2>2 DEF PartnerInv, Ordered, HasOrder
  <2> QED
    BY <2>1, <2>2, <2>3, <2>4, <2>5, JourneyMoves DEF Late
<1> QED
  BY <1>1, <1>2

(* Others' movements.                                                      *)
LEMMA WorldMoves ==
  ASSUME PartnerInv, World
  PROVE  PartnerInv'
<1> USE DEF Moves
<1>1. /\ terms \in [Mirrors -> TermsType] /\ pool \in [Tokens -> Nat]
      /\ nextId \in [Mirrors -> Nat] /\ DOMAIN used = Evm
      /\ LaterTerms \in [Mirrors -> SUBSET TermsType] /\ LaterPools \subseteq [Tokens -> Nat]
  BY PartnerAssumption DEF PartnerInv, Shape
<1>2. ASSUME NEW m \in Mirrors, NEW t \in LaterTerms[m], OwnerSets(m, t)  PROVE PartnerInv'
  <2>1. t \in TermsType /\ terms' = [terms EXCEPT ![m] = t]
    BY <1>1, <1>2 DEF OwnerSets
  <2>2. terms' \in [Mirrors -> TermsType]
    BY <1>1, <2>1
  <2>3. UNCHANGED <<wish, pc, attempt, answer, orders, pool, nextId, used>>
    BY <1>2 DEF OwnerSets
  <2> QED
    BY <1>1, <2>2, <2>3, ChainMoves
<1>3. ASSUME NEW m \in Mirrors, NEW p \in Prices, GasMoves(m, p)  PROVE PartnerInv'
  <2>1. UNCHANGED <<wish, pc, attempt, answer, orders, terms, pool, nextId, used>>
    BY <1>3 DEF GasMoves
  <2> QED
    BY <1>1, <2>1, ChainMoves
<1>4. ASSUME NEW p \in LaterPools, OthersTrade(p)  PROVE PartnerInv'
  <2>1. pool' = p /\ UNCHANGED <<wish, pc, attempt, answer, orders, terms, nextId, used>>
    BY <1>4 DEF OthersTrade
  <2> QED
    BY <1>1, <2>1, ChainMoves
<1>5. ASSUME NEW m \in Solana, NEW t \in Tokens, NEW opened \in BOOLEAN, OthersSend(m, t, opened)
      PROVE  PartnerInv'
  <2>1. /\ UNCHANGED <<wish, pc, attempt, answer, orders, terms, pool, used>>
        /\ nextId' = [nextId EXCEPT ![m] = @ + 1] \/ nextId' = nextId
        /\ m \in Mirrors
    BY <1>5 DEF OthersSend, Mirrors
  <2>2. nextId' \in [Mirrors -> Nat] /\ \A i \in Mirrors : nextId[i] <= nextId'[i]
    BY <1>1, <2>1
  <2> QED
    BY <1>1, <2>1, <2>2, ChainMoves
<1>6. ASSUME NEW j \in Journeys, Withdraw(j)  PROVE PartnerInv'
  <2>1. PICK u : u = used[On(j)] \cup {attempt[j].approval}
    OBVIOUS
  <2>2. /\ UNCHANGED <<wish, pc, attempt, answer, orders, terms, pool, nextId>>
        /\ used' = [used EXCEPT ![On(j)] = u]
    BY <1>6, <2>1 DEF Withdraw
  <2>3. DOMAIN used' = Evm /\ \A m \in Evm : used[m] \subseteq used'[m]
    BY <1>1, <2>1, <2>2
  <2> QED
    BY <1>1, <2>2, <2>3, ChainMoves
<1> QED
  BY <1>2, <1>3, <1>4, <1>5, <1>6, ApproveMoves, RestartMoves DEF World

-----------------------------------------------------------------------------
(* Every state of the system keeps the invariant.                          *)

LEMMA PartnerInit ==
  ASSUME Init
  PROVE  PartnerInv
<1>1. IsSequence(orders) /\ DOMAIN orders = {}
  <2>1. PICK s : s = orders
    OBVIOUS
  <2>2. s = <<>>
    BY <2>1 DEF Init
  <2>3. s \in Seq({}) /\ DOMAIN s = {}
    BY <2>2, EmptySeq
  <2> QED
    BY <2>1, <2>3 DEF IsSequence
<1>2. PICK b : b = Blank
  OBVIOUS
<1>3. DOMAIN b = AttemptFields /\ b.approval = <<>>
  BY <1>2 DEF Blank, AttemptFields
<1>4. PICK u : u = Unread
  OBVIOUS
<1>5. DOMAIN u = AnswerFields /\ u.parts = 0 /\ u.status = "pending"
  BY <1>4 DEF Unread, AnswerFields
<1>6. wish \in [Journeys -> WishType]
  BY PartnerAssumption DEF Init
<1>7. /\ DOMAIN pc = Journeys /\ \A j \in Journeys : pc[j] = "start"
      /\ DOMAIN attempt = Journeys /\ \A j \in Journeys : attempt[j] = b
      /\ DOMAIN answer = Journeys /\ \A j \in Journeys : answer[j] = u
      /\ DOMAIN used = Evm /\ nextId \in [Mirrors -> Nat]
  BY <1>2, <1>4 DEF Init
<1>8. terms \in [Mirrors -> TermsType] /\ pool \in [Tokens -> Nat]
  BY PartnerAssumption DEF Init
<1>9. Shape
  BY <1>1, <1>3, <1>5, <1>6, <1>7, <1>8 DEF Shape
<1>10. JourneysSound
  BY <1>3, <1>7 DEF JourneysSound, Gathered, Early, Late
<1>11. OrdersSound /\ OneEach
  BY <1>1 DEF OrdersSound, OneEach
<1>12. Ordered
  BY <1>7 DEF Ordered
<1>13. AnswersSound
  BY <1>5, <1>7 DEF AnswersSound
<1> QED
  BY <1>9, <1>10, <1>11, <1>12, <1>13 DEF PartnerInv

LEMMA PartnerStep ==
  ASSUME PartnerInv, [Next]_vars
  PROVE  PartnerInv'
<1>1. ASSUME NEW j \in Journeys, Attempt(j)  PROVE PartnerInv'
  BY <1>1, RestartMoves, QuoteMoves, BuildMoves, BuildEvmMoves, BuildSolanaMoves, ApproveMoves,
     SubmitMoves, AnswerMoves, PollingMoves, AnsweredMoves
  DEF Attempt
<1>2. ASSUME NEW j \in Journeys, Resend(j)  PROVE PartnerInv'
  BY <1>2, AnswerMoves
<1>3. ASSUME NEW n \in DOMAIN orders, Progress(n) \/ Kill(n)  PROVE PartnerInv'
  BY <1>3, ExecuteMoves, ArriveMoves, RetryMoves, NoticeMoves, SettleMoves DEF Progress
<1>4. ASSUME UNCHANGED vars  PROVE PartnerInv'
  <2>1. UNCHANGED <<wish, pc, attempt, answer, orders, terms, pool, nextId, used>>
    BY <1>4 DEF vars, chainVars, journeyVars
  <2>2. /\ terms \in [Mirrors -> TermsType] /\ pool \in [Tokens -> Nat]
        /\ nextId \in [Mirrors -> Nat] /\ DOMAIN used = Evm
    BY DEF PartnerInv, Shape
  <2> QED
    BY <2>1, <2>2, ChainMoves
<1> QED
  BY <1>1, <1>2, <1>3, <1>4, WorldMoves DEF Next

LEMMA PartnerInvariant == Spec => []PartnerInv
<1>1. Init => PartnerInv
  BY PartnerInit
<1>2. PartnerInv /\ [Next]_vars => PartnerInv'
  BY PartnerStep
<1> QED
  BY <1>1, <1>2, PTL DEF Spec

(***************************************************************************)
(* A journey places at most one order, however often it is built, signed   *)
(* and sent again, and on Solana the one its transaction was built for.    *)
(***************************************************************************)
THEOREM PlacesOnce == Spec => []PlacedOnce
<1>1. PartnerInv => PlacedOnce
  BY DEF PartnerInv, PlacedOnce, OneEach, OrdersSound, AsAsked, Asked, On
<1> QED
  BY <1>1, PartnerInvariant, PTL

(***************************************************************************)
(* What polling gathers in several reads holds together, whatever becomes  *)
(* of the order between them.                                              *)
(***************************************************************************)
THEOREM AnswersHoldTogether == Spec => []AnswersAgree
<1>1. PartnerInv => AnswersAgree
  <2> SUFFICES ASSUME PartnerInv, NEW j \in Journeys, NEW a, a = answer[j],
                      a.parts = Len(Parts), a.status # "pending"
               PROVE  /\ On(j) \in Evm => a.fees # "escrowed"
                      /\ a.fees = "paid" => a.status = "filled"
                      /\ a.fees = "returned" => a.status # "filled"
                      /\ NextStep(a, On(j) \in Solana) = "recovered" =>
                           orders[OrderOf(j)].at \in {"refunding", "returned"}
    BY DEF AnswersAgree
  <2>1. PICK n \in DOMAIN orders : orders[n].journey = j /\ AsRead(wish[j], a, orders[n])
    BY DEF PartnerInv, AnswersSound
  <2>2. OrderOf(j) = n
    BY <2>1, OrderOfJourney
  <2>3. a.parts = 3 /\ On(j) = wish[j].m
    BY DEF Parts, On
  <2>4. NextStep(a, On(j) \in Solana) = "recovered" => a.status = "stranded" /\ a.held = "none"
    BY DEF NextStep
  <2> QED
    BY <2>1, <2>2, <2>3, <2>4 DEF AsRead
<1> QED
  BY <1>1, PartnerInvariant, PTL

-----------------------------------------------------------------------------
(* The arithmetic of a quote.                                              *)

(* A whole number of units, counted in units.                              *)
LEMMA UnitsOfUnits ==
  ASSUME NEW s \in Nat, NEW q \in Nat \ {0}
  PROVE  s * q \in Nat /\ (s * q) \div q = s /\ (s * q) % q = 0
OBVIOUS

(* Rounding down.                                                          *)
LEMMA RoundsDown ==
  ASSUME NEW x \in Nat, NEW q \in Nat \ {0}
  PROVE  x \div q \in Nat /\ (x \div q) * q \in Nat /\ (x \div q) * q <= x
<1>1. x = (q * (x \div q)) + (x % q) /\ x \div q \in Int /\ x % q \in 0..(q - 1)
  OBVIOUS
<1>2. x \div q >= 0
  BY <1>1
<1> QED
  BY <1>1, <1>2

(* A product does not shrink when a factor grows.                          *)
LEMMA ProductGrows ==
  ASSUME NEW s \in Nat, NEW t \in Nat, s <= t, NEW q \in Nat
  PROVE  s * q \in Nat /\ t * q \in Nat /\ s * q <= t * q
OBVIOUS

(* What does not exceed s units holds no more than s whole ones.           *)
LEMMA WholeUnits ==
  ASSUME NEW x \in Nat, NEW s \in Nat, NEW q \in Nat \ {0}, x <= s * q
  PROVE  x \div q <= s
<1>1. PICK f : f = x \div q
  OBVIOUS
<1>2. f \in Nat /\ f * q \in Nat /\ f * q <= x
  BY <1>1, RoundsDown
<1>3. ASSUME f >= s + 1  PROVE FALSE
  <2>1. (s + 1) * q <= f * q
    BY <1>2, <1>3, ProductGrows
  <2>2. (s + 1) * q = s * q + q
    OBVIOUS
  <2>3. PICK y : y = s * q
    OBVIOUS
  <2>4. y \in Nat
    BY <2>3
  <2> QED
    BY <1>2, <2>1, <2>2, <2>3, <2>4
<1> QED
  BY <1>1, <1>2, <1>3

(* A part of an amount in parts of FeeUnit is no more than the amount.     *)
LEMMA ShareBelow ==
  ASSUME NEW e \in Nat, NEW d \in 0..FeeUnit
  PROVE  (e * d) \div FeeUnit \in Nat /\ (e * d) \div FeeUnit <= e
<1>1. FeeUnit \in Nat \ {0} /\ d \in Nat /\ d <= FeeUnit
  BY PartnerAssumption
<1>2. PICK x : x = e * d
  OBVIOUS
<1>3. x \in Nat /\ x <= e * FeeUnit
  <2>1. e * d <= e * FeeUnit
    <3>1. d * e <= FeeUnit * e
      BY <1>1, ProductGrows
    <3>2. d * e = e * d /\ FeeUnit * e = e * FeeUnit
      BY <1>1
    <3> QED
      BY <3>1, <3>2
  <2> QED
    BY <1>1, <1>2, <2>1
<1>4. x \div FeeUnit <= e
  BY <1>1, <1>3, WholeUnits
<1> QED
  BY <1>1, <1>2, <1>3, <1>4, RoundsDown

(* A floor of no more units than the venue's output has is met by it.      *)
LEMMA FloorIsMet ==
  ASSUME NEW out \in Nat, NEW h \in Nat \ {0}, NEW f \in Nat \ {0}, f <= out \div h
  PROVE  out >= VenueFloor(f, h, MaxUint)
<1>1. PICK s : s = out \div h
  OBVIOUS
<1>2. s \in Nat /\ s * h \in Nat /\ s * h <= out
  BY <1>1, RoundsDown
<1>3. f * h \in Nat /\ f * h <= out
  BY <1>1, <1>2, ProductGrows
<1>4. h <= f * h
  <2>1. 1 * h <= f * h
    BY ProductGrows
  <2> QED
    BY <2>1
<1>5. MaxUint \in Nat
  BY PartnerAssumption
<1>6. CASE f > MaxUint \div h
  <2>1. PICK d : d = MaxUint \div h
    OBVIOUS
  <2>2. MaxUint < (d + 1) * h /\ d \in Nat
    <3>1. /\ MaxUint = (h * d) + (MaxUint % h) /\ MaxUint % h \in 0..(h - 1)
          /\ d \in Int
      BY <1>5, <2>1
    <3>2. d \in Nat
      BY <1>5, <2>1, RoundsDown
    <3>3. PICK y : y = h * d
      OBVIOUS
    <3>4. PICK r : r = MaxUint % h
      OBVIOUS
    <3>5. (d + 1) * h = y + h
      BY <3>2, <3>3
    <3>6. y \in Nat /\ MaxUint = y + r /\ r \in 0..(h - 1)
      BY <3>1, <3>2, <3>3, <3>4
    <3> QED
      BY <3>2, <3>5, <3>6
  <2>3. (d + 1) * h <= f * h
    BY <1>6, <2>1, <2>2, ProductGrows
  <2>4. PICK y : y = (d + 1) * h
    OBVIOUS
  <2>5. y \in Nat
    BY <2>2, <2>4
  <2>6. MaxUint <= out
    BY <1>3, <1>5, <2>2, <2>3, <2>4, <2>5
  <2>7. VenueFloor(f, h, MaxUint) = IF MaxUint < h THEN h ELSE MaxUint
    BY <1>6 DEF VenueFloor
  <2> QED
    BY <1>3, <1>4, <1>5, <2>6, <2>7
<1>7. CASE ~(f > MaxUint \div h)
  <2>1. VenueFloor(f, h, MaxUint) = IF f * h < h THEN h ELSE f * h
    BY <1>7 DEF VenueFloor, ToLocal
  <2> QED
    BY <1>3, <1>4, <2>1
<1> QED
  BY <1>6, <1>7

(* An order that meets its quote's fee and market delivers the quote.      *)
LEMMA QuoteIsMet ==
  ASSUME NEW w \in WishType, NEW a, MatchesQuote(w, a), a.min > 0,
         NEW o, AsAsked(w, a, o), AsRun(w, o), o.result # "none",
         o.pool = a.pool, o.platform = a.platform
  PROVE  o.result = "filled" /\ o.out = a.expected
<1>1. PICK q : q = SentQuantum(w)
  OBVIOUS
<1>2. PICK qq : qq = PaidQuantum(w)
  OBVIOUS
<1>3. PICK h : h = HomeQuantum[BoughtBy(w)]
  OBVIOUS
<1>4. /\ q \in Nat \ {0} /\ qq \in Nat \ {0} /\ h \in Nat \ {0}
      /\ SpentBy(w) \in Tokens /\ HomeQuantum[SpentBy(w)] \in Nat \ {0}
  BY <1>1, <1>2, <1>3, PartnerAssumption
  DEF SentQuantum, PaidQuantum, SpentBy, BoughtBy, Tokens, WishType
<1>5. PICK net : net = NetOf(w, o.platform)
  OBVIOUS
<1>6. o.sent \in Nat \ {0} /\ o.sent = net \div q
  BY <1>1, <1>5 DEF AsAsked, ToShared
<1>7. a.traded = o.sent * q
  BY <1>1, <1>5, <1>6 DEF MatchesQuote, RemoveDust, ToLocal, ToShared
<1>8. ToShared(a.traded, q) = o.sent
  BY <1>4, <1>6, <1>7, UnitsOfUnits DEF ToShared
<1>9. PICK out : out = PaidFor(w, o.pool, o.sent)
  OBVIOUS
<1>10. out \in Nat
  <2>1. PICK input : input = o.sent * HomeQuantum[SpentBy(w)]
    OBVIOUS
  <2>2. input \in Nat \ {0}
    <3>1. PICK g : g = HomeQuantum[SpentBy(w)]
      OBVIOUS
    <3>2. o.sent * g \in Nat \ {0}
      BY <1>4, <1>6, <3>1
    <3> QED
      BY <2>1, <3>1, <3>2
  <2>3. o.pool \in [Tokens -> Nat]
    BY DEF AsRun
  <2> QED
    BY <1>4, <1>9, <2>1, <2>2, <2>3, PaysFromThePool DEF PaidFor, ToLocal
<1>11. a.expected = Returned(w, out)
  BY <1>1, <1>8, <1>9 DEF MatchesQuote
<1>12. PICK s : s = out \div h
  OBVIOUS
<1>13. s \in Nat /\ a.expected = s * qq /\ a.expected \in Nat
  BY <1>2, <1>3, <1>4, <1>10, <1>11, <1>12, RoundsDown, UnitsOfUnits DEF Returned, ToLocal, ToShared
<1>14. PICK x : x = (a.expected * (FeeUnit - Slippage)) \div FeeUnit
  OBVIOUS
<1>15. x \in Nat /\ x <= s * qq
  <2>1. FeeUnit - Slippage \in 0..FeeUnit
    BY PartnerAssumption
  <2> QED
    BY <1>13, <1>14, <2>1, ShareBelow
<1>16. PICK f : f = x \div qq
  OBVIOUS
<1>17. f \in Nat /\ f <= s
  BY <1>4, <1>13, <1>15, <1>16, RoundsDown, WholeUnits
<1>18. a.min = f * qq
  BY <1>2, <1>14, <1>16 DEF MatchesQuote, RemoveDust, ToLocal, ToShared
<1>19. f # 0
  BY <1>4, <1>18
<1>20. o.floor = f
  <2>1. o.floor = FloorToShared(f * qq, qq)
    BY <1>2, <1>18 DEF AsAsked
  <2>2. f * qq \in Nat /\ (f * qq) \div qq = f /\ (f * qq) % qq = 0
    BY <1>4, <1>17, UnitsOfUnits
  <2> QED
    BY <1>17, <2>1, <2>2 DEF FloorToShared
<1>21. out >= VenueFloor(o.floor, h, MaxUint)
  BY <1>4, <1>10, <1>12, <1>17, <1>19, <1>20, FloorIsMet
<1> QED
  BY <1>3, <1>9, <1>11, <1>21 DEF AsRun

(***************************************************************************)
(* An order that meets the platform fee and the market its quote was made  *)
(* from is filled, and delivers the quoted amount to the unit, for any     *)
(* quanta of the mirrors and of the home chain.                            *)
(***************************************************************************)
THEOREM DeliversTheQuote == Spec => []QuotedIsDelivered
<1>1. PartnerInv => QuotedIsDelivered
  <2> SUFFICES ASSUME PartnerInv, NEW n \in DOMAIN orders, NEW o, o = orders[n],
                      NEW a, a = Asked(n), o.result # "none",
                      o.pool = a.pool, o.platform = a.platform
               PROVE  o.result = "filled" /\ o.out = a.expected
    BY DEF QuotedIsDelivered
  <2>1. PICK j : j = o.journey
    OBVIOUS
  <2>2. PICK w : w = wish[j]
    OBVIOUS
  <2>3. /\ AsAsked(w, a, o) /\ AsRun(w, o) /\ pc[j] \in Late
        /\ j \in Journeys /\ w \in WishType
    BY <2>1, <2>2 DEF PartnerInv, Shape, OrdersSound, Asked
  <2>4. Gathered(j, w, pc[j], a)
    BY <2>1, <2>2, <2>3 DEF PartnerInv, JourneysSound, Asked
  <2>5. MatchesQuote(w, a) /\ a.min > 0
    BY <2>3, <2>4 DEF Gathered, Early, Late
  <2> QED
    BY <2>3, <2>5, QuoteIsMet
<1> QED
  BY <1>1, PartnerInvariant, PTL

-----------------------------------------------------------------------------
(* A fresh approval is not spent.                                          *)

(* The approvals ordered by, used or withdrawn.                            *)
Gone == {orders[n].approval : n \in DOMAIN orders} \cup UNION {used[m] : m \in Evm}
GoneOf(j) == {x \in Gone : x[1] = j}

(* An approval of j, numbered up to n.                                     *)
Numbered(x, j, n) == \E i \in Nat : x = <<j, i>> /\ i <= n

CountsUp(j) ==
  /\ IsFiniteSet(GoneOf(j))
  /\ \A x \in GoneOf(j) : \E i \in Nat : x = <<j, i>> /\ i < Cardinality(GoneOf(j))
  /\ attempt[j].approval = <<>> \/ Numbered(attempt[j].approval, j, Cardinality(GoneOf(j)))

ApprovalsCount == \A j \in Journeys : CountsUp(j)

(* The approval Permit2 would sign next: journey j's count of those gone.  *)
LEMMA FreshIsNext ==
  ASSUME NEW j
  PROVE  Fresh(j) = <<j, Cardinality(GoneOf(j))>>
BY DEF Fresh, GoneOf, Gone

(* It is numbered by that count.                                           *)
LEMMA FreshIsNumbered ==
  ASSUME NEW j \in Journeys, ApprovalsCount
  PROVE  Numbered(Fresh(j), j, Cardinality(GoneOf(j)))
<1>1. Cardinality(GoneOf(j)) \in Nat
  BY FS_CardinalityType DEF ApprovalsCount, CountsUp
<1> QED
  BY <1>1, FreshIsNext DEF Numbered

(* Those gone are all numbered below it, so it is none of them.            *)
LEMMA FreshIsNotGone ==
  ASSUME NEW j \in Journeys, ApprovalsCount
  PROVE  Fresh(j) \notin Gone
<1>1. PICK c : c = Cardinality(GoneOf(j))
  OBVIOUS
<1>2. c \in Nat
  BY <1>1, FS_CardinalityType DEF ApprovalsCount, CountsUp
<1>3. PICK x : x = <<j, c>>
  OBVIOUS
<1>4. x[1] = j /\ x[2] = c
  BY <1>3
<1>5. ASSUME x \in Gone  PROVE FALSE
  <2>1. x \in GoneOf(j)
    BY <1>4, <1>5 DEF GoneOf
  <2>2. PICK i \in Nat : x = <<j, i>> /\ i < c
    BY <1>1, <2>1 DEF ApprovalsCount, CountsUp
  <2> QED
    BY <1>2, <1>4, <2>2
<1> QED
  BY <1>1, <1>3, <1>5, FreshIsNext

(* Nothing is spent, and whoever has another approval has a numbered one.  *)
LEMMA NoneSpent ==
  ASSUME ApprovalsCount, Gone' = Gone,
         \A j \in Journeys :
           \/ attempt'[j].approval = attempt[j].approval \/ attempt'[j].approval = <<>>
           \/ attempt'[j].approval = Fresh(j)
  PROVE  ApprovalsCount'
<1> SUFFICES ASSUME NEW j \in Journeys  PROVE CountsUp(j)'
  BY DEF ApprovalsCount
<1>1. PICK S : S = GoneOf(j)
  OBVIOUS
<1>2. GoneOf(j)' = S
  BY <1>1 DEF GoneOf
<1>3. PICK c : c = Cardinality(S)
  OBVIOUS
<1>4. /\ IsFiniteSet(S) /\ \A x \in S : \E i \in Nat : x = <<j, i>> /\ i < c
      /\ attempt[j].approval = <<>> \/ Numbered(attempt[j].approval, j, c)
  BY <1>1, <1>3 DEF ApprovalsCount, CountsUp
<1>5. Numbered(Fresh(j), j, c)
  BY <1>1, <1>3, FreshIsNumbered
<1>6. PICK a : a = attempt'[j].approval
  OBVIOUS
<1>7. a = <<>> \/ Numbered(a, j, c)
  BY <1>4, <1>5, <1>6
<1> QED
  BY <1>2, <1>3, <1>4, <1>6, <1>7 DEF CountsUp

(* An approval of j is spent: the one it has, or a fresh one.              *)
LEMMA OneSpent ==
  ASSUME ApprovalsCount, NEW j \in Journeys, NEW x, Gone' = Gone \cup {x}, x # <<>>,
         x = attempt[j].approval \/ x = Fresh(j), attempt'[j].approval = x,
         \A k \in Journeys \ {j} : attempt'[k].approval = attempt[k].approval
  PROVE  ApprovalsCount'
<1>1. PICK S : S = GoneOf(j)
  OBVIOUS
<1>2. PICK c : c = Cardinality(S)
  OBVIOUS
<1>3. /\ IsFiniteSet(S) /\ c \in Nat
      /\ \A y \in S : \E i \in Nat : y = <<j, i>> /\ i < c
  BY <1>1, <1>2, FS_CardinalityType DEF ApprovalsCount, CountsUp
<1>4. PICK i \in Nat : x = <<j, i>> /\ i <= c
  BY <1>1, <1>2, FreshIsNumbered DEF ApprovalsCount, CountsUp, Numbered
<1>5. x[1] = j
  BY <1>4
<1>6. PICK T : T = S \cup {x}
  OBVIOUS
<1>7. GoneOf(j)' = T
  BY <1>1, <1>5, <1>6 DEF GoneOf
<1>8. PICK d : d = Cardinality(T)
  OBVIOUS
<1>9. IsFiniteSet(T) /\ d \in Nat /\ c <= d /\ (x \notin S => d = c + 1)
  <2>1. CASE x \in S
    <3>1. T = S
      BY <1>6, <2>1
    <3> QED
      BY <1>2, <1>3, <1>8, <2>1, <3>1
  <2>2. CASE x \notin S
    <3>1. IsFiniteSet(T) /\ Cardinality(T) = Cardinality(S) + 1
      BY <1>3, <1>6, <2>2, FS_AddElement
    <3> QED
      BY <1>2, <1>3, <1>8, <2>2, <3>1
  <2> QED
    BY <2>1, <2>2
<1>10. \A y \in T : \E k \in Nat : y = <<j, k>> /\ k < d
  <2> SUFFICES ASSUME NEW y \in T  PROVE \E k \in Nat : y = <<j, k>> /\ k < d
    OBVIOUS
  <2>1. CASE y \in S
    <3>1. PICK k \in Nat : y = <<j, k>> /\ k < c
      BY <1>3, <2>1
    <3>2. k < d
      BY <1>3, <1>9, <3>1
    <3> QED
      BY <3>1, <3>2
  <2>2. CASE y \notin S
    <3>1. y = x /\ i < d
      BY <1>3, <1>4, <1>6, <1>9, <2>2
    <3> QED
      BY <1>4, <3>1
  <2> QED
    BY <2>1, <2>2
<1>11. CountsUp(j)'
  <2>1. Numbered(x, j, d)
    BY <1>3, <1>4, <1>9 DEF Numbered
  <2> QED
    BY <1>7, <1>8, <1>9, <1>10, <2>1 DEF CountsUp
<1>12. ASSUME NEW k \in Journeys \ {j}  PROVE CountsUp(k)'
  <2>1. PICK R : R = GoneOf(k)
    OBVIOUS
  <2>2. GoneOf(k)' = R
    BY <1>5, <1>12, <2>1 DEF GoneOf
  <2> QED
    BY <1>12, <2>1, <2>2 DEF ApprovalsCount, CountsUp
<1> QED
  BY <1>11, <1>12 DEF ApprovalsCount

-----------------------------------------------------------------------------
(* What an attempt has read is what the chains still say.                  *)

Outside == {"start", "refused"}
Quoting == Outside \cup {"market", "fee"}

(* Each machine has its own steps, and so has an order with a partner.     *)
InPlace(w, at) ==
  /\ at \in {"authorized", "nonce"} => Signs(w)
  /\ at = "signer" => w.via
  /\ at \in {"value", "allowance", "approve"} => w.m \in Evm
  /\ at \in {"id", "index", "cap"} => w.m \in Solana
  /\ at = "cosign" => w.m \in Solana /\ w.via

ReadTerms(w, at, a) ==
  LET t == terms[w.m] IN
  /\ at \notin Outside => Welcome(w, t) /\ a.platform = t.platform
  /\ Signs(w) /\ at \notin Quoting \cup {"quoted"} => a.signer = t.signer
  /\ w.m \in Solana /\ w.via /\ at \in {"id", "index", "cap", "cosign", "submit"}
       => a.signer = t.signer

ReadPrice(w, at, a) ==
  /\ at \notin Quoting => a.fee = price[w.m]
  /\ w.m \in Evm /\ at \in {"allowance", "approve", "submit"} => a.value = price[w.m]
  /\ w.m \in Solana /\ at \in {"cosign", "submit"} => a.value = price[w.m]

ReadCounters(w, at, a) ==
  w.m \in Solana =>
    /\ at \in {"index", "cap", "cosign", "submit"} => a.id = nextId[w.m]
    /\ at \in {"cap", "cosign", "submit"} => a.index = outbound[w.m][SpentBy(w)] + 1

(* An approval that is not spent, of the partner and of the input.         *)
Spendable(w, at, a) ==
  /\ Signs(w) /\ at \notin Quoting \cup {"quoted"} => a.approval \notin used[w.m]
  /\ w.m \in Evm /\ at = "submit" => allowance[w.m][w.user][SpentBy(w)] >= w.gross

WorthIt(at, a) ==
  /\ ~a.lapsed
  /\ at \notin Outside \cup {"market"} => a.traded # 0 /\ a.min \in Nat

Agrees(w, at, a) ==
  /\ ReadTerms(w, at, a) /\ ReadPrice(w, at, a) /\ ReadCounters(w, at, a)
  /\ Spendable(w, at, a) /\ WorthIt(at, a)

JourneyReads(j) ==
  /\ InPlace(wish[j], pc[j])
  /\ pc[j] \in Outside => attempt[j] = Blank
  /\ j \in undisturbed /\ ~HasOrder(j) => Agrees(wish[j], pc[j], attempt[j])

TermsKnown ==
  /\ wish \in Wishes
  /\ \A m \in Mirrors : terms[m] \in {FirstTerms[m]} \cup LaterTerms[m]
  /\ allowance \in [Evm -> [Users -> [Tokens -> Int]]]
  /\ price \in [Mirrors -> Nat] /\ DOMAIN outbound = Solana
  /\ undisturbed \subseteq Journeys

ReadInv == TermsKnown /\ \A j \in Journeys : JourneyReads(j)

(* A journey that a step leaves alone: what it has read has not moved, or  *)
(* it is told.                                                             *)
Stays(k) ==
  LET w == wish[k] IN
  /\ wish' = wish /\ pc'[k] = pc[k] /\ attempt'[k] = attempt[k]
  /\ HasOrder(k) => HasOrder(k)'
  /\ k \in undisturbed' =>
       /\ k \in undisturbed
       /\ terms'[w.m] = terms[w.m] /\ price'[w.m] = price[w.m]
       /\ w.m \in Solana => nextId'[w.m] = nextId[w.m] /\ outbound'[w.m] = outbound[w.m]
       /\ w.m \in Evm =>
            allowance'[w.m][w.user][SpentBy(w)] = allowance[w.m][w.user][SpentBy(w)]
       /\ Signs(w) /\ attempt[k].approval \in used'[w.m] => attempt[k].approval \in used[w.m]

(* A journey left alone by a step agrees with the chains as it did.        *)
LEMMA StaysRead ==
  ASSUME NEW k \in Journeys, JourneyReads(k), Stays(k)
  PROVE  JourneyReads(k)'
<1>1. PICK w : w = wish[k]
  OBVIOUS
<1>2. PICK at : at = pc[k]
  OBVIOUS
<1>3. PICK a : a = attempt[k]
  OBVIOUS
<1>4. wish'[k] = w /\ pc'[k] = at /\ attempt'[k] = a
  BY <1>1, <1>2, <1>3 DEF Stays
<1>5. InPlace(w, at) /\ (at \in Outside => a = Blank)
  BY <1>1, <1>2, <1>3 DEF JourneyReads
<1>6. ASSUME k \in undisturbed', ~HasOrder(k)'  PROVE Agrees(w, at, a)'
  <2>1. Agrees(w, at, a)
    BY <1>1, <1>2, <1>3, <1>6 DEF Stays, JourneyReads
  <2>2. /\ terms'[w.m] = terms[w.m] /\ price'[w.m] = price[w.m]
        /\ w.m \in Solana => nextId'[w.m] = nextId[w.m] /\ outbound'[w.m] = outbound[w.m]
        /\ w.m \in Evm =>
             allowance'[w.m][w.user][SpentBy(w)] = allowance[w.m][w.user][SpentBy(w)]
        /\ Signs(w) /\ a.approval \in used'[w.m] => a.approval \in used[w.m]
    BY <1>1, <1>3, <1>6 DEF Stays
  <2>3. ReadTerms(w, at, a)'
    BY <2>1, <2>2 DEF Agrees, ReadTerms
  <2>4. ReadPrice(w, at, a)'
    BY <2>1, <2>2 DEF Agrees, ReadPrice
  <2>5. ReadCounters(w, at, a)'
    BY <2>1, <2>2 DEF Agrees, ReadCounters
  <2>6. Spendable(w, at, a)'
    BY <2>1, <2>2 DEF Agrees, Spendable
  <2>7. WorthIt(at, a)
    BY <2>1 DEF Agrees
  <2> QED
    BY <2>3, <2>4, <2>5, <2>6, <2>7 DEF Agrees
<1> QED
  BY <1>4, <1>5, <1>6 DEF JourneyReads

(* A step of one journey that the chains do not see.                       *)
Unseen(j) ==
  /\ UNCHANGED <<wish, terms, price, allowance, used, nextId, outbound, orders>>
  /\ \A k \in Journeys \ {j} : pc'[k] = pc[k] /\ attempt'[k] = attempt[k]
  /\ \A k \in Journeys \ {j} : k \in undisturbed' => k \in undisturbed
  /\ undisturbed' \subseteq Journeys

(* A step of j that moves no chain: the rest is left alone, and j has to   *)
(* agree with the chains in its new state only.                            *)
LEMMA UnseenReads ==
  ASSUME ReadInv, ApprovalsCount, NEW j \in Journeys, Unseen(j),
         NEW at, pc'[j] = at, NEW a, attempt'[j] = a,
         a.approval = attempt[j].approval \/ a.approval = <<>> \/ a.approval = Fresh(j),
         InPlace(wish[j], at), at \in Outside => a = Blank,
         j \in undisturbed' /\ ~HasOrder(j) => Agrees(wish[j], at, a)
  PROVE  ReadInv' /\ ApprovalsCount'
<1>1. TermsKnown'
  BY DEF ReadInv, TermsKnown, Unseen
<1>2. HasOrder(j)' = HasOrder(j) /\ \A k \in Journeys : HasOrder(k) => HasOrder(k)'
  BY DEF Unseen, HasOrder
<1>3. JourneyReads(j)'
  <2>1. PICK w : w = wish[j]
    OBVIOUS
  <2>2. wish'[j] = w /\ InPlace(w, at)
    BY <2>1 DEF Unseen
  <2>3. Agrees(w, at, a) => Agrees(w, at, a)'
    BY DEF Unseen, Agrees, ReadTerms, ReadPrice, ReadCounters, Spendable
  <2> QED
    BY <1>2, <2>1, <2>2, <2>3 DEF JourneyReads
<1>4. ASSUME NEW k \in Journeys \ {j}  PROVE JourneyReads(k)'
  <2>1. Stays(k)
    BY <1>2, <1>4 DEF Unseen, Stays
  <2> QED
    BY <1>4, <2>1, StaysRead DEF ReadInv
<1>5. Gone' = Gone
  BY DEF Unseen, Gone
<1>6. ApprovalsCount'
  BY <1>5, NoneSpent DEF Unseen
<1> QED
  BY <1>1, <1>3, <1>4, <1>6 DEF ReadInv

(* A step that every journey is left alone by.                             *)
LEMMA AllStay ==
  ASSUME ReadInv, TermsKnown', \A k \in Journeys : Stays(k)
  PROVE  ReadInv'
BY StaysRead DEF ReadInv

-----------------------------------------------------------------------------
(* The amounts of a quote under the terms it was made from.                *)

(* Two fees that are no more than the whole together leave the rest.       *)
LEMMA FeesFit ==
  ASSUME NEW gross \in Nat, NEW bps \in Nat, NEW rate \in Nat, bps + rate <= FeeUnit
  PROVE  gross - FeeOf(gross, bps, FeeUnit) - FeeOf(gross, rate, FeeUnit) \in Nat
<1>1. PICK u : u = FeeUnit
  OBVIOUS
<1>2. u \in Nat \ {0}
  BY <1>1, PartnerAssumption
<1>3. PICK x : x = gross * bps
  OBVIOUS
<1>4. PICK y : y = gross * rate
  OBVIOUS
<1>5. x \in Nat /\ y \in Nat
  BY <1>3, <1>4
<1>6. PICK f : f = x \div u
  OBVIOUS
<1>7. PICK g : g = y \div u
  OBVIOUS
<1>8. /\ f \in Nat /\ f * u \in Nat /\ f * u <= x
      /\ g \in Nat /\ g * u \in Nat /\ g * u <= y
  BY <1>2, <1>5, <1>6, <1>7, RoundsDown
<1>9. x + y <= gross * u
  <2>1. (bps + rate) * gross <= u * gross
    BY <1>1, <1>2, ProductGrows
  <2>2. x + y = (bps + rate) * gross
    BY <1>3, <1>4
  <2>3. u * gross = gross * u
    BY <1>2
  <2> QED
    BY <2>1, <2>2, <2>3
<1>10. PICK h : h = f + g
  OBVIOUS
<1>11. h \in Nat /\ h * u = f * u + g * u
  BY <1>2, <1>8, <1>10
<1>12. h * u <= gross * u
  <2>1. PICK p : p = f * u
    OBVIOUS
  <2>2. PICK q : q = g * u
    OBVIOUS
  <2>3. PICK r : r = gross * u
    OBVIOUS
  <2>4. r \in Nat
    BY <1>2, <2>3
  <2>5. p \in Nat /\ q \in Nat /\ p <= x /\ q <= y /\ x + y <= r /\ h * u = p + q
    BY <1>8, <1>9, <1>11, <2>1, <2>2, <2>3
  <2> QED
    BY <1>5, <2>3, <2>4, <2>5
<1>13. ASSUME h >= gross + 1  PROVE FALSE
  <2>1. (gross + 1) * u <= h * u
    BY <1>2, <1>11, <1>13, ProductGrows
  <2>2. (gross + 1) * u = gross * u + u
    BY <1>2
  <2>3. PICK r : r = gross * u
    OBVIOUS
  <2>4. r \in Nat /\ h * u <= r /\ r + u <= h * u
    BY <1>2, <1>12, <2>1, <2>2, <2>3
  <2>5. PICK z : z = h * u
    OBVIOUS
  <2>6. z \in Nat
    BY <1>2, <1>11, <2>5
  <2> QED
    BY <1>2, <2>4, <2>5, <2>6
<1>14. f + g <= gross
  BY <1>10, <1>11, <1>13
<1>15. FeeOf(gross, bps, FeeUnit) = f /\ FeeOf(gross, rate, FeeUnit) = g
  BY <1>1, <1>3, <1>4, <1>6, <1>7 DEF FeeOf
<1> QED
  BY <1>8, <1>14, <1>15

(* Who is welcome is left with something, or nothing, but owes nothing.    *)
LEMMA NetIsLeft ==
  ASSUME PartnerInv, ReadInv, NEW j \in Journeys, NEW w, w = wish[j], Welcome(w, terms[w.m])
  PROVE  NetOf(w, terms[w.m].platform) \in Nat
<1>1. PICK t : t = terms[w.m]
  OBVIOUS
<1>2. /\ w \in WishType /\ w.gross \in Nat /\ w.bps \in Nat /\ w.via \in BOOLEAN
      /\ w.m \in Mirrors /\ t \in TermsType /\ t.platform \in Nat /\ t.max \in Nat
  BY <1>1 DEF PartnerInv, Shape, WishType, TermsType
<1>3. t.platform + t.max <= FeeUnit /\ (w.via \/ w.bps = 0)
  BY <1>1, <1>2, RatesAssumption DEF ReadInv, TermsKnown
<1>4. PICK rate : rate = RateOf(w, t.platform)
  OBVIOUS
<1>5. rate \in Nat /\ rate <= t.platform
  BY <1>2, <1>4 DEF RateOf
<1>6. w.bps + rate <= FeeUnit
  BY <1>1, <1>2, <1>3, <1>5, PartnerAssumption DEF Welcome
<1> QED
  BY <1>1, <1>2, <1>4, <1>5, <1>6, FeesFit DEF NetOf

(* The floor of a quote is an amount.                                      *)
LEMMA FloorIsAmount ==
  ASSUME NEW w \in WishType, NEW a, MatchesQuote(w, a), NetOf(w, a.platform) \in Nat,
         a.traded # 0, a.pool \in [Tokens -> Nat]
  PROVE  a.min \in Nat
<1>1. PICK q : q = SentQuantum(w)
  OBVIOUS
<1>2. PICK qq : qq = PaidQuantum(w)
  OBVIOUS
<1>3. PICK h : h = HomeQuantum[BoughtBy(w)]
  OBVIOUS
<1>4. PICK g : g = HomeQuantum[SpentBy(w)]
  OBVIOUS
<1>5. /\ q \in Nat \ {0} /\ qq \in Nat \ {0} /\ h \in Nat \ {0} /\ g \in Nat \ {0}
      /\ SpentBy(w) \in Tokens
  BY <1>1, <1>2, <1>3, <1>4, PartnerAssumption
  DEF SentQuantum, PaidQuantum, SpentBy, BoughtBy, Tokens, WishType
<1>6. PICK net \in Nat : net = NetOf(w, a.platform)
  OBVIOUS
<1>7. PICK s : s = net \div q
  OBVIOUS
<1>8. s \in Nat /\ a.traded = s * q
  BY <1>1, <1>5, <1>6, <1>7, RoundsDown DEF MatchesQuote, RemoveDust, ToLocal, ToShared
<1>9. s # 0
  BY <1>5, <1>8
<1>10. ToShared(a.traded, q) = s
  BY <1>5, <1>8, UnitsOfUnits DEF ToShared
<1>11. PICK input : input = s * g
  OBVIOUS
<1>12. input \in Nat \ {0}
  <2>1. s * g \in Nat \ {0}
    BY <1>5, <1>8, <1>9
  <2> QED
    BY <1>11, <2>1
<1>13. PICK out : out = PaidFor(w, a.pool, s)
  OBVIOUS
<1>14. out \in Nat
  BY <1>4, <1>5, <1>11, <1>12, <1>13, PaysFromThePool DEF PaidFor, ToLocal
<1>15. a.expected = Returned(w, out)
  BY <1>1, <1>10, <1>13 DEF MatchesQuote
<1>16. a.expected \in Nat
  <2>1. PICK y : y = out \div h
    OBVIOUS
  <2>2. y \in Nat
    BY <1>5, <1>14, <2>1, RoundsDown
  <2>3. y * qq \in Nat
    BY <1>5, <2>2
  <2> QED
    BY <1>2, <1>3, <1>15, <2>1, <2>3 DEF Returned, ToLocal, ToShared
<1>17. PICK x : x = (a.expected * (FeeUnit - Slippage)) \div FeeUnit
  OBVIOUS
<1>18. x \in Nat
  <2>1. FeeUnit - Slippage \in 0..FeeUnit
    BY PartnerAssumption
  <2> QED
    BY <1>16, <1>17, <2>1, ShareBelow
<1>19. a.min = (x \div qq) * qq
  BY <1>2, <1>17 DEF MatchesQuote, RemoveDust, ToLocal, ToShared
<1> QED
  BY <1>5, <1>18, <1>19, RoundsDown

-----------------------------------------------------------------------------
(* Steps of a journey keep what it has read.                               *)

BuildInv == PartnerInv /\ ApprovalsCount /\ ReadInv

(* A call of the API moves no chain.                                       *)
LEMMA ReadsUnseen ==
  ASSUME BuildInv, NEW j \in Journeys, NEW to, NEW b, Reads(j, to, b)
  PROVE  Unseen(j) /\ pc'[j] = to /\ attempt'[j] = b /\ undisturbed' = undisturbed
<1>1. DOMAIN pc = Journeys /\ DOMAIN attempt = Journeys /\ undisturbed \subseteq Journeys
  BY DEF BuildInv, PartnerInv, Shape, ReadInv, TermsKnown
<1> QED
  BY <1>1 DEF Reads, Goes, chainVars, Unseen

(* A call that goes on.                                                    *)
LEMMA ReadsAgree ==
  ASSUME BuildInv, NEW j \in Journeys, NEW to, NEW b, Reads(j, to, b), to \notin Outside,
         b.approval = attempt[j].approval \/ b.approval = Fresh(j), InPlace(wish[j], to),
         Agrees(wish[j], pc[j], attempt[j]) => Agrees(wish[j], to, b)
  PROVE  ReadInv' /\ ApprovalsCount'
<1>1. Unseen(j) /\ pc'[j] = to /\ attempt'[j] = b /\ undisturbed' = undisturbed
  BY ReadsUnseen
<1>2. JourneyReads(j) /\ ReadInv /\ ApprovalsCount
  BY DEF BuildInv, ReadInv
<1>3. j \in undisturbed' /\ ~HasOrder(j) => Agrees(wish[j], to, b)
  BY <1>1, <1>2 DEF JourneyReads
<1> QED
  BY <1>1, <1>2, <1>3, UnseenReads

(* A journey that is refused has nothing in hand.                          *)
LEMMA NothingAgrees ==
  ASSUME NEW w, NEW at \in Outside, NEW a, a = Blank
  PROVE  InPlace(w, at) /\ Agrees(w, at, a) /\ a.approval = <<>> /\ a.min = 0
<1>1. ~a.lapsed /\ a.approval = <<>> /\ a.min = 0
  BY DEF Blank
<1> QED
  BY <1>1 DEF Outside, Quoting, InPlace, Agrees, ReadTerms, ReadPrice, ReadCounters, Spendable,
              WorthIt

(* A refusal leaves nothing to agree with.                                 *)
LEMMA RefusedAgrees ==
  ASSUME BuildInv, NEW j \in Journeys, Refused(j)
  PROVE  ReadInv' /\ ApprovalsCount'
<1>1. PICK b : b = Blank
  OBVIOUS
<1>2. Unseen(j) /\ pc'[j] = "refused" /\ attempt'[j] = b
  BY <1>1, ReadsUnseen DEF Refused
<1>3. InPlace(wish[j], "refused") /\ Agrees(wish[j], "refused", b) /\ b.approval = <<>>
  BY <1>1, NothingAgrees DEF Outside
<1> QED
  BY <1>1, <1>2, <1>3, UnseenReads DEF BuildInv

(* What every action of a journey starts from.                             *)
LEMMA JourneyFacts ==
  ASSUME BuildInv, NEW j \in Journeys
  PROVE  /\ wish[j] \in WishType /\ On(j) = wish[j].m /\ Now(j) = terms[wish[j].m]
         /\ (SignsFirst(j) <=> Signs(wish[j])) /\ Spent(j) = SpentBy(wish[j])
         /\ DOMAIN attempt[j] = AttemptFields /\ Gathered(j, wish[j], pc[j], attempt[j])
         /\ JourneyReads(j) /\ InPlace(wish[j], pc[j])
         /\ wish[j].m \in Evm \/ wish[j].m \in Solana
         /\ ~(wish[j].m \in Evm /\ wish[j].m \in Solana)
         /\ price[wish[j].m] \in Nat
<1>1. wish[j] \in WishType /\ wish[j].m \in Mirrors
  BY DEF BuildInv, PartnerInv, Shape, WishType
<1>2. price[wish[j].m] \in Nat
  BY <1>1 DEF BuildInv, ReadInv, TermsKnown
<1>3. ~(wish[j].m \in Evm /\ wish[j].m \in Solana)
  BY PartnerAssumption
<1>4. JourneyReads(j) /\ InPlace(wish[j], pc[j])
  BY DEF BuildInv, ReadInv, JourneyReads
<1>5. DOMAIN attempt[j] = AttemptFields /\ Gathered(j, wish[j], pc[j], attempt[j])
  BY DEF BuildInv, PartnerInv, Shape, JourneysSound
<1> QED
  BY <1>1, <1>2, <1>3, <1>4, <1>5
  DEF On, Now, SignsFirst, Signs, Spent, SpentBy, Mirrors

(* The calls of a quote.                                                   *)
LEMMA QuoteAgrees ==
  ASSUME BuildInv, NEW j \in Journeys, Quote(j)
  PROVE  ReadInv' /\ ApprovalsCount'
<1>1. PICK w : w = wish[j]
  OBVIOUS
<1>2. PICK a : a = attempt[j]
  OBVIOUS
<1>3. /\ w \in WishType /\ On(j) = w.m /\ Now(j) = terms[w.m]
      /\ DOMAIN a = AttemptFields /\ InPlace(w, pc[j])
  BY <1>1, <1>2, JourneyFacts
<1>4. ASSUME QuoteTerms(j), ~Refused(j)  PROVE ReadInv' /\ ApprovalsCount'
  <2>1. PICK b : b = [a EXCEPT !.platform = terms[w.m].platform]
    OBVIOUS
  <2>2. pc[j] = "start" /\ Reads(j, "market", b) /\ Welcome(w, terms[w.m])
    BY <1>1, <1>2, <1>3, <1>4, <2>1 DEF QuoteTerms, Learns
  <2>3. /\ b.approval = a.approval /\ b.platform = terms[w.m].platform
        /\ b.lapsed = a.lapsed
    BY <1>3, <2>1 DEF AttemptFields
  <2>4. Agrees(w, "start", a) => Agrees(w, "market", b)
    BY <2>2, <2>3
    DEF Outside, Quoting, Agrees, ReadTerms, ReadPrice, ReadCounters, Spendable, WorthIt
  <2>5. InPlace(w, "market")
    BY DEF InPlace
  <2> QED
    BY <1>1, <1>2, <2>2, <2>3, <2>4, <2>5, ReadsAgree DEF Outside
<1>5. ASSUME QuoteMarket(j), ~Refused(j)  PROVE ReadInv' /\ ApprovalsCount'
  <2>1. PICK traded : traded = Traded(j, PlatformRate(j, a.platform))
    OBVIOUS
  <2>2. PICK out : out = Expected(j, pool, traded)
    OBVIOUS
  <2>3. PICK min : min = MinAmountOut(j, out)
    OBVIOUS
  <2>4. PICK b : b = [a EXCEPT !.pool = pool, !.traded = traded, !.expected = out, !.min = min]
    OBVIOUS
  <2>5. pc[j] = "market" /\ Reads(j, "fee", b) /\ traded # 0
    BY <1>2, <1>5, <2>1, <2>2, <2>3, <2>4 DEF QuoteMarket
  <2>6. /\ b.approval = a.approval /\ b.platform = a.platform /\ b.pool = pool
        /\ b.traded = traded /\ b.expected = out /\ b.min = min /\ b.lapsed = a.lapsed
    BY <1>3, <2>4 DEF AttemptFields
  <2>7. /\ traded = RemoveDust(NetOf(w, b.platform), SentQuantum(w))
        /\ out = Returned(w, PaidFor(w, pool, ToShared(traded, SentQuantum(w))))
        /\ min = RemoveDust((out * (FeeUnit - Slippage)) \div FeeUnit, PaidQuantum(w))
    BY <1>1, <2>1, <2>2, <2>3, <2>6, QuoteOfWish
  <2>8. MatchesQuote(w, b)
    BY <2>6, <2>7 DEF MatchesQuote
  <2>9. ASSUME Agrees(w, "market", a)  PROVE Agrees(w, "fee", b)
    <3>1. Welcome(w, terms[w.m]) /\ b.platform = terms[w.m].platform
      BY <2>6, <2>9 DEF Agrees, ReadTerms, Outside
    <3>2. NetOf(w, b.platform) \in Nat
      BY <1>1, <3>1, NetIsLeft DEF BuildInv
    <3>3. b.traded # 0 /\ b.pool \in [Tokens -> Nat]
      BY <2>5, <2>6 DEF BuildInv, PartnerInv, Shape
    <3>4. b.min \in Nat
      BY <1>3, <2>8, <3>2, <3>3, FloorIsAmount
    <3> QED
      BY <2>6, <2>9, <3>1, <3>3, <3>4
      DEF Outside, Quoting, Agrees, ReadTerms, ReadPrice, ReadCounters, Spendable, WorthIt
  <2>10. InPlace(w, "fee")
    BY DEF InPlace
  <2> QED
    BY <1>1, <1>2, <2>5, <2>6, <2>9, <2>10, ReadsAgree DEF Outside
<1>6. ASSUME QuoteFee(j)  PROVE ReadInv' /\ ApprovalsCount'
  <2>1. PICK b : b = [a EXCEPT !.fee = price[w.m]]
    OBVIOUS
  <2>2. pc[j] = "fee" /\ Reads(j, "quoted", b)
    BY <1>2, <1>3, <1>6, <2>1 DEF QuoteFee, Learns
  <2>3. /\ b.approval = a.approval /\ b.platform = a.platform /\ b.traded = a.traded
        /\ b.min = a.min /\ b.lapsed = a.lapsed /\ b.fee = price[w.m]
    BY <1>3, <2>1 DEF AttemptFields
  <2>4. Agrees(w, "fee", a) => Agrees(w, "quoted", b)
    BY <2>3
    DEF Outside, Quoting, Agrees, ReadTerms, ReadPrice, ReadCounters, Spendable, WorthIt
  <2>5. InPlace(w, "quoted")
    BY DEF InPlace
  <2> QED
    BY <1>1, <1>2, <2>2, <2>3, <2>4, <2>5, ReadsAgree DEF Outside
<1> QED
  BY <1>4, <1>5, <1>6, RefusedAgrees DEF Quote

(* What an attempt keeps, whatever of its later fields it learns.          *)
Keeps(a, b) ==
  /\ b.platform = a.platform /\ b.traded = a.traded /\ b.min = a.min
  /\ b.lapsed = a.lapsed /\ b.fee = a.fee

(* The partner's signature, and the terms read again.                      *)
LEMMA BuildTermsAgrees ==
  ASSUME BuildInv, NEW j \in Journeys, Authorize(j) \/ BuildTerms(j)
  PROVE  ReadInv' /\ ApprovalsCount'
<1>1. PICK w : w = wish[j]
  OBVIOUS
<1>2. PICK a : a = attempt[j]
  OBVIOUS
<1>3. /\ w \in WishType /\ On(j) = w.m /\ Now(j) = terms[w.m] /\ (SignsFirst(j) <=> Signs(w))
      /\ DOMAIN a = AttemptFields /\ InPlace(w, pc[j])
      /\ w.m \in Evm \/ (w.m \in Solana /\ w.m \notin Evm)
  BY <1>1, <1>2, JourneyFacts
<1>4. CASE Authorize(j)
  <2>1. PICK x : x = Fresh(j)
    OBVIOUS
  <2>2. PICK b : b = [a EXCEPT !.approval = x, !.signer = terms[w.m].signer]
    OBVIOUS
  <2>3. pc[j] = "quoted" /\ Signs(w) /\ Reads(j, "authorized", b)
    BY <1>2, <1>3, <1>4, <2>1, <2>2 DEF Authorize
  <2>4. Keeps(a, b) /\ b.approval = x /\ b.signer = terms[w.m].signer
    BY <1>3, <2>2 DEF AttemptFields, Keeps
  <2>5. x \notin used[w.m]
    BY <1>3, <2>1, <2>3, FreshIsNotGone DEF BuildInv, Gone, Signs
  <2>6. Agrees(w, "quoted", a) => Agrees(w, "authorized", b)
    BY <1>3, <2>3, <2>4, <2>5
    DEF Outside, Quoting, Agrees, ReadTerms, ReadPrice, ReadCounters, Spendable, WorthIt, Keeps
  <2>7. InPlace(w, "authorized")
    BY <2>3 DEF InPlace
  <2> QED
    BY <1>1, <1>2, <2>1, <2>3, <2>4, <2>6, <2>7, ReadsAgree DEF Outside
<1>5. ASSUME BuildTerms(j), ~Refused(j)  PROVE ReadInv' /\ ApprovalsCount'
  <2>1. PICK to : to = IF Signs(w) THEN "nonce" ELSE IF w.m \in Evm THEN "value"
                       ELSE IF w.via THEN "signer" ELSE "id"
    OBVIOUS
  <2>2. PICK at : at = pc[j]
    OBVIOUS
  <2>3. Reads(j, to, a) /\ at = IF Signs(w) THEN "authorized" ELSE "quoted"
    BY <1>1, <1>2, <1>3, <1>5, <2>1, <2>2 DEF BuildTerms
  <2>4. w.m \in Solana /\ w.m \notin Evm => ~Signs(w)
    BY DEF Signs
  <2>5. CASE Signs(w)
    <3>1. to = "nonce" /\ at = "authorized" /\ w.m \in Evm /\ w.m \notin Solana
      BY <1>3, <2>1, <2>3, <2>5, PartnerAssumption DEF Signs
    <3>2. Agrees(w, at, a) => Agrees(w, to, a)
      BY <3>1
      DEF Outside, Quoting, Agrees, ReadTerms, ReadPrice, ReadCounters, Spendable, WorthIt
    <3>3. InPlace(w, to)
      BY <2>5, <3>1 DEF InPlace
    <3> QED
      BY <1>1, <1>2, <2>2, <2>3, <3>1, <3>2, <3>3, ReadsAgree DEF Outside
  <2>6. CASE ~Signs(w) /\ w.m \in Evm
    <3>1. to = "value" /\ at = "quoted" /\ w.m \notin Solana
      BY <2>1, <2>3, <2>6, PartnerAssumption
    <3>2. Agrees(w, at, a) => Agrees(w, to, a)
      BY <2>6, <3>1
      DEF Outside, Quoting, Agrees, ReadTerms, ReadPrice, ReadCounters, Spendable, WorthIt
    <3>3. InPlace(w, to)
      BY <2>6, <3>1 DEF InPlace
    <3> QED
      BY <1>1, <1>2, <2>2, <2>3, <3>1, <3>2, <3>3, ReadsAgree DEF Outside
  <2>7. CASE ~Signs(w) /\ w.m \notin Evm
    <3>1. /\ to = IF w.via THEN "signer" ELSE "id"
          /\ at = "quoted" /\ w.m \in Solana
      BY <1>3, <2>1, <2>3, <2>7
    <3>2. Agrees(w, at, a) => Agrees(w, to, a)
      BY <2>7, <3>1
      DEF Outside, Quoting, Agrees, ReadTerms, ReadPrice, ReadCounters, Spendable, WorthIt
    <3>3. InPlace(w, to)
      BY <2>7, <3>1 DEF InPlace
    <3> QED
      BY <1>1, <1>2, <2>2, <2>3, <3>1, <3>2, <3>3, ReadsAgree DEF Outside
  <2> QED
    BY <2>5, <2>6, <2>7
<1> QED
  BY <1>4, <1>5, RefusedAgrees

(* Building for an EVM mirror.                                             *)
LEMMA BuildEvmAgrees ==
  ASSUME BuildInv, NEW j \in Journeys, BuildEvm(j)
  PROVE  ReadInv' /\ ApprovalsCount'
<1>1. PICK w : w = wish[j]
  OBVIOUS
<1>2. PICK a : a = attempt[j]
  OBVIOUS
<1>3. /\ w \in WishType /\ On(j) = w.m /\ Now(j) = terms[w.m] /\ Spent(j) = SpentBy(w)
      /\ DOMAIN a = AttemptFields /\ InPlace(w, pc[j])
      /\ ~(w.m \in Evm /\ w.m \in Solana)
  BY <1>1, <1>2, JourneyFacts
<1>4. ASSUME CheckNonce(j), ~Refused(j)  PROVE ReadInv' /\ ApprovalsCount'
  <2>1. pc[j] = "nonce" /\ Reads(j, "signer", a) /\ Signs(w)
    BY <1>2, <1>3, <1>4 DEF CheckNonce, InPlace
  <2>2. Agrees(w, "nonce", a) => Agrees(w, "signer", a)
    BY <1>3, <2>1
    DEF Outside, Quoting, Agrees, ReadTerms, ReadPrice, ReadCounters, Spendable, WorthIt
  <2>3. InPlace(w, "signer")
    BY <2>1 DEF InPlace, Signs
  <2> QED
    BY <1>1, <1>2, <2>1, <2>2, <2>3, ReadsAgree DEF Outside
<1>5. ASSUME CheckSigner(j), ~Refused(j)  PROVE ReadInv' /\ ApprovalsCount'
  <2>1. pc[j] = "signer" /\ Reads(j, "value", a) /\ w.m \in Evm
    BY <1>2, <1>3, <1>5 DEF CheckSigner
  <2>2. Agrees(w, "signer", a) => Agrees(w, "value", a)
    BY <1>3, <2>1
    DEF Outside, Quoting, Agrees, ReadTerms, ReadPrice, ReadCounters, Spendable, WorthIt
  <2>3. InPlace(w, "value")
    BY <2>1 DEF InPlace
  <2> QED
    BY <1>1, <1>2, <2>1, <2>2, <2>3, ReadsAgree DEF Outside
<1>6. ASSUME ReadValue(j)  PROVE ReadInv' /\ ApprovalsCount'
  <2>1. PICK x : x = IF w.keepsFee THEN a.fee ELSE price[w.m]
    OBVIOUS
  <2>2. PICK b : b = [a EXCEPT !.value = x]
    OBVIOUS
  <2>3. pc[j] = "value" /\ Reads(j, "allowance", b) /\ w.m \in Evm
    BY <1>1, <1>2, <1>3, <1>6, <2>1, <2>2 DEF ReadValue, Learns
  <2>4. Keeps(a, b) /\ b.approval = a.approval /\ b.signer = a.signer /\ b.value = x
    BY <1>3, <2>2 DEF AttemptFields, Keeps
  <2>5. Agrees(w, "value", a) => Agrees(w, "allowance", b)
    BY <1>3, <2>1, <2>3, <2>4
    DEF Outside, Quoting, Agrees, ReadTerms, ReadPrice, ReadCounters, Spendable, WorthIt, Keeps
  <2>6. InPlace(w, "allowance")
    BY <2>3 DEF InPlace
  <2> QED
    BY <1>1, <1>2, <2>3, <2>4, <2>5, <2>6, ReadsAgree DEF Outside
<1>7. ASSUME ReadAllowance(j)  PROVE ReadInv' /\ ApprovalsCount'
  <2>1. PICK held : held = allowance[w.m][w.user][SpentBy(w)]
    OBVIOUS
  <2>2. PICK to : to = IF held < w.gross THEN "approve" ELSE "submit"
    OBVIOUS
  <2>3. pc[j] = "allowance" /\ Reads(j, to, a) /\ w.m \in Evm
    BY <1>1, <1>2, <1>3, <1>7, <2>1, <2>2 DEF ReadAllowance, Approves, InPlace
  <2>4. held \in Int /\ w.gross \in Nat
    BY <1>3, <2>1, <2>3 DEF BuildInv, ReadInv, TermsKnown, WishType, SpentBy, Tokens
  <2>5. to = "submit" => held >= w.gross
    BY <2>2, <2>4
  <2>6. to \in {"approve", "submit"}
    BY <2>2
  <2>7. Agrees(w, "allowance", a) => Agrees(w, to, a)
    BY <1>3, <2>1, <2>3, <2>5, <2>6
    DEF Outside, Quoting, Agrees, ReadTerms, ReadPrice, ReadCounters, Spendable, WorthIt
  <2>8. InPlace(w, to)
    BY <2>3, <2>6 DEF InPlace
  <2> QED
    BY <1>1, <1>2, <2>3, <2>6, <2>7, <2>8, ReadsAgree DEF Outside
<1> QED
  BY <1>4, <1>5, <1>6, <1>7, RefusedAgrees DEF BuildEvm

(* Building for a Solana one, and the partner's signature of it.           *)
LEMMA BuildSolanaAgrees ==
  ASSUME BuildInv, NEW j \in Journeys, BuildSolana(j) \/ CoSign(j)
  PROVE  ReadInv' /\ ApprovalsCount'
<1>1. PICK w : w = wish[j]
  OBVIOUS
<1>2. PICK a : a = attempt[j]
  OBVIOUS
<1>3. /\ w \in WishType /\ On(j) = w.m /\ Now(j) = terms[w.m] /\ Spent(j) = SpentBy(w)
      /\ DOMAIN a = AttemptFields /\ InPlace(w, pc[j])
      /\ ~(w.m \in Evm /\ w.m \in Solana)
  BY <1>1, <1>2, JourneyFacts
<1>4. w.m \in Solana => ~Signs(w)
  BY <1>3 DEF Signs
<1>5. ASSUME NameSigner(j)  PROVE ReadInv' /\ ApprovalsCount'
  <2>1. PICK b : b = [a EXCEPT !.signer = terms[w.m].signer]
    OBVIOUS
  <2>2. pc[j] = "signer" /\ Reads(j, "id", b) /\ w.m \in Solana
    BY <1>2, <1>3, <1>5, <2>1 DEF NameSigner, Learns
  <2>3. Keeps(a, b) /\ b.approval = a.approval /\ b.signer = terms[w.m].signer
    BY <1>3, <2>1 DEF AttemptFields, Keeps
  <2>4. Agrees(w, "signer", a) => Agrees(w, "id", b)
    BY <1>3, <1>4, <2>2, <2>3
    DEF Outside, Quoting, Agrees, ReadTerms, ReadPrice, ReadCounters, Spendable, WorthIt, Keeps
  <2>5. InPlace(w, "id")
    BY <2>2 DEF InPlace
  <2> QED
    BY <1>1, <1>2, <2>2, <2>3, <2>4, <2>5, ReadsAgree DEF Outside
<1>6. ASSUME NextRequestId(j)  PROVE ReadInv' /\ ApprovalsCount'
  <2>1. PICK b : b = [a EXCEPT !.id = nextId[w.m]]
    OBVIOUS
  <2>2. pc[j] = "id" /\ Reads(j, "index", b) /\ w.m \in Solana
    BY <1>2, <1>3, <1>6, <2>1 DEF NextRequestId, Learns, InPlace
  <2>3. /\ Keeps(a, b) /\ b.approval = a.approval /\ b.signer = a.signer
        /\ b.id = nextId[w.m]
    BY <1>3, <2>1 DEF AttemptFields, Keeps
  <2>4. Agrees(w, "id", a) => Agrees(w, "index", b)
    BY <1>3, <1>4, <2>2, <2>3
    DEF Outside, Quoting, Agrees, ReadTerms, ReadPrice, ReadCounters, Spendable, WorthIt, Keeps
  <2>5. InPlace(w, "index")
    BY <2>2 DEF InPlace
  <2> QED
    BY <1>1, <1>2, <2>2, <2>3, <2>4, <2>5, ReadsAgree DEF Outside
<1>7. ASSUME NonceIndex(j)  PROVE ReadInv' /\ ApprovalsCount'
  <2>1. PICK x : x = outbound[w.m][SpentBy(w)] + 1
    OBVIOUS
  <2>2. PICK b : b = [a EXCEPT !.index = x]
    OBVIOUS
  <2>3. pc[j] = "index" /\ Reads(j, "cap", b) /\ w.m \in Solana
    BY <1>2, <1>3, <1>7, <2>1, <2>2 DEF NonceIndex, Learns, InPlace, NextOutboundNonce
  <2>4. /\ Keeps(a, b) /\ b.approval = a.approval /\ b.signer = a.signer
        /\ b.id = a.id /\ b.index = x
    BY <1>3, <2>2 DEF AttemptFields, Keeps
  <2>5. Agrees(w, "index", a) => Agrees(w, "cap", b)
    BY <1>3, <1>4, <2>1, <2>3, <2>4
    DEF Outside, Quoting, Agrees, ReadTerms, ReadPrice, ReadCounters, Spendable, WorthIt, Keeps
  <2>6. InPlace(w, "cap")
    BY <2>3 DEF InPlace
  <2> QED
    BY <1>1, <1>2, <2>3, <2>4, <2>5, <2>6, ReadsAgree DEF Outside
<1>8. ASSUME QuoteSend(j)  PROVE ReadInv' /\ ApprovalsCount'
  <2>1. PICK x : x = Fresh(j)
    OBVIOUS
  <2>2. PICK b : b = [a EXCEPT !.value = price[w.m], !.approval = x]
    OBVIOUS
  <2>3. PICK to : to = IF w.via THEN "cosign" ELSE "submit"
    OBVIOUS
  <2>4. pc[j] = "cap" /\ Reads(j, to, b) /\ w.m \in Solana
    BY <1>1, <1>2, <1>3, <1>8, <2>1, <2>2, <2>3 DEF QuoteSend, InPlace
  <2>5. /\ Keeps(a, b) /\ b.approval = x /\ b.signer = a.signer
        /\ b.id = a.id /\ b.index = a.index /\ b.value = price[w.m]
    BY <1>3, <2>2 DEF AttemptFields, Keeps
  <2>6. to \in {"cosign", "submit"} /\ (to = "cosign" => w.via)
    BY <2>3
  <2>7. Agrees(w, "cap", a) => Agrees(w, to, b)
    BY <1>3, <1>4, <2>4, <2>5, <2>6
    DEF Outside, Quoting, Agrees, ReadTerms, ReadPrice, ReadCounters, Spendable, WorthIt, Keeps
  <2>8. InPlace(w, to)
    BY <2>4, <2>6 DEF InPlace
  <2> QED
    BY <1>1, <1>2, <2>1, <2>4, <2>5, <2>6, <2>7, <2>8, ReadsAgree DEF Outside
<1>9. ASSUME CoSign(j), ~Refused(j)  PROVE ReadInv' /\ ApprovalsCount'
  <2>1. pc[j] = "cosign" /\ Reads(j, "submit", a) /\ w.m \in Solana
    BY <1>2, <1>3, <1>9 DEF CoSign, InPlace
  <2>2. Agrees(w, "cosign", a) => Agrees(w, "submit", a)
    BY <1>3, <1>4, <2>1
    DEF Outside, Quoting, Agrees, ReadTerms, ReadPrice, ReadCounters, Spendable, WorthIt
  <2>3. InPlace(w, "submit")
    BY DEF InPlace
  <2> QED
    BY <1>1, <1>2, <2>1, <2>2, <2>3, ReadsAgree DEF Outside
<1> QED
  BY <1>5, <1>6, <1>7, <1>8, <1>9, RefusedAgrees DEF BuildSolana

-----------------------------------------------------------------------------
(* The other steps.                                                        *)

(* A step of a journey that has an order, and does not begin again.        *)
LEMMA OrderedReads ==
  ASSUME BuildInv, NEW j \in Journeys, HasOrder(j), Unseen(j), NEW to, pc'[j] = to,
         to \in Late, attempt'[j].approval = attempt[j].approval
  PROVE  ReadInv' /\ ApprovalsCount'
<1>1. PICK b : b = attempt'[j]
  OBVIOUS
<1>2. InPlace(wish[j], to) /\ to \notin Outside
  BY DEF Late, InPlace, Outside
<1> QED
  BY <1>1, <1>2, UnseenReads DEF BuildInv

(* Steps after the order: resending it, learning of it and polling it.     *)
LEMMA AnswerAgrees ==
  ASSUME BuildInv, NEW j \in Journeys,
         Resend(j) \/ FindsOut(j) \/ Reverted(j) \/ Poll(j) \/ Answered(j)
  PROVE  ReadInv' /\ ApprovalsCount'
<1>1. pc[j] \in {"unsure", "placed"} => HasOrder(j)
  BY DEF BuildInv, PartnerInv, Ordered, HasOrder
<1>2. Placed(j) <=> HasOrder(j)
  BY OwnOrder DEF BuildInv, Placed, HasOrder
<1>3. ASSUME NEW to \in {"submit", "placed"}, Reads(j, to, attempt[j]), HasOrder(j)
      PROVE  ReadInv' /\ ApprovalsCount'
  <2>1. PICK a : a = attempt[j]
    OBVIOUS
  <2>2. Unseen(j) /\ pc'[j] = to /\ attempt'[j] = a
    BY <1>3, <2>1, ReadsUnseen
  <2> QED
    BY <1>3, <2>1, <2>2, OrderedReads DEF Late
<1>4. CASE Resend(j)
  BY <1>1, <1>3, <1>4 DEF Resend
<1>5. CASE FindsOut(j)
  BY <1>1, <1>3, <1>5 DEF FindsOut
<1>6. CASE Reverted(j)
  BY <1>2, <1>3, <1>6, RefusedAgrees DEF Reverted
<1>7. CASE Poll(j) \/ Answered(j)
  <2>1. PICK to : to = pc'[j]
    OBVIOUS
  <2>2. pc[j] = "placed" /\ to \in {"placed", "done"}
    BY <1>7, <2>1 DEF Poll, Answered, Goes, BuildInv, PartnerInv, Shape
  <2>3. Unseen(j) /\ attempt' = attempt
    BY <1>7 DEF Poll, Answered, Goes, BuildInv, PartnerInv, Shape, ReadInv, TermsKnown, chainVars,
                Unseen
  <2> QED
    BY <1>1, <2>1, <2>2, <2>3, OrderedReads DEF Late
<1> QED
  BY <1>4, <1>5, <1>6, <1>7

(* A user who starts again, and what goes wrong on the way.                *)
LEMMA RestartAgrees ==
  ASSUME BuildInv, NEW j \in Journeys, StartAgain(j) \/ CallFails(j) \/ Lapse(j)
  PROVE  ReadInv' /\ ApprovalsCount'
<1>1. /\ DOMAIN pc = Journeys /\ DOMAIN attempt = Journeys /\ undisturbed \subseteq Journeys
      /\ DOMAIN attempt[j] = AttemptFields
  BY DEF BuildInv, PartnerInv, Shape, ReadInv, TermsKnown
<1>2. JourneyReads(j) /\ InPlace(wish[j], pc[j])
  BY JourneyFacts
<1>3. CASE StartAgain(j)
  <2>1. PICK a : a = attempt[j]
    OBVIOUS
  <2>2. a = Blank
    BY <1>2, <1>3, <2>1 DEF StartAgain, JourneyReads, Outside
  <2>3. Unseen(j) /\ pc'[j] = "start" /\ attempt'[j] = a
    BY <1>1, <1>3, <2>1 DEF StartAgain, Goes, chainVars, Unseen
  <2>4. InPlace(wish[j], "start") /\ Agrees(wish[j], "start", a)
    BY <2>2, NothingAgrees DEF Outside
  <2> QED
    BY <2>1, <2>2, <2>3, <2>4, UnseenReads DEF BuildInv
<1>4. CASE CallFails(j)
  <2>1. PICK b : b = Blank
    OBVIOUS
  <2>2. Unseen(j) /\ pc'[j] = "refused" /\ attempt'[j] = b /\ j \notin undisturbed'
    BY <1>1, <1>4, <2>1 DEF CallFails, Goes, chainVars, Unseen
  <2>3. InPlace(wish[j], "refused") /\ b.approval = <<>>
    BY <2>1, NothingAgrees DEF Outside
  <2> QED
    BY <2>1, <2>2, <2>3, UnseenReads DEF BuildInv
<1>5. CASE Lapse(j)
  <2>1. PICK b : b = [attempt[j] EXCEPT !.lapsed = TRUE]
    OBVIOUS
  <2>2. PICK at : at = pc[j]
    OBVIOUS
  <2>3. Unseen(j) /\ pc'[j] = at /\ attempt'[j] = b /\ j \notin undisturbed'
    BY <1>1, <1>5, <2>1, <2>2 DEF Lapse, chainVars, Unseen
  <2>4. b.approval = attempt[j].approval
    BY <1>1, <2>1 DEF AttemptFields
  <2>5. at \notin Outside
    <3>1. ASSUME at \in Outside  PROVE FALSE
      <4>1. attempt[j] = Blank
        BY <1>2, <2>2, <3>1 DEF JourneyReads
      <4>2. attempt[j].approval = <<>>
        BY <4>1 DEF Blank
      <4> QED
        BY <1>5, <2>2, <3>1, <4>2 DEF Lapse, Signed, Outside
    <3> QED
      BY <3>1
  <2> QED
    BY <1>2, <2>1, <2>2, <2>3, <2>4, <2>5, UnseenReads DEF BuildInv
<1> QED
  BY <1>3, <1>4, <1>5

(* Who is told that the chains have moved under journey j.                 *)
LEMMA RivalsAreTold ==
  ASSUME BuildInv, NEW j \in Journeys, Disturbs(Rivals(j)), NEW k \in Journeys \ {j},
         k \in undisturbed', wish[k].m = wish[j].m
  PROVE  wish[j].m \in Evm /\ wish[k].user # wish[j].user
<1>1. k \notin Rivals(j)
  BY DEF Disturbs
<1> QED
  BY <1>1 DEF Rivals, OnMirror, On

(* An approval of the input.                                               *)
LEMMA ApproveAgrees ==
  ASSUME BuildInv, NEW j \in Journeys, Approve(j)
  PROVE  ReadInv' /\ ApprovalsCount'
<1>1. PICK w : w = wish[j]
  OBVIOUS
<1>2. PICK a : a = attempt[j]
  OBVIOUS
<1>3. PICK t : t = SpentBy(w)
  OBVIOUS
<1>4. /\ w \in WishType /\ On(j) = w.m /\ Spent(j) = t
      /\ JourneyReads(j) /\ InPlace(w, pc[j]) /\ ~(w.m \in Evm /\ w.m \in Solana)
      /\ w.user \in Users /\ w.gross \in Nat /\ t \in Tokens
  BY <1>1, <1>3, JourneyFacts DEF WishType, SpentBy, Tokens
<1>5. /\ DOMAIN pc = Journeys /\ DOMAIN attempt = Journeys /\ undisturbed \subseteq Journeys
      /\ allowance \in [Evm -> [Users -> [Tokens -> Int]]]
  BY DEF BuildInv, PartnerInv, Shape, ReadInv, TermsKnown
<1>6. /\ pc[j] = "approve" /\ pc' = [pc EXCEPT ![j] = "submit"] /\ w.m \in Evm
      /\ allowance' = [allowance EXCEPT ![w.m][w.user][t] = w.gross]
      /\ UNCHANGED <<wish, terms, price, used, nextId, outbound, orders, attempt>>
      /\ Disturbs(Rivals(j)) /\ undisturbed' \subseteq undisturbed
  BY <1>1, <1>4 DEF Approve, Goes, InPlace, Disturbs
<1>7. allowance' \in [Evm -> [Users -> [Tokens -> Int]]] /\ allowance'[w.m][w.user][t] = w.gross
  BY <1>4, <1>5, <1>6
<1>8. TermsKnown'
  BY <1>5, <1>6, <1>7 DEF BuildInv, ReadInv, TermsKnown
<1>9. \A k \in Journeys : HasOrder(k)' = HasOrder(k)
  BY <1>6 DEF HasOrder
<1>10. JourneyReads(j)'
  <2>1. pc'[j] = "submit" /\ attempt'[j] = a /\ wish'[j] = w
    BY <1>1, <1>2, <1>5, <1>6
  <2>2. Agrees(w, "approve", a) => Agrees(w, "submit", a)'
    BY <1>3, <1>4, <1>6, <1>7
    DEF Outside, Quoting, Agrees, ReadTerms, ReadPrice, ReadCounters, Spendable, WorthIt
  <2>3. j \in undisturbed' /\ ~HasOrder(j)' => Agrees(w, "submit", a)'
    BY <1>1, <1>2, <1>4, <1>6, <1>9, <2>2 DEF JourneyReads
  <2> QED
    BY <2>1, <2>3 DEF JourneyReads, InPlace, Outside
<1>11. ASSUME NEW k \in Journeys \ {j}  PROVE JourneyReads(k)'
  <2>1. PICK v : v = wish[k]
    OBVIOUS
  <2>2. v \in WishType /\ v.user \in Users /\ SpentBy(v) \in Tokens
    BY <1>11, <2>1, JourneyFacts DEF WishType, SpentBy, Tokens
  <2>3. k \in undisturbed' /\ v.m \in Evm =>
          allowance'[v.m][v.user][SpentBy(v)] = allowance[v.m][v.user][SpentBy(v)]
    <3>1. k \in undisturbed' /\ v.m = w.m => v.user # w.user
      BY <1>1, <1>6, <1>11, <2>1, RivalsAreTold
    <3> QED
      BY <1>4, <1>5, <1>6, <2>2, <3>1
  <2>4. Stays(k)
    BY <1>5, <1>6, <1>9, <1>11, <2>1, <2>3 DEF Stays
  <2> QED
    BY <1>11, <2>4, StaysRead DEF BuildInv, ReadInv
<1>12. ApprovalsCount'
  <2>1. Gone' = Gone
    BY <1>6 DEF Gone
  <2> QED
    BY <1>6, <2>1, NoneSpent DEF BuildInv
<1> QED
  BY <1>8, <1>10, <1>11, <1>12 DEF ReadInv

(* A transaction that succeeds.                                            *)
LEMMA SubmitAgrees ==
  ASSUME BuildInv, NEW j \in Journeys, Submit(j)
  PROVE  ReadInv' /\ ApprovalsCount'
<1>1. PICK w : w = wish[j]
  OBVIOUS
<1>2. PICK a : a = attempt[j]
  OBVIOUS
<1>3. PICK t : t = SpentBy(w)
  OBVIOUS
<1>4. /\ w \in WishType /\ On(j) = w.m /\ Spent(j) = t /\ (SignsFirst(j) <=> Signs(w))
      /\ ~(w.m \in Evm /\ w.m \in Solana) /\ DOMAIN a = AttemptFields
      /\ w.m \in Evm \/ w.m \in Solana
      /\ w.user \in Users /\ w.gross \in Nat /\ t \in Tokens /\ w.m \in Mirrors
      /\ Gathered(j, w, pc[j], a)
  BY <1>1, <1>2, <1>3, JourneyFacts DEF WishType, SpentBy, Tokens
<1>5. /\ DOMAIN pc = Journeys /\ DOMAIN attempt = Journeys /\ undisturbed \subseteq Journeys
      /\ allowance \in [Evm -> [Users -> [Tokens -> Int]]] /\ DOMAIN used = Evm
      /\ nextId \in [Mirrors -> Nat] /\ DOMAIN outbound = Solana
  BY DEF BuildInv, PartnerInv, Shape, ReadInv, TermsKnown
<1>6. PICK o : o = Order(j)
  OBVIOUS
<1>7. pc[j] = "submit" /\ Accepted(j) /\ ~HasOrder(j)
  BY AcceptedIsNew DEF Submit, BuildInv
<1>8. PICK b : b = [a EXCEPT !.approval = o.approval]
  OBVIOUS
<1>9. DOMAIN b = AttemptFields /\ b.approval = o.approval /\ b.id = a.id /\ b.min = a.min
  BY <1>4, <1>8 DEF AttemptFields
<1>10. o.journey = j /\ IsApproval(o.approval, j) /\ (Signs(w) => o.approval = a.approval)
  BY <1>1, <1>2, <1>6, <1>7, <1>9, OrderAsAsked DEF BuildInv
<1>11. o.approval = IF SignsFirst(j) \/ On(j) \in Solana THEN a.approval ELSE Fresh(j)
  BY <1>2, <1>6 DEF Order
<1>12. PICK to : to = pc'[j]
  OBVIOUS
<1>13. /\ to \in {"placed", "unsure"} /\ attempt'[j] = b
       /\ \A k \in Journeys \ {j} : pc'[k] = pc[k] /\ attempt'[k] = attempt[k]
       /\ UNCHANGED <<wish, terms, price>>
       /\ Disturbs(Rivals(j)) /\ undisturbed' \subseteq undisturbed
  BY <1>2, <1>5, <1>6, <1>8, <1>12 DEF Submit, Goes, Disturbs
<1>14. PICK c : /\ c \notin DOMAIN orders /\ DOMAIN orders' = DOMAIN orders \cup {c}
                /\ orders'[c] = o /\ \A n \in DOMAIN orders : orders'[n] = orders[n]
  <2>1. PICK s : s = orders
    OBVIOUS
  <2>2. PICK r : r = orders'
    OBVIOUS
  <2>3. IsSequence(s) /\ Extends(r, s, o)
    BY <1>6, <2>1, <2>2 DEF BuildInv, PartnerInv, Shape, Submit, Extends
  <2>4. \E k : /\ k \notin DOMAIN s /\ DOMAIN r = DOMAIN s \cup {k} /\ r[k] = o
               /\ \A n \in DOMAIN s : r[n] = s[n]
    BY <2>3, OneMore
  <2> QED
    BY <2>1, <2>2, <2>4
<1>15. HasOrder(j)' /\ \A k \in Journeys : HasOrder(k) => HasOrder(k)'
  BY <1>10, <1>14 DEF HasOrder
<1>16. PICK u : u = IF w.m \in Evm /\ w.via THEN {a.approval} ELSE {}
  OBVIOUS
<1>17. /\ DOMAIN used' = Evm
       /\ \A m \in Evm : used'[m] = IF m = w.m THEN used[m] \cup u ELSE used[m]
  <2>1. CASE w.m \in Evm
    <3>1. PICK v : v = IF w.via THEN used[w.m] \cup {a.approval} ELSE used[w.m]
      OBVIOUS
    <3>2. used' = [used EXCEPT ![w.m] = v]
      BY <1>1, <1>2, <1>4, <2>1, <3>1 DEF Submit
    <3>3. v = used[w.m] \cup u
      BY <1>16, <2>1, <3>1
    <3> QED
      BY <1>5, <2>1, <3>2, <3>3
  <2>2. CASE w.m \notin Evm
    BY <1>4, <1>5, <1>16, <2>2 DEF Submit
  <2> QED
    BY <2>1, <2>2
<1>18. u \subseteq {o.approval}
  BY <1>10, <1>16 DEF Signs
<1>19. /\ allowance' \in [Evm -> [Users -> [Tokens -> Int]]]
       /\ \A m \in Evm, v \in Users, x \in Tokens :
            m # w.m \/ v # w.user => allowance'[m][v][x] = allowance[m][v][x]
  <2>1. CASE w.m \in Evm
    <3>1. allowance' = [allowance EXCEPT ![w.m][w.user][t] = @ - w.gross]
      BY <1>1, <1>4, <2>1 DEF Submit
    <3> QED
      BY <1>4, <1>5, <2>1, <3>1
  <2>2. CASE w.m \notin Evm
    BY <1>4, <1>5, <2>2 DEF Submit
  <2> QED
    BY <2>1, <2>2
<1>20. /\ \A m \in Mirrors : m # w.m => nextId'[m] = nextId[m]
       /\ DOMAIN outbound' = Solana /\ \A m \in Solana : m # w.m => outbound'[m] = outbound[m]
  <2>1. nextId' = [nextId EXCEPT ![w.m] = @ + 1]
    BY <1>4 DEF Submit
  <2>2. outbound' = outbound \/ outbound' = [outbound EXCEPT ![w.m][t] = @ + 1]
    BY <1>4 DEF Submit
  <2> QED
    BY <1>5, <2>1, <2>2
<1>21. TermsKnown'
  BY <1>5, <1>13, <1>19, <1>20 DEF BuildInv, ReadInv, TermsKnown
<1>22. JourneyReads(j)'
  <2>1. pc'[j] \in {"placed", "unsure"}
    BY <1>12, <1>13
  <2> QED
    BY <1>15, <2>1 DEF JourneyReads, InPlace, Outside
<1>23. ASSUME NEW k \in Journeys \ {j}  PROVE JourneyReads(k)'
  <2>1. PICK v : v = wish[k]
    OBVIOUS
  <2>2. PICK x : x = attempt[k].approval
    OBVIOUS
  <2>3. /\ v \in WishType /\ v.user \in Users /\ SpentBy(v) \in Tokens /\ v.m \in Mirrors
        /\ ~(v.m \in Evm /\ v.m \in Solana) /\ Gathered(k, v, pc[k], attempt[k])
    BY <1>23, <2>1, JourneyFacts DEF WishType, SpentBy, Tokens
  <2>4. k \in undisturbed' /\ v.m = w.m => v.m \in Evm /\ v.user # w.user
    BY <1>1, <1>13, <1>23, <2>1, RivalsAreTold
  <2>5. k \in undisturbed' /\ v.m \in Evm =>
          allowance'[v.m][v.user][SpentBy(v)] = allowance[v.m][v.user][SpentBy(v)]
    BY <1>19, <2>3, <2>4
  <2>6. k \in undisturbed' /\ v.m \in Solana =>
          nextId'[v.m] = nextId[v.m] /\ outbound'[v.m] = outbound[v.m]
    BY <1>20, <2>3, <2>4
  <2>7. x # o.approval
    <3>1. x = <<>> \/ IsApproval(x, k)
      BY <2>2, <2>3 DEF Gathered
    <3> QED
      BY <1>10, <1>23, <3>1 DEF IsApproval
  <2>8. v.m \in Evm /\ x \in used'[v.m] => x \in used[v.m]
    BY <1>17, <1>18, <2>7
  <2>9. Stays(k)
    BY <1>13, <1>15, <1>23, <2>1, <2>2, <2>5, <2>6, <2>8 DEF Stays, Signs
  <2> QED
    BY <1>23, <2>9, StaysRead DEF BuildInv, ReadInv
<1>24. ApprovalsCount'
  <2>1. Gone' = Gone \cup {o.approval}
    <3>1. PICK A : A = {orders[n].approval : n \in DOMAIN orders}
      OBVIOUS
    <3>2. {orders'[n].approval : n \in DOMAIN orders'} = A \cup {o.approval}
      BY <1>14, <3>1
    <3>3. PICK U : U = UNION {used[m] : m \in Evm}
      OBVIOUS
    <3>4. PICK V : V = UNION {used'[m] : m \in Evm}
      OBVIOUS
    <3>5. \A m \in Evm : used[m] \subseteq used'[m] /\ used'[m] \subseteq used[m] \cup {o.approval}
      BY <1>17, <1>18
    <3>6. U \subseteq V
      BY <3>3, <3>4, <3>5
    <3>7. V \subseteq U \cup {o.approval}
      BY <3>3, <3>4, <3>5
    <3>8. Gone = A \cup U /\ Gone' = (A \cup {o.approval}) \cup V
      BY <3>1, <3>2, <3>3, <3>4 DEF Gone
    <3> QED
      BY <3>6, <3>7, <3>8
  <2>2. o.approval # <<>> /\ attempt'[j].approval = o.approval
    BY <1>9, <1>10, <1>13 DEF IsApproval
  <2>3. o.approval = attempt[j].approval \/ o.approval = Fresh(j)
    BY <1>2, <1>11
  <2> QED
    BY <1>13, <2>1, <2>2, <2>3, OneSpent DEF BuildInv
<1> QED
  BY <1>21, <1>22, <1>23, <1>24 DEF ReadInv

(* An order that moves on is the order it was.                             *)
LEMMA OrderAgrees ==
  ASSUME BuildInv, NEW n \in DOMAIN orders, Progress(n) \/ Kill(n)
  PROVE  ReadInv' /\ ApprovalsCount'
<1>1. PICK o : o = orders[n]
  OBVIOUS
<1>2. DOMAIN o = OrderFields
  BY <1>1 DEF BuildInv, PartnerInv, Shape
<1>3. PICK e : Becomes(n, e) /\ e.journey = o.journey /\ e.approval = o.approval
  <2>1. CASE Execute(n)
    <3>1. PICK to, result, out :
            Becomes(n, [o EXCEPT !.at = to, !.pool = pool, !.result = result, !.out = out])
      BY <1>1, <2>1 DEF Execute
    <3>2. PICK e : e = [o EXCEPT !.at = to, !.pool = pool, !.result = result, !.out = out]
      OBVIOUS
    <3>3. e.journey = o.journey /\ e.approval = o.approval
      BY <1>2, <3>2 DEF OrderFields
    <3> QED
      BY <3>1, <3>2, <3>3
  <2>2. CASE Arrive(n)
    <3>1. PICK status : status = IF o.at = "refunding" THEN "refunded" ELSE o.result
      OBVIOUS
    <3>2. PICK d : d = IF o.status = "pending" THEN Closed(o, status) ELSE o
      OBVIOUS
    <3>3. DOMAIN d = OrderFields /\ d.journey = o.journey /\ d.approval = o.approval
      BY <1>2, <3>2 DEF Closed, OrderFields
    <3>4. PICK e : e = [d EXCEPT !.at = "returned"]
      OBVIOUS
    <3>5. e.journey = o.journey /\ e.approval = o.approval
      BY <3>3, <3>4 DEF OrderFields
    <3>6. Becomes(n, e)
      BY <1>1, <2>2, <3>1, <3>2, <3>4 DEF Arrive
    <3> QED
      BY <3>5, <3>6
  <2>3. CASE Retry(n)
    BY <1>1, <1>2, <2>3 DEF Retry, OrderFields
  <2>4. CASE Notice(n)
    <3>1. PICK e : e = Closed(o, IF o.at = "killed" THEN "cancelled" ELSE "stranded")
      OBVIOUS
    <3>2. Becomes(n, e)
      BY <1>1, <2>4, <3>1 DEF Notice
    <3>3. e.journey = o.journey /\ e.approval = o.approval
      BY <1>2, <3>1 DEF Closed, OrderFields
    <3> QED
      BY <3>2, <3>3
  <2>5. CASE SettleFees(n)
    BY <1>1, <1>2, <2>5 DEF SettleFees, OrderFields
  <2>6. CASE Kill(n)
    BY <1>1, <1>2, <2>6 DEF Kill, OrderFields
  <2> QED
    BY <2>1, <2>2, <2>3, <2>4, <2>5, <2>6 DEF Progress
<1>4. /\ DOMAIN orders' = DOMAIN orders
      /\ \A k \in DOMAIN orders :
           orders'[k].journey = orders[k].journey /\ orders'[k].approval = orders[k].approval
  <2>1. orders' = [orders EXCEPT ![n] = e]
    BY <1>3 DEF Becomes
  <2> QED
    BY <1>1, <1>3, <2>1
<1>5. UNCHANGED <<wish, terms, price, allowance, used, nextId, outbound, pc, attempt, undisturbed>>
  BY <1>3 DEF Becomes, journeyVars
<1>6. \A k \in Journeys : HasOrder(k) => HasOrder(k)'
  BY <1>4 DEF HasOrder
<1>7. \A k \in Journeys : Stays(k)
  BY <1>5, <1>6 DEF Stays
<1>8. TermsKnown'
  BY <1>5 DEF BuildInv, ReadInv, TermsKnown
<1>9. Gone' = Gone
  <2>1. {orders'[k].approval : k \in DOMAIN orders'} = {orders[k].approval : k \in DOMAIN orders}
    BY <1>4
  <2> QED
    BY <1>5, <2>1 DEF Gone
<1> QED
  BY <1>5, <1>7, <1>8, <1>9, AllStay, NoneSpent DEF BuildInv

(* Others' movements.                                                      *)
LEMMA WorldAgrees ==
  ASSUME BuildInv, World
  PROVE  ReadInv' /\ ApprovalsCount'
<1> USE DEF Moves
<1>1. /\ TermsKnown /\ terms \in [Mirrors -> TermsType] /\ DOMAIN used = Evm
      /\ undisturbed \subseteq Journeys /\ nextId \in [Mirrors -> Nat]
      /\ price \in [Mirrors -> Nat] /\ DOMAIN outbound = Solana /\ Prices \subseteq Nat
  BY PartnerAssumption DEF BuildInv, PartnerInv, Shape, ReadInv, TermsKnown
<1>2. ASSUME UNCHANGED <<wish, pc, attempt, orders>>, \A k \in Journeys : Stays(k), TermsKnown',
             Gone' = Gone
      PROVE  ReadInv' /\ ApprovalsCount'
  BY <1>2, AllStay, NoneSpent DEF BuildInv
<1>3. ASSUME NEW m \in Mirrors, NEW others, Disturbs(others), others = OnMirror(m),
             UNCHANGED <<wish, pc, attempt, orders, allowance, used>>,
             \A i \in Mirrors : i # m =>
               /\ terms'[i] = terms[i] /\ price'[i] = price[i] /\ nextId'[i] = nextId[i]
               /\ i \in Solana => outbound'[i] = outbound[i],
             TermsKnown'
      PROVE  ReadInv' /\ ApprovalsCount'
  <2>1. ASSUME NEW k \in Journeys  PROVE Stays(k)
    <3>1. k \in undisturbed' => k \in undisturbed /\ wish[k].m # m
      BY <1>3 DEF Disturbs, OnMirror, On
    <3>2. wish[k].m \in Mirrors
      BY JourneyFacts DEF WishType
    <3>3. HasOrder(k) => HasOrder(k)'
      BY <1>3 DEF HasOrder
    <3> QED
      BY <1>3, <3>1, <3>2, <3>3 DEF Stays
  <2>2. Gone' = Gone
    BY <1>3 DEF Gone
  <2> QED
    BY <1>2, <1>3, <2>1, <2>2
<1>4. ASSUME NEW m \in Mirrors, NEW t \in LaterTerms[m], OwnerSets(m, t)
      PROVE  ReadInv' /\ ApprovalsCount'
  <2>1. /\ terms' = [terms EXCEPT ![m] = t] /\ Disturbs(OnMirror(m))
        /\ UNCHANGED <<wish, pc, attempt, orders, price, allowance, used, nextId, outbound>>
    BY <1>4 DEF OwnerSets
  <2>2. undisturbed' \subseteq Journeys
    BY <1>1, <2>1 DEF Disturbs
  <2>3. TermsKnown'
    BY <1>1, <2>1, <2>2 DEF TermsKnown
  <2>4. \A i \in Mirrors : i # m => terms'[i] = terms[i]
    BY <1>1, <2>1
  <2> QED
    BY <1>3, <2>1, <2>3, <2>4
<1>5. ASSUME NEW m \in Mirrors, NEW p \in Prices, GasMoves(m, p)
      PROVE  ReadInv' /\ ApprovalsCount'
  <2>1. /\ price' = [price EXCEPT ![m] = p] /\ Disturbs(OnMirror(m))
        /\ UNCHANGED <<wish, pc, attempt, orders, terms, allowance, used, nextId, outbound>>
    BY <1>5 DEF GasMoves
  <2>2. undisturbed' \subseteq Journeys /\ price' \in [Mirrors -> Nat]
    BY <1>1, <2>1 DEF Disturbs
  <2>3. TermsKnown'
    BY <1>1, <2>1, <2>2 DEF TermsKnown
  <2>4. \A i \in Mirrors : i # m => price'[i] = price[i]
    BY <1>1, <2>1
  <2> QED
    BY <1>3, <2>1, <2>3, <2>4
<1>6. ASSUME NEW p \in LaterPools, OthersTrade(p)  PROVE ReadInv' /\ ApprovalsCount'
  <2>1. /\ UNCHANGED <<wish, pc, attempt, orders, terms, price, allowance, used, nextId, outbound>>
        /\ undisturbed' \subseteq undisturbed
    BY <1>6 DEF OthersTrade, Disturbs
  <2>2. TermsKnown'
    BY <1>1, <2>1 DEF TermsKnown
  <2>3. Gone' = Gone
    BY <2>1 DEF Gone
  <2>4. \A k \in Journeys : Stays(k)
    BY <2>1 DEF Stays, HasOrder
  <2> QED
    BY <1>2, <2>1, <2>2, <2>3, <2>4
<1>7. ASSUME NEW m \in Solana, NEW t \in Tokens, NEW opened \in BOOLEAN, OthersSend(m, t, opened)
      PROVE  ReadInv' /\ ApprovalsCount'
  <2>1. /\ Disturbs(OnMirror(m)) /\ outbound' = [outbound EXCEPT ![m][t] = @ + 1]
        /\ nextId' = [nextId EXCEPT ![m] = @ + 1] \/ nextId' = nextId
        /\ UNCHANGED <<wish, pc, attempt, orders, terms, price, allowance, used>>
    BY <1>7 DEF OthersSend
  <2>2. m \in Mirrors
    BY DEF Mirrors
  <2>3. undisturbed' \subseteq Journeys /\ DOMAIN outbound' = Solana
    BY <1>1, <2>1 DEF Disturbs
  <2>4. TermsKnown'
    BY <1>1, <2>1, <2>3 DEF TermsKnown
  <2>5. /\ \A i \in Mirrors : i # m => nextId'[i] = nextId[i]
        /\ \A i \in Solana : i # m => outbound'[i] = outbound[i]
    BY <1>1, <2>1
  <2> QED
    BY <1>3, <2>1, <2>2, <2>4, <2>5
<1>8. ASSUME NEW j \in Journeys, Withdraw(j)  PROVE ReadInv' /\ ApprovalsCount'
  <2>1. PICK x : x = attempt[j].approval
    OBVIOUS
  <2>2. PICK m : m = On(j)
    OBVIOUS
  <2>3. /\ UNCHANGED <<wish, pc, attempt, orders, terms, price, allowance, nextId, outbound>>
        /\ used' = [used EXCEPT ![m] = @ \cup {x}] /\ x # <<>> /\ m \in Evm
        /\ undisturbed' = undisturbed \ {j}
    BY <1>8, <2>1, <2>2 DEF Withdraw, Disturbs, SignsFirst
  <2>4. \A i \in Evm : used'[i] = IF i = m THEN used[i] \cup {x} ELSE used[i]
    BY <1>1, <2>3
  <2>5. IsApproval(x, j)
    BY <2>1, <2>3, JourneyFacts DEF Gathered
  <2>6. ASSUME NEW k \in Journeys  PROVE Stays(k)
    <3>1. attempt[k].approval = <<>> \/ IsApproval(attempt[k].approval, k)
      BY JourneyFacts DEF Gathered
    <3>2. k # j => attempt[k].approval # x
      BY <2>3, <2>5, <3>1 DEF IsApproval
    <3>3. k \in undisturbed' => k \in undisturbed /\ k # j
      BY <2>3
    <3>4. HasOrder(k) => HasOrder(k)'
      BY <2>3 DEF HasOrder
    <3> QED
      BY <2>3, <2>4, <3>2, <3>3, <3>4 DEF Stays, Signs
  <2>7. TermsKnown'
    BY <1>1, <2>3 DEF TermsKnown
  <2>8. Gone' = Gone \cup {x}
    <3>1. PICK A : A = {orders[n].approval : n \in DOMAIN orders}
      OBVIOUS
    <3>2. PICK U : U = UNION {used[i] : i \in Evm}
      OBVIOUS
    <3>3. PICK V : V = UNION {used'[i] : i \in Evm}
      OBVIOUS
    <3>4. V = U \cup {x}
      <4>1. U \subseteq V
        BY <2>4, <3>2, <3>3
      <4>2. ASSUME NEW z \in V  PROVE z \in U \cup {x}
        <5>1. PICK i \in Evm : z \in used'[i]
          BY <3>3, <4>2
        <5>2. z \in used[i] \cup {x}
          BY <2>4, <5>1
        <5> QED
          BY <3>2, <5>2
      <4>3. x \in V
        BY <2>3, <2>4, <3>3
      <4> QED
        BY <4>1, <4>2, <4>3
    <3>5. Gone = A \cup U /\ Gone' = A \cup V
      BY <2>3, <3>1, <3>2, <3>3 DEF Gone
    <3> QED
      BY <3>4, <3>5
  <2>9. ApprovalsCount'
    BY <2>1, <2>3, <2>8, OneSpent DEF BuildInv
  <2> QED
    BY <2>6, <2>7, <2>9, AllStay DEF BuildInv
<1> QED
  BY <1>4, <1>5, <1>6, <1>7, <1>8, RestartAgrees DEF World

(* Every step keeps what the journeys have read true.                      *)
LEMMA BuildStep ==
  ASSUME BuildInv, [Next]_vars
  PROVE  BuildInv'
<1>1. PartnerInv'
  BY PartnerStep DEF BuildInv
<1>2. ASSUME NEW j \in Journeys, Attempt(j)  PROVE ReadInv' /\ ApprovalsCount'
  BY <1>2, RestartAgrees, QuoteAgrees, BuildTermsAgrees, BuildEvmAgrees, BuildSolanaAgrees,
     ApproveAgrees, SubmitAgrees, AnswerAgrees
  DEF Attempt
<1>3. CASE UNCHANGED vars
  <2>1. /\ UNCHANGED <<wish, terms, price, allowance, used, nextId, outbound, orders>>
        /\ UNCHANGED <<pc, attempt, undisturbed>>
    BY <1>3 DEF vars, chainVars, journeyVars
  <2>2. (\A k \in Journeys : Stays(k)) /\ Gone' = Gone
    BY <2>1 DEF Stays, HasOrder, Gone
  <2>3. TermsKnown'
    BY <2>1 DEF BuildInv, ReadInv, TermsKnown
  <2> QED
    BY <1>1, <2>1, <2>2, <2>3, AllStay, NoneSpent DEF BuildInv
<1> QED
  BY <1>1, <1>2, <1>3, AnswerAgrees, OrderAgrees, WorldAgrees DEF BuildInv, Next

(* At first no journey has read anything.                                  *)
LEMMA BuildInit ==
  ASSUME Init
  PROVE  BuildInv
<1>1. PartnerInv
  BY PartnerInit
<1>2. PICK b : b = Blank
  OBVIOUS
<1>3. /\ \A j \in Journeys : pc[j] = "start" /\ attempt[j] = b
      /\ wish \in Wishes /\ undisturbed = Journeys
      /\ \A m \in Mirrors : terms[m] = FirstTerms[m]
      /\ DOMAIN outbound = Solana
  BY <1>2 DEF Init
<1>4. ReadInv
  <2>1. ASSUME NEW j \in Journeys  PROVE JourneyReads(j)
    <3>1. InPlace(wish[j], "start") /\ Agrees(wish[j], "start", b)
      BY <1>2, NothingAgrees DEF Outside
    <3> QED
      BY <1>2, <1>3, <3>1 DEF JourneyReads
  <2>2. price \in [Mirrors -> Nat]
    <3>1. PICK first : first = CHOOSE p \in Prices : TRUE
      OBVIOUS
    <3>2. first \in Nat
      BY <3>1, RatesAssumption, PartnerAssumption
    <3> QED
      BY <3>1, <3>2 DEF Init
  <2>3. allowance \in [Evm -> [Users -> [Tokens -> Int]]]
    BY PartnerAssumption DEF Init
  <2> QED
    BY <1>3, <2>1, <2>2, <2>3 DEF ReadInv, TermsKnown
<1>5. ApprovalsCount
  <2>1. DOMAIN orders = {}
    <3>1. PICK s : s = orders
      OBVIOUS
    <3>2. s = <<>>
      BY <3>1 DEF Init
    <3>3. DOMAIN s = {}
      BY <3>2, EmptySeq
    <3> QED
      BY <3>1, <3>3
  <2>2. \A m \in Evm : used[m] = {}
    BY DEF Init
  <2>3. \A x : x \notin Gone
    BY <2>1, <2>2 DEF Gone
  <2>4. ASSUME NEW j \in Journeys  PROVE GoneOf(j) = {} /\ attempt[j].approval = <<>>
    BY <1>2, <1>3, <2>3 DEF GoneOf, Blank
  <2> QED
    BY <2>4, FS_EmptySet DEF ApprovalsCount, CountsUp
<1> QED
  BY <1>1, <1>4, <1>5 DEF BuildInv

(* What a quoted journey has read is what the chains say, until disturbed. *)
LEMMA BuildInvariant == Spec => []BuildInv
<1>1. Init => BuildInv
  BY BuildInit
<1>2. BuildInv /\ [Next]_vars => BuildInv'
  BY BuildStep
<1> QED
  BY <1>1, <1>2, PTL DEF Spec

-----------------------------------------------------------------------------
(* Who refuses.                                                            *)

(* What agrees with the chains is accepted.                                *)
LEMMA AgreedIsAccepted ==
  ASSUME BuildInv, NEW j \in Journeys, pc[j] = "submit",
         Agrees(wish[j], "submit", attempt[j])
  PROVE  Accepted(j)
<1>1. PICK w : w = wish[j]
  OBVIOUS
<1>2. PICK a : a = attempt[j]
  OBVIOUS
<1>3. /\ w \in WishType /\ On(j) = w.m /\ Now(j) = terms[w.m] /\ Spent(j) = SpentBy(w)
      /\ (w.m \in Evm \/ w.m \in Solana) /\ ~(w.m \in Evm /\ w.m \in Solana)
      /\ price[w.m] \in Nat /\ Gathered(j, w, pc[j], a) /\ w.gross \in Nat /\ w.bps \in Nat
      /\ w.m \in Mirrors /\ terms[w.m] \in TermsType /\ terms[w.m].platform \in Nat
  BY <1>1, <1>2, JourneyFacts DEF WishType, BuildInv, PartnerInv, Shape, TermsType
<1>4. /\ ~a.lapsed /\ a.traded # 0 /\ Welcome(w, terms[w.m]) /\ a.platform = terms[w.m].platform
      /\ w.via => a.signer = terms[w.m].signer
      /\ a.value = price[w.m]
      /\ Signs(w) => a.approval \notin used[w.m]
      /\ w.m \in Evm => allowance[w.m][w.user][SpentBy(w)] >= w.gross
      /\ w.m \in Solana => a.id = nextId[w.m] /\ a.index = outbound[w.m][SpentBy(w)] + 1
  BY <1>1, <1>2, <1>3
  DEF Agrees, ReadTerms, ReadPrice, ReadCounters, Spendable, WorthIt, Outside, Quoting, Signs
<1>5. ToShared(w.gross - FeesTaken(j), Quantum[On(j)][Spent(j)]) > 0
  <2>1. PICK platform : platform = terms[w.m].platform
    OBVIOUS
  <2>2. PICK net \in Nat : net = NetOf(w, platform)
    BY <1>1, <1>4, <2>1, NetIsLeft DEF BuildInv
  <2>3. PICK rate : rate = RateOf(w, platform)
    OBVIOUS
  <2>4. rate \in Nat
    BY <1>3, <2>1, <2>3 DEF RateOf
  <2>5. w.gross - FeesTaken(j) = net
    <3>1. FeesTaken(j) = FeeOf(w.gross, w.bps, FeeUnit) + FeeOf(w.gross, rate, FeeUnit)
      BY <1>1, <1>3, <2>1, <2>3 DEF FeesTaken, PlatformCharged, RateOf
    <3>2. net = w.gross - FeeOf(w.gross, w.bps, FeeUnit) - FeeOf(w.gross, rate, FeeUnit)
      BY <2>2, <2>3 DEF NetOf
    <3>3. w.gross \in Nat /\ w.bps \in Nat
      BY <1>3 DEF WishType
    <3>4. w.gross - (FeeOf(w.gross, w.bps, FeeUnit) + FeeOf(w.gross, rate, FeeUnit))
            = w.gross - FeeOf(w.gross, w.bps, FeeUnit) - FeeOf(w.gross, rate, FeeUnit)
      BY <2>4, <3>3, FeesComeOff
    <3> QED
      BY <3>1, <3>2, <3>4
  <2>6. PICK q : q = SentQuantum(w)
    OBVIOUS
  <2>7. q \in Nat \ {0} /\ Quantum[On(j)][Spent(j)] = q
    BY <1>3, <2>6, PartnerAssumption DEF SentQuantum, SpentBy, Tokens
  <2>8. a.traded = RemoveDust(net, q)
    BY <1>3, <1>4, <2>1, <2>2, <2>6 DEF Gathered, MatchesQuote, Early
  <2>9. PICK s : s = net \div q
    OBVIOUS
  <2>10. s \in Nat /\ a.traded = s * q
    BY <2>7, <2>8, <2>9, RoundsDown DEF RemoveDust, ToLocal, ToShared
  <2>11. s # 0
    BY <1>4, <2>7, <2>10
  <2> QED
    BY <2>5, <2>7, <2>9, <2>10, <2>11 DEF ToShared
<1>6. Now(j).required => w.via
  BY <1>3, <1>4 DEF Welcome
<1>7. Approved(j)
  BY <1>1, <1>2, <1>3, <1>4 DEF Approved, Welcome, Signs
<1>8. w.m \in Solana => Names(j)
  BY <1>1, <1>2, <1>3, <1>4 DEF Names
<1> QED
  BY <1>1, <1>2, <1>3, <1>4, <1>5, <1>6, <1>7, <1>8 DEF Accepted

(* Only its own steps refuse a journey.                                    *)
LEMMA WhoRefuses ==
  ASSUME BuildInv, Next, NEW j \in Journeys, pc[j] # "refused", pc'[j] = "refused"
  PROVE  \/ CallFails(j)
         \/ Refused(j) /\ (Quote(j) \/ BuildTerms(j) \/ CheckNonce(j) \/ CheckSigner(j)
                           \/ CoSign(j) \/ Reverted(j))
<1>1. DOMAIN pc = Journeys
  BY DEF BuildInv, PartnerInv, Shape
<1>2. ASSUME NEW k \in Journeys, NEW to, Goes(k, to)  PROVE k = j /\ to = "refused"
  BY <1>1, <1>2 DEF Goes
<1>3. pc' # pc
  OBVIOUS
<1>4. ASSUME NEW k \in Journeys, NEW to, NEW b, Reads(k, to, b)  PROVE k = j /\ to = "refused"
  BY <1>2, <1>4 DEF Reads
<1>5. ASSUME NEW k \in Journeys, Attempt(k) \/ Resend(k)
      PROVE  Refused(j) /\ (Quote(j) \/ BuildTerms(j) \/ CheckNonce(j) \/ CheckSigner(j)
                            \/ CoSign(j) \/ Reverted(j))
  <2>1. ~StartAgain(k) /\ ~Approve(k) /\ ~Submit(k) /\ ~Poll(k) /\ ~Answered(k)
    BY <1>2, <1>3 DEF StartAgain, Approve, Submit, Poll, Answered
  <2>2. ~Authorize(k) /\ ~ReadValue(k) /\ ~ReadAllowance(k)
    BY <1>4 DEF Authorize, ReadValue, ReadAllowance, Learns
  <2>3. ~BuildSolana(k)
    BY <1>4 DEF BuildSolana, NameSigner, NextRequestId, NonceIndex, QuoteSend, Learns
  <2>4. ~FindsOut(k) /\ ~Resend(k)
    BY <1>4 DEF FindsOut, Resend
  <2>5. Quote(k) \/ BuildTerms(k) \/ CheckNonce(k) \/ CheckSigner(k) \/ CoSign(k) \/ Reverted(k)
    BY <1>5, <2>1, <2>2, <2>3, <2>4 DEF Attempt, BuildEvm
  <2>6. Refused(k) \/ \E to, b : to # "refused" /\ Reads(k, to, b)
    BY <2>5 DEF Quote, QuoteTerms, QuoteMarket, QuoteFee, BuildTerms, CheckNonce, CheckSigner, CoSign,
                Reverted, Learns
  <2>7. Refused(k)
    BY <1>4, <2>6
  <2>8. k = j
    BY <1>4, <2>7 DEF Refused
  <2> QED
    BY <2>5, <2>7, <2>8
<1>6. ASSUME NEW n \in DOMAIN orders, Progress(n) \/ Kill(n)  PROVE FALSE
  <2>1. \E o : Becomes(n, o)
    BY <1>6 DEF Progress, Execute, Arrive, Retry, Notice, SettleFees, Kill
  <2> QED
    BY <1>3, <2>1 DEF Becomes, journeyVars
<1>7. ASSUME World  PROVE CallFails(j)
  <2>1. (\E k \in Journeys : CallFails(k)) \/ pc' = pc
    BY <1>7 DEF World, OwnerSets, GasMoves, OthersTrade, OthersSend, Withdraw, Lapse, Moves
  <2> QED
    BY <1>2, <1>3, <2>1 DEF CallFails
<1> QED
  BY <1>5, <1>6, <1>7 DEF Next

(* What agrees with the chains is refused for its floor only.              *)
LEMMA AgreedIsBuilt ==
  ASSUME BuildInv, NEW j \in Journeys, Refused(j), j \in undisturbed, pc[j] \notin Outside,
         \/ BuildTerms(j) \/ CheckNonce(j) \/ CheckSigner(j) \/ CoSign(j) \/ Reverted(j)
  PROVE  attempt[j].min = 0
<1>1. PICK w : w = wish[j]
  OBVIOUS
<1>2. PICK a : a = attempt[j]
  OBVIOUS
<1>3. PICK at : at = pc[j]
  OBVIOUS
<1>4. /\ w \in WishType /\ On(j) = w.m /\ Now(j) = terms[w.m] /\ (SignsFirst(j) <=> Signs(w))
      /\ InPlace(w, at) /\ JourneyReads(j) /\ ~(w.m \in Evm /\ w.m \in Solana)
  BY <1>1, <1>3, JourneyFacts
<1>5. pc'[j] = "refused"
  BY DEF Refused, Reads, Goes, BuildInv, PartnerInv, Shape
<1>6. ~\E to, b : to # "refused" /\ Reads(j, to, b)
  BY <1>5, ReadsUnseen
<1>7. at \in {"quoted", "authorized", "nonce", "signer", "cosign", "submit"}
  BY <1>3, <1>4 DEF BuildTerms, CheckNonce, CheckSigner, CoSign, Reverted
<1>8. ~HasOrder(j)
  <2>1. ASSUME Reverted(j)  PROVE ~HasOrder(j)
    <3>1. ~Placed(j)
      BY <1>6, <2>1 DEF Reverted
    <3> QED
      BY <3>1, OwnOrder DEF BuildInv, Placed, HasOrder
  <2>2. ASSUME HasOrder(j)  PROVE at \in Late
    BY <1>3, <2>2 DEF BuildInv, PartnerInv, OrdersSound, HasOrder
  <2>3. at = "submit" => Reverted(j)
    BY <1>3, <1>4 DEF BuildTerms, CheckNonce, CheckSigner, CoSign, Reverted
  <2> QED
    BY <1>7, <2>1, <2>2, <2>3 DEF Late
<1>9. Agrees(w, at, a)
  BY <1>1, <1>2, <1>3, <1>4, <1>8 DEF JourneyReads
<1>10. CASE BuildTerms(j)
  <2>1. Welcome(w, terms[w.m]) /\ a.min \in Nat
    BY <1>7, <1>9 DEF Agrees, ReadTerms, WorthIt, Outside
  <2>2. ~(a.min > 0)
    BY <1>1, <1>2, <1>4, <1>6, <1>10, <2>1 DEF BuildTerms, ParseAmount
  <2> QED
    BY <1>2, <2>1, <2>2
<1>11. ~CheckNonce(j)
  <2> SUFFICES ASSUME CheckNonce(j)  PROVE FALSE
    OBVIOUS
  <2>1. at = "nonce" /\ Signs(w)
    BY <1>3, <1>4 DEF CheckNonce, InPlace
  <2>2. ~a.lapsed /\ a.approval \notin used[w.m]
    BY <1>9, <2>1 DEF Agrees, Spendable, WorthIt, Quoting, Outside
  <2> QED
    BY <1>2, <1>4, <1>6, <2>2 DEF CheckNonce
<1>12. ~CheckSigner(j)
  <2> SUFFICES ASSUME CheckSigner(j)  PROVE FALSE
    OBVIOUS
  <2>1. at = "signer" /\ Signs(w)
    BY <1>3, <1>4 DEF CheckSigner, InPlace, Signs
  <2>2. a.signer = terms[w.m].signer
    BY <1>9, <2>1 DEF Agrees, ReadTerms, Quoting, Outside
  <2> QED
    BY <1>2, <1>4, <1>6, <2>2 DEF CheckSigner
<1>13. ~CoSign(j)
  <2> SUFFICES ASSUME CoSign(j)  PROVE FALSE
    OBVIOUS
  <2>1. at = "cosign" /\ w.m \in Solana /\ w.via
    BY <1>3, <1>4 DEF CoSign, InPlace
  <2>2. a.signer = terms[w.m].signer
    BY <1>9, <2>1 DEF Agrees, ReadTerms
  <2> QED
    BY <1>2, <1>4, <1>6, <2>2 DEF CoSign
<1>14. ~Reverted(j)
  BY <1>1, <1>2, <1>3, <1>9, AgreedIsAccepted DEF Reverted
<1> QED
  BY <1>10, <1>11, <1>12, <1>13, <1>14

(***************************************************************************)
(* No order is built in vain: what was quoted is built and accepted, for   *)
(* any terms, prices and journeys, unless what it was quoted from has      *)
(* moved since, its approval lapsed, or its floor is zero.                 *)
(***************************************************************************)
THEOREM NothingBuiltInVain == Spec => BuiltIsAccepted
<1>1. BuildInv /\ [Next]_vars
      => [\A j \in Journeys :
            /\ pc[j] \notin {"start", "market", "fee"} /\ pc'[j] = "refused"
            => j \notin undisturbed' \/ attempt[j].min = 0]_vars
  <2> SUFFICES ASSUME BuildInv, Next, NEW j \in Journeys,
                      pc[j] \notin {"start", "market", "fee"}, pc'[j] = "refused",
                      j \in undisturbed'
               PROVE  attempt[j].min = 0
    OBVIOUS
  <2>1. CASE pc[j] = "refused"
    <3>1. attempt[j] = Blank
      BY <2>1, JourneyFacts DEF JourneyReads, Outside
    <3> QED
      BY <3>1 DEF Blank
  <2>2. CASE pc[j] # "refused"
    <3>1. ~CallFails(j)
      BY DEF CallFails
    <3>2. Refused(j) /\ ~Quote(j)
      BY <2>2, <3>1, WhoRefuses DEF Quote, QuoteTerms, QuoteMarket, QuoteFee
    <3>3. BuildTerms(j) \/ CheckNonce(j) \/ CheckSigner(j) \/ CoSign(j) \/ Reverted(j)
      BY <2>2, <3>1, <3>2, WhoRefuses
    <3>4. j \in undisturbed
      BY <3>2 DEF Refused, Reads
    <3> QED
      BY <2>2, <3>2, <3>3, <3>4, AgreedIsBuilt DEF Outside
  <2> QED
    BY <2>1, <2>2
<1> QED
  BY <1>1, BuildInvariant, PTL DEF Spec, BuiltIsAccepted

=============================================================================
