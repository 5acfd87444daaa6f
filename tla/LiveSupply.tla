----------------------------- MODULE LiveSupply -----------------------------
(***************************************************************************)
(* Where every unit of an asset is, as infra/lib/omnisupply.ts measures it *)
(* while tokens move: asset after asset, chain after chain, one RPC call   *)
(* after another, adding up what no two calls saw at the same moment.  The *)
(* figures are used by the supply report, the reserves API and the web     *)
(* dashboard, whose server keeps the last measurement it started for a few *)
(* seconds (live.ts) and whose pages ask again and again (poll.ts).        *)
(*                                                                         *)
(* The home chain is a Solana one, the mirrors are EVM chains; a measuring *)
(* process sends no transaction.  The pool's balance, the home market and  *)
(* the relay's holdings, read beside the supply, enter no sum: they only   *)
(* fail or time out as it does.                                            *)
(***************************************************************************)
EXTENDS SolanaStock, Transit, SequencesExt

CONSTANTS
  EvmOrder,         \* the EVM chains in the order of the manifest
  Finest,           \* [Tokens -> local units of a shared unit, finest decimals]
  MaxReadings       \* bound: measurements started

Home == "home"

Quantum(c, t) == IF c = Home THEN HomeQuantum[t] ELSE MirrorQuantum[c][t]

ASSUME LiveSupplyAssumption ==
  /\ EvmOrder \in Seq(Mirrors) /\ ToSet(EvmOrder) = Mirrors /\ IsInjective(EvmOrder)
  /\ Home \notin Mirrors
  /\ Finest \in [Tokens -> Nat \ {0}]
  /\ \A t \in Tokens, c \in Mirrors \cup {Home} : Finest[t] % Quantum(c, t) = 0
  /\ MaxReadings \in Nat

VARIABLES
  readings,         \* measurements the dashboard's server started, in order
  young,            \* whether the last one is within LIVE_TTL_MS
  pending,          \* measurements the page awaits
  shown             \* the measurement the page shows, 0 for none

reportVars == <<readings, young, pending, shown>>

-----------------------------------------------------------------------------
(* The calls of a measurement.                                             *)

(***************************************************************************)
(* A call: which asset, which chain of the loop over them, and what it     *)
(* asks.  The home chain is the last one, after the EVM ones in order.     *)
(***************************************************************************)
ChainOf(c) == IF c.nth <= Len(EvmOrder) THEN EvmOrder[c.nth] ELSE Home

FirstCall(t) == [token |-> t, nth |-> 1, what |-> "supply"]

(* An EVM chain: its supply, then its counters, in two calls.              *)
AfterEvm(c) ==
  CASE c.what = "supply" -> [c EXCEPT !.what = "out"]
    [] c.what = "out"    -> [c EXCEPT !.what = "in"]
    [] c.what = "in"     -> [FirstCall(c.token) EXCEPT !.nth = c.nth + 1]

(* Solana: the flow counters are two fields of one account.                *)
AfterSolana(c) ==
  CASE c.what = "supply" ->
         [c EXCEPT !.what = IF c.token \in Adapted THEN "locked" ELSE "flow"]
    [] c.what = "locked" -> [c EXCEPT !.what = "flow"]
    [] c.what = "flow"   -> [c EXCEPT !.what = "sum"]

CallAfter(c) == IF ChainOf(c) = Home THEN AfterSolana(c) ELSE AfterEvm(c)

Ledger(c, t) == IF c = Home THEN homeToken[t] ELSE mirrorToken[c][t]

TotalSupply(k) == SumFunction(k.bal)

(* Amounts are rescaled to the finest local decimals, exactly.             *)
Up(v, c, t) == v * (Finest[t] \div Quantum(c, t))

(* What exists: the genesis of a launched asset; an adapted one's own.     *)
Genesis(t) == Up(HomeFloat[t] + AbroadAtStart(t), Home, t)

NoFigures == [total |-> 0, flow |-> 0, expected |-> 0, moved |-> "no"]

(* broken: an asset whose sums disagreed; torn: one that moved, see below. *)
Reading == [state |-> "running", next |-> FirstCall("base"), figures |-> NoFigures,
            broken |-> FALSE, torn |-> FALSE]

Running(r) == readings[r].state = "running"
NextCall(r) == readings[r].next

(***************************************************************************)
(* What a call adds to the figures f.  Locked tokens circulate elsewhere.  *)
(***************************************************************************)
Adds(f, c) ==
  LET k == Ledger(ChainOf(c), c.token)
      up(v) == Up(v, ChainOf(c), c.token)
      raw == up(TotalSupply(k))
  IN
  CASE c.what = "supply" ->
         [f EXCEPT !.total = @ + raw,
                   !.expected = IF c.token \notin Adapted THEN Genesis(c.token)
                                ELSE IF ChainOf(c) = Home THEN raw ELSE @]
    [] c.what = "locked" -> [f EXCEPT !.total = @ - up(k.bal[Vault])]
    [] c.what = "out"    -> [f EXCEPT !.flow = @ + up(k.out)]
    [] c.what = "in"     -> [f EXCEPT !.flow = @ - up(k.in)]
    [] c.what = "flow"   -> [f EXCEPT !.flow = @ + up(k.out) - up(k.in)]

Measure(r) ==
  /\ Running(r) /\ NextCall(r).what # "sum"
  /\ readings' = [readings EXCEPT
       ![r].next = CallAfter(@),
       ![r].figures = Adds(@, NextCall(r))]
  /\ UNCHANGED <<vars, young, pending, shown>>

(* An asset's figures are complete; the next one's begin.                  *)
Summed(r) == Running(r) /\ NextCall(r).what = "sum"

(* What exists, on the chains and in flight: issued, in the reserves API.  *)
Issued(f) == f.total + f.flow

(* The verdict: conserved on the page, reconciled in the API; or, in the   *)
(* supply report, NOT conserved.                                           *)
Conserved(f) == Issued(f) = f.expected
NotConserved(f) == ~Conserved(f)

Sum(r) ==
  /\ Summed(r)
  /\ LET f == readings[r].figures
         done == NextCall(r).token = "quote"
     IN  readings' = [readings EXCEPT
           ![r].state = IF done THEN "live" ELSE @,
           ![r].next = IF done THEN @ ELSE FirstCall("quote"),
           ![r].figures = NoFigures,
           ![r].broken = @ \/ NotConserved(f),
           ![r].torn = @ \/ f.moved = "under"]
  /\ UNCHANGED <<vars, young, pending, shown>>

(* A call fails, here or beside it, or withTimeout is through waiting.     *)
Unreachable(r) ==
  /\ Running(r)
  /\ readings' = [readings EXCEPT ![r] = [Reading EXCEPT !.state = "unreachable"]]
  /\ UNCHANGED <<vars, young, pending, shown>>

-----------------------------------------------------------------------------
(* The server's cache, and a page.                                         *)

Latest == Len(readings)

(* getLive: a promise within its time to live, kept or broken, is shared.  *)
GetLive ==
  IF Latest > 0 /\ young THEN UNCHANGED <<readings, young>>
  ELSE /\ Latest < MaxReadings
       /\ readings' = Append(readings, Reading)
       /\ young' = TRUE

(* Somebody else's page asks.                                              *)
Visit == GetLive /\ UNCHANGED <<vars, pending, shown>>

Expire ==
  /\ young /\ young' = FALSE
  /\ UNCHANGED <<vars, readings, pending, shown>>

(* Mutant: a tick asks whether or not the last answer is there.            *)
MayAskAlways == TRUE

(* inFlight: one request at a time.                                        *)
MayAsk == pending = {}

Tick ==
  /\ MayAsk
  /\ GetLive
  /\ pending' = pending \cup {Len(readings')}
  /\ UNCHANGED <<vars, shown>>

Answered(r) ==
  /\ r \in pending /\ ~Running(r)
  /\ pending' = pending \ {r}
  /\ shown' = r
  /\ UNCHANGED <<vars, readings, young>>

(* The request fails; what was shown before is kept, marked as old.        *)
FetchFails(r) ==
  /\ r \in pending
  /\ pending' = pending \ {r}
  /\ UNCHANGED <<vars, readings, young, shown>>

-----------------------------------------------------------------------------
(* Whether an asset's figures are half read, and those of a chain.         *)
Begun(r) == NextCall(r) # FirstCall(NextCall(r).token)

Under(r, c, t) ==
  /\ ChainOf(NextCall(r)) = c /\ NextCall(r).token = t
  /\ NextCall(r).what \notin {"supply", "sum"}

(* The ledgers a step changes.                                             *)
Moving ==
  {l \in (Mirrors \cup {Home}) \X Tokens : Ledger(l[1], l[2])' # Ledger(l[1], l[2])}

(* What moves below a reading, for the properties: this asset, there, now? *)
Noticed(r) ==
  LET f == readings[r].figures
      moving == {l \in Moving : l[2] = NextCall(r).token}
  IN
  IF ~Begun(r) \/ moving = {} \/ f.moved = "under" THEN f.moved
  ELSE IF \E l \in moving : Under(r, l[1], l[2]) THEN "under" ELSE "elsewhere"

ChainsMove ==
  /\ Next
  /\ readings' = [r \in DOMAIN readings |->
       IF Running(r) THEN [readings[r] EXCEPT !.figures.moved = Noticed(r)]
       ELSE readings[r]]
  /\ UNCHANGED <<young, pending, shown>>

LiveInit == Init /\ readings = <<>> /\ young = FALSE /\ pending = {} /\ shown = 0

LiveNext ==
  \/ ChainsMove \/ Visit \/ Expire \/ Tick
  \/ \E r \in DOMAIN readings : Measure(r) \/ Sum(r) \/ Unreachable(r)
  \/ \E r \in 1..MaxReadings : Answered(r) \/ FetchFails(r)

ReportSpec == LiveInit /\ [][LiveNext]_<<vars, reportVars>>

-----------------------------------------------------------------------------
(* No report denies what exists, but one read while a chain moved below it.*)
NeverDenied == \A r \in DOMAIN readings : readings[r].broken => readings[r].torn

(* What a report says is in flight is what is, if nothing moved meanwhile. *)
FlightIsSeen ==
  \A r \in DOMAIN readings :
    Summed(r) /\ readings[r].figures.moved = "no" =>
      readings[r].figures.flow = InFlight(NextCall(r).token) * Finest[NextCall(r).token]

(***************************************************************************)
(* A measurement is whole though its calls are not of one instant: what is *)
(* on the chains and in flight adds up to what exists, through fills,      *)
(* refunds, strands and cancellations, and no report denies it, unless an  *)
(* amount leaves or arrives at a chain between that chain's own calls; and *)
(* what is reported to be in flight is what is, if nothing moves meanwhile.*)
(***************************************************************************)
MeasuredWhole == NeverDenied /\ FlightIsSeen

(***************************************************************************)
(* A page never goes back in time: a measurement it shows is not replaced  *)
(* by one begun earlier, though the server's measurements overlap and end  *)
(* in any order.                                                           *)
(***************************************************************************)
NeverBack == [][shown' >= shown]_shown

=============================================================================
