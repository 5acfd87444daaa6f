---------------------------- MODULE HomePromise ----------------------------
(***************************************************************************)
(* SwapRequest facing any home chain that keeps its promise: the module    *)
(* closes the contract for model checking, and is what SwapRelay and its   *)
(* endpoint implement.                                                     *)
(***************************************************************************)
EXTENDS SwapRequest, HomeAnswer, Functions

PromiseNext == MirrorNext \/ (HomeAnswers /\ UNCHANGED requestVars)

PromiseSpec == MirrorInit /\ [][PromiseNext]_mirrorVars

-----------------------------------------------------------------------------
(* The fee ledger.                                                         *)

FeeToken(m, i) == TokenIn(requests[m][i].dir)

(* What each request of mirror m keeps in escrow in asset t.               *)
Escrows(m, t) ==
  [i \in Ids |-> IF fees[m][i].state = "ESCROWED" /\ FeeToken(m, i) = t
                 THEN EscrowTotal(fees[m][i]) ELSE 0]

EscrowedFees(m, t) == SumFunction(Escrows(m, t))

ClaimableFees(m, t) == SumFunction(feesClaimable[m][t])

(***************************************************************************)
(* The reserve sweep must leave alone is exactly what is owed in fees: the *)
(* escrows of open requests and what accounts may claim, through earnings, *)
(* returns that a token refuses, and claims.                               *)
(***************************************************************************)
ReserveIsOwed ==
  \A m \in Mirrors, t \in Tokens :
    feesReserved[m][t] = EscrowedFees(m, t) + ClaimableFees(m, t)

(* What each settlement the endpoint has queued pays on mirror m in t.     *)
Payouts(m, t) ==
  [p \in composing |-> IF p.m = m /\ p.t = t
                       THEN ToLocal(p.sd, MirrorQuantum[m][t]) ELSE 0]

QueuedPayouts(m, t) == SumFunction(Payouts(m, t))

(***************************************************************************)
(* Every settlement the endpoint has queued can be paid, and the fee       *)
(* reserve after it: lzCompose and claimFees never revert for want of      *)
(* tokens, whatever the owner sweeps while no settlement waits.            *)
(***************************************************************************)
PayoutsCovered ==
  \A m \in Mirrors, t \in Tokens :
    mirrorToken[m][t].bal[Contract] >= feesReserved[m][t] + QueuedPayouts(m, t)

(* What fees make due to account a when the order fills.                   *)
DueOnFill(f, a) ==
  (IF f.partnerRecipient = a THEN f.partnerFee ELSE 0)
  + (IF f.platformRecipient = a THEN f.platformFee ELSE 0)

EarnsAsTaken(m, i) ==
  LET f == fees[m][i]
      t == FeeToken(m, i)
  IN
  f.state = "ESCROWED" =>
    /\ fees'[m][i] = [f EXCEPT !.state = fees'[m][i].state]
    /\ fees'[m][i].state = "PAID" =>
         \A a \in FeeAccounts :
           feesClaimable'[m][t][a] = feesClaimable[m][t][a] + DueOnFill(f, a)

(***************************************************************************)
(* New terms bind new orders only: when an order fills, its fees accrue to *)
(* the accounts and in the amounts of the day it was taken, whatever       *)
(* setPartner and setPlatformFee did while it was away.                    *)
(***************************************************************************)
EarnedAsTaken == [][\A m \in Mirrors, i \in Ids : EarnsAsTaken(m, i)]_mirrorVars

(* What user u holds on mirror m in asset t, or may claim there.           *)
Wealth(m, t, u) == mirrorToken[m][t].bal[u] + feesClaimable[m][t][u]

(* The step cancels request i, or refunds it by its input.                 *)
GivesBack(m, i) ==
  LET other == OtherToken(FeeToken(m, i)) IN
  /\ requests[m][i].status = "PENDING"
  /\ \/ requests'[m][i].status = "CANCELLED"
     \/ /\ requests'[m][i].status = "REFUNDED"
        /\ mirrorToken'[m][other] = mirrorToken[m][other]

MakesWhole(m, i) ==
  LET r == requests[m][i] IN
  Wealth(m, FeeToken(m, i), r.user)'
    = Wealth(m, FeeToken(m, i), r.user) + r.amountIn + EscrowTotal(fees[m][i])

(***************************************************************************)
(* Made whole: the step that cancels a request, or refunds it by its input,*)
(* gives back exactly what the order took, dust handed back at submission  *)
(* excepted: the bridged input and both fees, even when the token refuses  *)
(* the fees.                                                               *)
(***************************************************************************)
MadeWhole ==
  [][\A m \in Mirrors, i \in Ids : GivesBack(m, i) => MakesWhole(m, i)]_mirrorVars

Desk == INSTANCE OrderDesk WITH
  Orders <- Mirrors \X Ids,
  status <- [o \in Mirrors \X Ids |-> requests[o[1]][o[2]].status],
  fee    <- [o \in Mirrors \X Ids |-> fees[o[1]][o[2]].state]

(***************************************************************************)
(* Refinement: the contract keeps the promise the Solana program keeps. An *)
(* order is taken once and closed once, through any order of settlements   *)
(* and notices, and its fees leave escrow once, to whom the outcome makes  *)
(* them due.                                                               *)
(***************************************************************************)
KeepsDesk == Desk!DeskSpec

-----------------------------------------------------------------------------
(***************************************************************************)
(* SwapRequest.sol, sweep: "It can never reach fees held for users,        *)
(* partners or the platform."  The contract holds what it has reserved.    *)
(* Refuted when the owner sweeps tokens whose settlement is still queued.  *)
(***************************************************************************)
FeesHeld ==
  \A m \in Mirrors, t \in Tokens :
    mirrorToken[m][t].bal[Contract] >= feesReserved[m][t]

=============================================================================
