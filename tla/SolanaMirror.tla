---------------------------- MODULE SolanaMirror ----------------------------
(***************************************************************************)
(* A Solana order desk facing any home chain that keeps its promise.       *)
(***************************************************************************)
EXTENDS SolanaRequest, HomeAnswer, Functions

Init == WireInit /\ SolanaInit

Next == SolanaNext \/ (HomeAnswers /\ UNCHANGED solanaVars)

Spec == Init /\ [][Next]_desk

TypeOK == WireTypeOK /\ SolanaTypeOK

(***************************************************************************)
(* The executor delivers what arrives and somebody runs settle_fees, which *)
(* is open to all; users, the admin and the home chain owe nothing.        *)
(***************************************************************************)
Landing == \E p \in returns : ReceiveReturn(p) /\ UNCHANGED solanaVars
Settling == \E i \in Ids : SettleFees(i)

LiveSpec ==
  Spec /\ WF_desk(Landing) /\ WF_desk(Delivering) /\ WF_desk(Settling)

-----------------------------------------------------------------------------
(* What the vault keeps in t of each order's fees.                         *)
Escrowed(t) ==
  SumFunction([i \in Ids |->
    IF feeEscrow[i].state = "ESCROWED" /\ feeEscrow[i].mint = t
    THEN EscrowTotal(feeEscrow[i]) ELSE 0])

(* What the OFT has delivered in t for lz_compose to pay out.              *)
Arrived(t) ==
  SumFunction([p \in composing |->
    IF p.t = t THEN ToLocal(p.sd, MirrorQuantum[Solana][t]) ELSE 0])

(***************************************************************************)
(* The fee vault is one token account shared by every order: it holds      *)
(* exactly the fees not settled yet, so settle_fees never pays one order's *)
(* fees with another's, in whatever order they are settled.  The store's   *)
(* account likewise holds what the OFT has delivered and lz_compose has    *)
(* still to pay out, so a delivery is always covered.                      *)
(***************************************************************************)
VaultIsOwed ==
  \A t \in Tokens :
    /\ mirrorToken[Solana][t].bal[FeeVault] = Escrowed(t)
    /\ mirrorToken[Solana][t].bal[Store] = Arrived(t)

(***************************************************************************)
(* An index account leads to the one request whose tokens left under that  *)
(* path and nonce, and every request has one: a message that is killed can *)
(* be named, and names nobody else's order.                                *)
(***************************************************************************)
IndexLeadsHome ==
  \A i \in Ids :
    requests[i].status # "NONE" =>
      {e \in nonceIndex : e.oft = TokenIn(requests[i].dir)
                          /\ e.nonce = requests[i].lzNonce}
        = {[oft |-> TokenIn(requests[i].dir), nonce |-> requests[i].lzNonce,
            id |-> i, user |-> requests[i].user,
            tokenIn |-> TokenIn(requests[i].dir)]}

(* What an account is due of an order's fees.                              *)
DueTo(a, i) ==
  LET f == feeEscrow[i] IN
  IF requests[i].status = "FILLED"
  THEN (IF f.partnerRecipient = a THEN f.partnerFee ELSE 0)
       + (IF f.platformRecipient = a THEN f.platformFee ELSE 0)
  ELSE (IF f.user = a THEN EscrowTotal(f) ELSE 0)

Gains(a, t, amount) ==
  mirrorToken'[Solana][t].bal[a] = mirrorToken[Solana][t].bal[a] + amount

(***************************************************************************)
(* Paid as taken: when fees leave the vault, each account receives what    *)
(* the order's outcome and the terms of the day it was taken make due to   *)
(* it, whatever update_partner and set_platform_fee did meanwhile; and a   *)
(* cancellation restores exactly what the order burned, in its asset.      *)
(***************************************************************************)
PaidAsTaken ==
  [][\A i \in Ids :
       LET r == requests[i] IN
       /\ feeEscrow[i].state = "ESCROWED" /\ feeEscrow'[i].state # "ESCROWED" =>
            \A a \in Users \cup Recipients : Gains(a, feeEscrow[i].mint, DueTo(a, i))
       /\ r.status = "PENDING" /\ requests'[i].status = "CANCELLED" =>
            Gains(r.user, TokenIn(r.dir), r.amountIn)]_desk

Desk == INSTANCE OrderDesk WITH
  Orders <- Ids,
  status <- [i \in Ids |-> requests[i].status],
  fee    <- [i \in Ids |-> feeEscrow[i].state]

(***************************************************************************)
(* Refinement: a request is taken once and closed once, whatever notices   *)
(* and settlements arrive for it and in whatever order, and its fees are   *)
(* released once, after it has closed, to whom its outcome makes them due. *)
(***************************************************************************)
KeepsDesk == Desk!DeskSpec

(***************************************************************************)
(* Nothing is withheld: no settlement waits in the store for ever, the     *)
(* late ones of cancelled or stranded orders included, and an order's fees *)
(* are released once it has closed, however it closed.                     *)
(***************************************************************************)
NothingWithheld ==
  /\ \A t \in Tokens :
       (\E p \in composing : p.t = t) ~> (\A p \in composing : p.t # t)
  /\ \A i \in Ids : requests[i].status \in Terminal ~> feeEscrow[i].state # "ESCROWED"

=============================================================================
