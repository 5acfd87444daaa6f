-------------------------------- MODULE Wire --------------------------------
(***************************************************************************)
(* What the mirror chains and the home chain share: the packets LayerZero  *)
(* carries between them, and the mirror side of the token bridge.          *)
(*                                                                         *)
(* orders     mirror -> home packets not yet executed on the home chain.   *)
(*            One whose nonce was killed there stays here for ever: the    *)
(*            log that emitted it cannot be undone.                        *)
(* returns    home -> mirror packets not yet executed on the mirror.       *)
(* composing  what a mirror's OFT has credited to the SwapRequest and the  *)
(*            endpoint has still to hand over by lzCompose.                *)
(* notices    messages of the relay to the SwapRequest, without tokens.    *)
(*                                                                         *)
(* Returns and notices are executed in any order: LayerZero V2 asks that   *)
(* the earlier nonces of a path be verified first, not executed first.     *)
(***************************************************************************)
EXTENDS SwapMath, OmniToken

CONSTANTS
  MirrorQuantum,   \* local units of one shared unit, by mirror and token
  MirrorFloat,     \* what a user holds on a mirror at the start, by token
  MaxNonce,        \* bound: packets on one mirror -> home path
  DirectAmounts    \* shared amounts a user may bridge without an order

ASSUME WireAssumption ==
  /\ MirrorQuantum \in [Mirrors -> [Tokens -> Nat \ {0}]]
  /\ MirrorFloat \in [Tokens -> Nat]
  /\ MaxNonce \in Nat
  /\ DirectAmounts \subseteq Nat
  /\ IsFiniteSet(Users) /\ IsFiniteSet(Recipients) /\ IsFiniteSet(Mirrors)

VARIABLES
  mirrorToken,     \* [Mirrors -> [Tokens -> Token]]
  outNonce,        \* the source endpoint's counter, by path
  orders,
  returns,
  backNonce,       \* the home endpoint's counter of each return path
  composing,
  notices,
  noticeNonce      \* the home endpoint's counter of the relay's own path

wireVars == <<mirrorToken, outNonce, orders, returns, backNonce, composing,
              notices, noticeNonce>>

(***************************************************************************)
(* Mirror balances were bridged in before the model starts, so they are    *)
(* counted as arrivals there.                                              *)
(***************************************************************************)
WireInit ==
  /\ mirrorToken =
       [m \in Mirrors |-> [t \in Tokens |->
          [bal |-> [a \in Accounts |->
                      IF a \in Users
                      THEN ToLocal(MirrorFloat[t], MirrorQuantum[m][t])
                      ELSE 0],
           out |-> 0,
           in  |-> Cardinality(Users)
                     * ToLocal(MirrorFloat[t], MirrorQuantum[m][t])]]]
  /\ outNonce = [m \in Mirrors |-> [t \in Tokens |-> 0]]
  /\ orders = {}
  /\ returns = {}
  /\ backNonce = [m \in Mirrors |-> [t \in Tokens |-> 0]]
  /\ composing = {}
  /\ notices = {}
  /\ noticeNonce = [m \in Mirrors |-> 0]

(***************************************************************************)
(* OFT.send on mirror m: the packet takes the next nonce of its path.  The *)
(* caller has burned the tokens.                                           *)
(***************************************************************************)
SendOrder(m, t, id, user, sd, min) ==
  /\ outNonce[m][t] < MaxNonce
  /\ outNonce' = [outNonce EXCEPT ![m][t] = @ + 1]
  /\ orders' = orders \cup
       {[m |-> m, t |-> t, nonce |-> outNonce[m][t] + 1, id |-> id,
         user |-> user, sd |-> sd, min |-> min]}

(* A user bridges an asset to their own account on the home chain.         *)
DirectSend(m, t, u, sd) ==
  LET amount == ToLocal(sd, MirrorQuantum[m][t]) IN
  /\ sd > 0
  /\ CanPay(mirrorToken[m][t], u, amount)
  /\ mirrorToken' = [mirrorToken EXCEPT ![m][t] = Burn(@, u, amount)]
  /\ SendOrder(m, t, 0, u, sd, 0)
  /\ UNCHANGED <<returns, backNonce, composing, notices, noticeNonce>>

(* OFT.send on the home chain, towards mirror m.                           *)
SendReturn(m, t, id, sd, status) ==
  /\ backNonce' = [backNonce EXCEPT ![m][t] = @ + 1]
  /\ returns' = returns \cup
       {[m |-> m, t |-> t, nonce |-> backNonce[m][t] + 1, id |-> id,
         sd |-> sd, status |-> status]}

(* OApp._lzSend of the relay, towards mirror m's SwapRequest.              *)
SendNotice(m, status, id, t, lzNonce) ==
  /\ noticeNonce' = [noticeNonce EXCEPT ![m] = @ + 1]
  /\ notices' = notices \cup
       {[m |-> m, nonce |-> noticeNonce[m] + 1, status |-> status, id |-> id,
         t |-> t, lzNonce |-> lzNonce]}

(***************************************************************************)
(* OFT.lzReceive on a mirror: the tokens are minted to the SwapRequest and *)
(* the settlement is queued for it, in one transaction.  lzCompose is a    *)
(* later one.                                                              *)
(***************************************************************************)
ReceiveReturn(p) ==
  LET amount == ToLocal(p.sd, MirrorQuantum[p.m][p.t]) IN
  /\ p \in returns
  /\ returns' = returns \ {p}
  /\ composing' = composing \cup {p}
  /\ mirrorToken' = [mirrorToken EXCEPT ![p.m][p.t] = Mint(@, Contract, amount)]
  /\ UNCHANGED <<outNonce, orders, backNonce, notices, noticeNonce>>

WireTypeOK ==
  /\ mirrorToken \in [Mirrors -> [Tokens -> Token]]
  /\ outNonce \in [Mirrors -> [Tokens -> Nat]]
  /\ orders \subseteq OrderPacket
  /\ returns \subseteq ReturnPacket
  /\ backNonce \in [Mirrors -> [Tokens -> Nat]]
  /\ composing \subseteq ReturnPacket
  /\ notices \subseteq Notice
  /\ noticeNonce \in [Mirrors -> Nat]

=============================================================================
