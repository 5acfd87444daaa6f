---------------------------- MODULE PromiseKept ----------------------------
(***************************************************************************)
(* The relay and its endpoint keep the home chain's promise to the mirrors:*)
(* every step of CrossStock is a step of HomePromise, or none, when the    *)
(* orders HomePromise may still answer are those below.                    *)
(***************************************************************************)
EXTENDS CrossStock, HomeAnswer

(* The promise allows what a pool may give, as it crosses, and as many     *)
(* notices as this model has: those of retries, and one for each message   *)
(* of the two paths, which is killed or stranded once.                     *)
ASSUME BoundsAssumption ==
  /\ \A out \in PoolOutputs, t \in Tokens :
       out >= HomeQuantum[t] => ToShared(out, HomeQuantum[t]) \in Outputs
  /\ MaxNotices + 2 * MaxNonce <= NoticeLimit

(* The packet of a request whose result the relay holds as stranded: what  *)
(* the mirror recorded of it is enough to write it again.                  *)
PacketOf(m, id) ==
  LET r == requests[m][id]
      t == TokenIn(r.dir)
  IN  [m |-> m, t |-> t, nonce |-> r.lzNonce, id |-> id, user |-> r.user,
       sd  |-> ToShared(r.amountIn, MirrorQuantum[m][t]),
       min |-> FloorToShared(r.minAmountOut, MirrorQuantum[m][TokenOut(r.dir)])]

(* On the wire and not killed, handed to the relay, or stranded there.     *)
StillOwed ==
  Alive \cup queue
  \cup {PacketOf(k[1], k[2]) : k \in {k \in Mirrors \X Ids : stranded[k[1]][k[2]].amount > 0}}

Promise == INSTANCE HomePromise WITH orders <- StillOwed

(***************************************************************************)
(* Refinement: endpoint verification and execution in any legal order,     *)
(* composes, retries, claims, kills and the relay's own balances amount,   *)
(* for a mirror, to one answer per order, worth the floor or the input, or *)
(* to none after a kill or a claim.                                        *)
(***************************************************************************)
HomeKeepsPromise == Promise!PromiseSpec

=============================================================================
