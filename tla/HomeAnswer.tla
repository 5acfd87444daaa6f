----------------------------- MODULE HomeAnswer -----------------------------
(***************************************************************************)
(* The home chain as its mirrors see it, whatever it runs on: an order is  *)
(* answered at most once, by its output at or above the floor or by the    *)
(* whole of its input; or it is killed, and never answered; or its owner   *)
(* takes the result there.  Here orders holds the orders that may still be *)
(* answered, wherever they are on the home chain.                          *)
(***************************************************************************)
EXTENDS Wire

CONSTANTS
  Outputs,         \* shared amounts a pool may give for an order
  NoticeLimit      \* bound: notices to one mirror

ASSUME PromiseAssumption ==
  /\ Outputs \subseteq Nat \ {0}
  /\ NoticeLimit \in Nat

(***************************************************************************)
(* The answer to p: sd of asset t under that status.  Proceeds that were   *)
(* stranded and sent later come under the status REFUNDED.                 *)
(***************************************************************************)
Answers(p, t, sd, status) ==
  \/ t = p.t /\ sd = p.sd /\ status = "REFUNDED"
  \/ t = OtherToken(p.t) /\ sd >= p.min

Answer(p, t, sd, status) ==
  /\ p.id # 0
  /\ Answers(p, t, sd, status)
  /\ orders' = orders \ {p}
  /\ SendReturn(p.m, t, p.id, sd, status)
  /\ UNCHANGED <<mirrorToken, outNonce, composing, notices, noticeNonce>>

(* p's result cannot cross for now; the mirror is told, and may be again.  *)
Hold(p) ==
  /\ p.id # 0
  /\ noticeNonce[p.m] < NoticeLimit
  /\ SendNotice(p.m, "STRANDED", p.id, "base", 0)
  /\ UNCHANGED <<mirrorToken, outNonce, orders, returns, backNonce, composing>>

(* p will never be executed, and then the mirror is told.                  *)
Kill(p) ==
  /\ noticeNonce[p.m] < NoticeLimit
  /\ orders' = orders \ {p}
  /\ SendNotice(p.m, "CANCELLED", 0, p.t, p.nonce)
  /\ UNCHANGED <<mirrorToken, outNonce, returns, backNonce, composing>>

(* The owner takes what p is worth on the home chain: a plain transfer     *)
(* arrives, or a strand is claimed.                                        *)
Consume(p) ==
  /\ orders' = orders \ {p}
  /\ UNCHANGED <<mirrorToken, outNonce, returns, backNonce, composing, notices,
                 noticeNonce>>

HomeAnswers ==
  \E p \in orders :
    \/ \E t \in Tokens, sd \in Outputs \cup {p.sd}, status \in {"FILLED", "REFUNDED"} :
         Answer(p, t, sd, status)
    \/ Hold(p)
    \/ Kill(p)
    \/ Consume(p)

=============================================================================
