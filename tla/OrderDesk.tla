----------------------------- MODULE OrderDesk -----------------------------
(***************************************************************************)
(* What an order desk promises those who trade through it, on any chain:   *)
(* an order is taken once, closed once, and its fees leave escrow once, to *)
(* whom the outcome makes them due.  SwapRequest.sol releases them in the  *)
(* step that closes the order, the Solana program in a later one.          *)
(***************************************************************************)
CONSTANTS Orders

VARIABLES
  status,          \* [Orders -> status of the request]
  fee              \* [Orders -> state of its fees]

deskVars == <<status, fee>>

Outcomes == {"FILLED", "REFUNDED", "STRANDED", "CANCELLED"}

(* Kept only for a fill.                                                   *)
Due(outcome) == IF outcome = "FILLED" THEN "PAID" ELSE "RETURNED"

DeskInit ==
  /\ status = [o \in Orders |-> "NONE"]
  /\ fee = [o \in Orders |-> "NONE"]

Take(o) ==
  /\ status[o] = "NONE"
  /\ fee[o] = "NONE"
  /\ status' = [status EXCEPT ![o] = "PENDING"]
  /\ \E f \in {"NONE", "ESCROWED"} : fee' = [fee EXCEPT ![o] = f]

Close(o, outcome) ==
  /\ status[o] = "PENDING"
  /\ status' = [status EXCEPT ![o] = outcome]
  /\ fee' = fee \/ (fee[o] = "ESCROWED" /\ fee' = [fee EXCEPT ![o] = Due(outcome)])

Release(o) ==
  /\ status[o] \in Outcomes
  /\ fee[o] = "ESCROWED"
  /\ fee' = [fee EXCEPT ![o] = Due(status[o])]
  /\ UNCHANGED status

DeskNext ==
  \E o \in Orders :
    \/ Take(o)
    \/ \E outcome \in Outcomes : Close(o, outcome)
    \/ Release(o)

DeskSpec == DeskInit /\ [][DeskNext]_deskVars

=============================================================================
