----------------------------- MODULE MCRelayer -----------------------------
(***************************************************************************)
(* Two orders from a mirror to the home chain and their replies; one more  *)
(* packet that only moves tokens, from the home chain.                     *)
(***************************************************************************)
EXTENDS Relayer

CONSTANTS mirror, home, o1, o2, r1, r2, d

Route5(p) ==
  IF p \in {o1, o2} THEN [src |-> mirror, dst |-> home] ELSE [src |-> home, dst |-> mirror]

Reply5(p) == CASE p = o1 -> r1 [] p = o2 -> r2 [] OTHER -> None

AllTrips == [p \in {o1, o2, r1, r2, d} |-> Route5(p)]
AllReplies == [p \in {o1, o2, r1, r2, d} |-> Reply5(p)]

HomeFirst == <<home, mirror>>

=============================================================================
