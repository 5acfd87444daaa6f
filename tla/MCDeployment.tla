---------------------------- MODULE MCDeployment ----------------------------
(***************************************************************************)
(* Small instances of the deployment pipeline.                             *)
(***************************************************************************)
EXTENDS Deployment

CONSTANTS eth, arb, bnb, sol, eclipse

(* An EVM home that adds an EVM mirror to two Solana ones; a Solana home. *)
BothHomes == [x \in {eth, sol} |-> IF x = eth THEN <<sol, eclipse, arb>> ELSE <<arb, eclipse, bnb>>]

SolanaAdapts == {sol}

=============================================================================
