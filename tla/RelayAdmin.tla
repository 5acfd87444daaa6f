----------------------------- MODULE RelayAdmin -----------------------------
(***************************************************************************)
(* The operator of a Solana home, at infra/solana/relay-admin.ts.  Each of *)
(* its calls reads what its instruction will name (a compose from an event *)
(* of the endpoint, a Stranded account, whether a message is verified) and *)
(* sends the transaction afterwards: by then the compose may be executed,  *)
(* the account closed, the message verified, delivered or killed, and the  *)
(* program has to refuse.  A call may also die at any point, between the   *)
(* two transactions of a cancellation for one, and be made again.          *)
(*                                                                         *)
(* What a return leg costs is within the peer's cap or above it: above it, *)
(* composes and retries revert until the operator records another cap.     *)
(***************************************************************************)
EXTENDS SolanaStock

VARIABLES
  call,            \* the operator's call under way, and what it has read
  withinCap        \* [Mirrors -> whether a return's fee is within max_return_fee]

callVars == <<call, withinCap>>

None == [do |-> "none"]

AdminInit == Init /\ call = None /\ withinCap = [m \in Mirrors |-> TRUE]

-----------------------------------------------------------------------------
(* Calls begin with a read.                                                *)

Begins(c) == call = None /\ call' = c /\ UNCHANGED <<vars, withinCap>>

(* strandCompose, for a compose the executor could not complete.           *)
AskStrand(p) == p \in queue /\ Begins([do |-> "strand", of |-> p])

(* retryReturn reads the mint and the recipient of the rent.               *)
AskRetry(s) == s \in strandeds /\ Begins([do |-> "retry", of |-> s])

(* cancelStuckInbound: a burn, if the caller has seen the message verified;*)
(* else a skip, whose account init_verify has to create if there is none.  *)
(* A message that is dead already is not asked for: the call would throw.  *)
AskCancel(p) ==
  /\ p \in Alive
  /\ Begins([of |-> p,
             do |-> IF p.nonce \in verified[p.m][p.t] THEN "burn"
                    ELSE IF p.nonce \in initialised[p.m][p.t] THEN "skip"
                    ELSE "init"])

-----------------------------------------------------------------------------
(* ... and end with a transaction.                                         *)

Ends(do) == call.do = do /\ call' = None /\ UNCHANGED <<requestVars, withinCap>>

SendStrand == Ends("strand") /\ call.of \in queue /\ StrandCompose(call.of)

SendRetry ==
  Ends("retry") /\ withinCap[call.of.m] /\ RetryReturn(call.of)

SendInit ==
  /\ call.do = "init" /\ call' = [call EXCEPT !.do = "skip"]
  /\ InitVerify(call.of.m, call.of.t, call.of.nonce)
  /\ RelayUntouched /\ UNCHANGED <<orders, requestVars, withinCap>>

SendCancel ==
  \/ Ends("skip") /\ CancelStuckInbound(call.of, FALSE)
  \/ Ends("burn") /\ CancelStuckInbound(call.of, TRUE)

(* send throws: a transaction that reverts, an RPC call that fails.        *)
Throws == call # None /\ call' = None /\ UNCHANGED <<vars, withinCap>>

(* setMaxReturnFee: the peer's record, with another cap.                   *)
SetMaxReturnFee(m) ==
  /\ call = None
  /\ withinCap' = [withinCap EXCEPT ![m] = ~@]
  /\ UNCHANGED <<vars, call>>

-----------------------------------------------------------------------------
(* Anybody executes a compose, and retries a return; within the cap.       *)
Executing ==
  /\ \E p \in queue : withinCap[p.m] /\ LzCompose(p)
  /\ UNCHANGED <<requestVars, callVars>>
Retrying ==
  /\ \E s \in strandeds : withinCap[s.m] /\ RetryReturn(s)
  /\ UNCHANGED <<requestVars, callVars>>

AdminNext ==
  \/ MirrorNext /\ UNCHANGED <<relayVars, callVars>>
  \/ Delivering /\ UNCHANGED <<requestVars, callVars>>
  \/ Executing \/ Retrying
  \/ \E p \in queue : AskStrand(p)
  \/ \E s \in strandeds : AskRetry(s)
  \/ \E p \in Alive : AskCancel(p)
  \/ SendStrand \/ SendRetry \/ SendInit \/ SendCancel \/ Throws
  \/ \E m \in Mirrors : SetMaxReturnFee(m)

allVars == <<vars, callVars>>

-----------------------------------------------------------------------------
(* Fairness: DVNs and executor deliver what they can, and anybody executes *)
(* or retries.  Each of their steps is taken once, so none starves another.*)
Delivered ==
  WF_allVars(
    \/ Delivering /\ UNCHANGED <<requestVars, callVars>>
    \/ Settling /\ UNCHANGED <<relayVars, callVars>>
    \/ \E p \in returns : ReceiveReturn(p) /\ UNCHANGED <<requestVars, relayVars, callVars>>)

(* The operator leaves a cap that is enough; or, whatever the cap, strands *)
(* what is queued: calls end, and one after another is made until one gets *)
(* through.                                                                *)
Affordable ==
  /\ <>[](\A m \in Mirrors : withinCap[m])
  /\ WF_allVars(Executing \/ Retrying)
Attended ==
  /\ WF_allVars(Throws)
  /\ SF_allVars(\E p \in queue : AskStrand(p))
  /\ SF_allVars(SendStrand)

AdminSpec ==
  /\ AdminInit /\ [][AdminNext]_allVars
  /\ Delivered /\ (Affordable \/ Attended)

=============================================================================
