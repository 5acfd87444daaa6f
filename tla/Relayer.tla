------------------------------ MODULE Relayer ------------------------------
(***************************************************************************)
(* The local stand-in for LayerZero's DVN and Executor: infra/relayer.ts   *)
(* for EVM chains, infra/solana/relay.ts for Solana ones.  One process     *)
(* scans every chain in turn, delivers what it finds and runs the composes *)
(* a delivery queues; each await is a step of its own, during which chains *)
(* go on.  An RPC call that fails throws: before the transaction it sends  *)
(* has any effect, or after.                                               *)
(*                                                                         *)
(* A block holds one packet, so a cursor is a position in a chain's log.   *)
(* What the transactions do to tokens and requests is in SwapRelay and     *)
(* SwapRequest; here a packet is sent, verified, received and composed.    *)
(***************************************************************************)
EXTENDS Sequences, FiniteSets, Naturals, Functions

CONSTANTS
  Evm, Svm,         \* the chains, by virtual machine
  Order,            \* the sequence a tick visits them in
  Packets,
  Route,            \* [Packets -> [src, dst : chains]]
  Sent,             \* packets users send; the others are replies
  Composed,         \* packets whose delivery queues a compose
  Reply,            \* [Packets -> Packets \cup {None}]: what a compose sends
  None,
  SignatureLimit,   \* getSignaturesForAddress, 1000 in the code
  MaxRounds,        \* drain's maxRounds
  MaxFaults,        \* bound: RPC calls that throw, lzReceives that revert
  MaxReverts        \* bound: composes that revert

Chains == Evm \cup Svm

ASSUME RelayerAssumption ==
  /\ Evm \cap Svm = {}
  /\ Order \in Seq(Chains)
  /\ Route \in [Packets -> [src : Chains, dst : Chains]]
  /\ Sent \subseteq Packets /\ Composed \subseteq Packets
  /\ Reply \in [Packets -> Packets \cup {None}]
  /\ None \notin Packets
  /\ {SignatureLimit, MaxRounds, MaxFaults, MaxReverts} \subseteq Nat

VARIABLES
  watching,         \* watch, or one drain
  log,              \* [Chains -> Seq(Packets)]: PacketSent, in order
  verified, received, queued, composed,   \* on the destination: packets
  cursor,           \* [Chains -> Nat]
  start,            \* where syncToHead began
  seen,             \* EVM packets taken up
  failedComposes,   \* Seq(Packets), EVM
  svmFailed,        \* the same list of a Solana chain
  pc, left, head, batch, packet,   \* where the process is
  retrying,         \* what retryFailedComposes has still to send
  productive, quiet, rounds,       \* drain's loop
  faults, reverts

chainVars == <<watching, log, verified, received, queued, composed>>
memoryVars == <<cursor, start, seen, failedComposes, svmFailed>>
loopVars == <<productive, quiet, rounds>>
boundVars == <<faults, reverts>>
vars == <<chainVars, memoryVars, pc, left, head, batch, packet, retrying,
          loopVars, boundVars>>

(* What the process was started for: --watch, or one drain.                *)
Invoked == watching \in BOOLEAN

Init ==
  /\ Invoked
  /\ log = [c \in Chains |-> <<>>]
  /\ verified = {} /\ received = {} /\ queued = {} /\ composed = {}
  /\ cursor = [c \in Chains |-> 0]
  /\ start = [c \in Chains |-> 0]
  /\ seen = {} /\ failedComposes = <<>> /\ svmFailed = {}
  /\ pc = "start" /\ left = <<>> /\ head = 0 /\ batch = <<>> /\ packet = None
  /\ retrying = <<>> /\ productive = FALSE /\ quiet = 0 /\ rounds = 0
  /\ faults = 0 /\ reverts = 0

-----------------------------------------------------------------------------
(* The chains.                                                             *)

Emitted == UNION {Range(log[c]) : c \in Chains}

(* A log with the packet p at its end; nothing for None.                   *)
Emitting(l, p) ==
  IF p = None THEN l ELSE [l EXCEPT ![Route[p].src] = Append(@, p)]

(* The packets of p's path that were sent before it.                       *)
Before(p) ==
  LET l == log[Route[p].src]
      at == CHOOSE i \in DOMAIN l : l[i] = p
  IN  {l[i] : i \in {i \in 1..(at - 1) : Route[l[i]].dst = Route[p].dst}}

(* An endpoint executes a packet once every earlier one is verified.       *)
Executable(p) == p \in verified /\ p \notin received /\ Before(p) \subseteq verified

SendPacket(p) ==
  /\ watching \/ pc = "start"
  /\ p \notin Emitted
  /\ log' = Emitting(log, p)
  /\ UNCHANGED <<watching, verified, received, queued, composed, memoryVars, pc, left, head,
                 batch, packet, retrying, loopVars, boundVars>>

-----------------------------------------------------------------------------
(* Scanning.                                                               *)

Elsewhere == UNCHANGED <<retrying, boundVars>>

(* The newest block, or the newest signature of a Solana endpoint.         *)
Newest(c) == Len(log[c])

(* syncToHead, before the first tick: one chain after another.             *)
SyncToHead(c) ==
  /\ pc = "start"
  /\ cursor[c] < Newest(c)
  /\ cursor' = [cursor EXCEPT ![c] = Newest(c)]
  /\ start' = [start EXCEPT ![c] = Newest(c)]
  /\ UNCHANGED <<chainVars, seen, failedComposes, svmFailed, pc, left, head, batch,
                 packet, loopVars>>
  /\ Elsewhere

(* tick.  A round of drain is a tick, and one more if that was quiet.      *)
StartTick ==
  /\ pc \in {"start", "idle"}
  /\ pc' = "scan" /\ left' = Order
  /\ productive' = FALSE
  /\ rounds' = IF watching \/ quiet = 1 THEN rounds ELSE rounds + 1
  /\ UNCHANGED <<chainVars, memoryVars, head, batch, packet, quiet>>
  /\ Elsewhere

(* drain stops after two such ticks, or maxRounds.                         *)
Drained(n) == n = 2 \/ (n = 0 /\ rounds = MaxRounds)

EndTick ==
  LET quietNow == IF productive THEN 0 ELSE quiet + 1 IN
  /\ pc = "scan" /\ left = <<>>
  /\ quiet' = IF watching THEN 0 ELSE quietNow
  /\ pc' = IF ~watching /\ Drained(quietNow) THEN "done" ELSE "idle"
  /\ UNCHANGED <<chainVars, memoryVars, left, head, batch, packet, productive, rounds>>
  /\ Elsewhere

Visited == left' = Tail(left)

(* drainChain: the head is read first, and there may be nothing new.       *)
ReadHead ==
  /\ pc = "scan" /\ left # <<>> /\ Head(left) \in Evm
  /\ LET c == Head(left) IN
     IF Len(log[c]) <= cursor[c]
     THEN Visited /\ UNCHANGED <<pc, head>>
     ELSE head' = Len(log[c]) /\ pc' = "logs" /\ UNCHANGED left
  /\ UNCHANGED <<chainVars, memoryVars, batch, packet, loopVars>>
  /\ Elsewhere

(* Mutant: the cursor takes the head as it is once the logs have come.     *)
PassedNow(c) == Len(log[c])

(* Where the cursor goes: the head the logs were asked for.                *)
Passed(c) == head

(* getLogs up to the head read before, and the cursor moves to it.         *)
GetLogs ==
  LET c == Head(left) IN
  /\ pc = "logs"
  /\ batch' = SubSeq(log[c], cursor[c] + 1, head)
  /\ cursor' = [cursor EXCEPT ![c] = Passed(c)]
  /\ pc' = "batch"
  /\ UNCHANGED <<chainVars, start, seen, failedComposes, svmFailed, left, head,
                 packet, loopVars>>
  /\ Elsewhere

(* scanOutbound: the newest signatures up to the limit, and the cursor     *)
(* moves past all of them before any event is read.                        *)
ScanOutbound ==
  LET c == Head(left)
      n == Len(log[c])
      from == IF n - cursor[c] > SignatureLimit THEN n - SignatureLimit ELSE cursor[c]
  IN
  /\ pc = "scan" /\ left # <<>> /\ c \in Svm
  /\ cursor' = [cursor EXCEPT ![c] = n]
  /\ batch' = SubSeq(log[c], from + 1, n)
  /\ pc' = "extract"
  /\ UNCHANGED <<chainVars, start, seen, failedComposes, svmFailed, left, head,
                 packet, loopVars>>
  /\ Elsewhere

(* The events of those transactions, read one by one.                      *)
ExtractEvents ==
  /\ pc = "extract" /\ pc' = "batch"
  /\ UNCHANGED <<chainVars, memoryVars, left, head, batch, packet, loopVars>>
  /\ Elsewhere

(* Whether this packet was taken up before (a Solana scan keeps no list).  *)
Skipped(p) == Route[p].src \in Evm /\ p \in seen

NextPacket ==
  /\ pc = "batch"
  /\ IF batch = <<>>
     THEN pc' = "scan" /\ Visited /\ UNCHANGED <<batch, packet, seen>>
     ELSE /\ batch' = Tail(batch)
          /\ UNCHANGED left
          /\ IF Skipped(Head(batch))
             THEN UNCHANGED <<pc, packet, seen>>
             ELSE /\ packet' = Head(batch)
                  /\ seen' = seen \cup {Head(batch)}
                  /\ pc' = "validate"
  /\ UNCHANGED <<chainVars, cursor, start, failedComposes, svmFailed, head, loopVars>>
  /\ Elsewhere

-----------------------------------------------------------------------------
(* Delivering the packet in hand.                                          *)

Delivering == UNCHANGED <<left, head, batch, retrying, quiet, rounds>>

(* A delivery that did not throw counts, whatever became of it.            *)
Returned == pc' = "batch" /\ packet' = None /\ productive' = TRUE

(* validatePacket; on Solana init_verify too, if nobody ran it before.     *)
Validate ==
  /\ pc = "validate" /\ pc' = "receive"
  /\ verified' = verified \cup {packet}
  /\ UNCHANGED <<watching, log, received, queued, composed, memoryVars, packet, productive,
                 boundVars>>
  /\ Delivering

LzReceive ==
  /\ pc = "receive" /\ Executable(packet)
  /\ pc' = "composes"
  /\ received' = received \cup {packet}
  /\ queued' = IF packet \in Composed THEN queued \cup {packet} ELSE queued
  /\ UNCHANGED <<watching, log, verified, composed, memoryVars, packet, productive, boundVars>>
  /\ Delivering

(* A reverted lzReceive is only warned about on EVM; Solana throws.        *)
LzReceiveReverts ==
  /\ pc = "receive"
  /\ IF Executable(packet)
     THEN faults < MaxFaults /\ faults' = faults + 1
     ELSE UNCHANGED faults
  /\ pc' = "batch" /\ packet' = None
  /\ productive' = (productive \/ Route[packet].dst \in Evm)
  /\ UNCHANGED <<chainVars, memoryVars, reverts>>
  /\ Delivering

(* The composes the delivery queued are looked up.                         *)
FindComposes ==
  /\ pc = "composes"
  /\ IF packet \in queued
     THEN pc' = "compose" /\ UNCHANGED <<packet, productive>>
     ELSE Returned
  /\ UNCHANGED <<chainVars, memoryVars, boundVars>>
  /\ Delivering

(* A compose runs on the chain, and may send a packet of its own.          *)
Run(p) ==
  /\ queued' = queued \ {p}
  /\ composed' = composed \cup {p}
  /\ log' = Emitting(log, Reply[p])
  /\ UNCHANGED <<watching, verified, received>>

LzCompose ==
  /\ pc = "compose" /\ Run(packet) /\ Returned
  /\ UNCHANGED <<memoryVars, boundVars>>
  /\ Delivering

(* Mutant: a compose of a later delivery replaces the one kept.            *)
KeepLast(list, p) == <<p>>

Keep(list, p) == Append(list, p)

(* The compose reverts, stays queued at the endpoint, and is kept here.    *)
LzComposeReverts ==
  /\ pc = "compose" /\ reverts < MaxReverts
  /\ reverts' = reverts + 1
  /\ IF Route[packet].dst \in Evm
     THEN failedComposes' = Keep(failedComposes, packet) /\ UNCHANGED svmFailed
     ELSE svmFailed' = svmFailed \cup {packet} /\ UNCHANGED failedComposes
  /\ Returned
  /\ UNCHANGED <<chainVars, cursor, start, seen, faults>>
  /\ Delivering

-----------------------------------------------------------------------------
(* retryFailedComposes, by an operator between two ticks.                  *)

InTick == UNCHANGED <<cursor, start, seen, svmFailed, left, head, batch, packet,
                      loopVars>>

(* Mutant: the list is read and not emptied.                               *)
LeftInPlace(list) == list

(* splice(0): what stays in the list.                                      *)
Spliced(list) == <<>>

StartRetry ==
  /\ pc = "idle" /\ watching /\ failedComposes # <<>>
  /\ pc' = "retry"
  /\ retrying' = failedComposes /\ failedComposes' = Spliced(failedComposes)
  /\ UNCHANGED <<chainVars, boundVars>>
  /\ InTick

EndRetry ==
  /\ pc = "retry" /\ retrying = <<>> /\ pc' = "idle"
  /\ UNCHANGED <<chainVars, failedComposes, retrying, boundVars>>
  /\ InTick

RetrySucceeds ==
  /\ pc = "retry" /\ retrying # <<>>
  /\ Run(Head(retrying))
  /\ retrying' = Tail(retrying)
  /\ UNCHANGED <<pc, failedComposes, boundVars>>
  /\ InTick

RetryReverts ==
  /\ pc = "retry" /\ retrying # <<>> /\ reverts < MaxReverts
  /\ reverts' = reverts + 1
  /\ failedComposes' = Append(failedComposes, Head(retrying))
  /\ retrying' = Tail(retrying)
  /\ UNCHANGED <<chainVars, pc, faults>>
  /\ InTick

-----------------------------------------------------------------------------
(* An RPC call throws.                                                     *)

Throws == faults < MaxFaults /\ faults' = faults + 1 /\ UNCHANGED reverts

(* sendRaw, and send on Solana, submit and then wait: a transaction whose  *)
(* call throws may have run, Ran, or not.                                  *)
SendRawThrows(Ran) == Throws /\ (Ran \/ UNCHANGED chainVars)
SendThrows(Ran) == Throws /\ (Ran \/ UNCHANGED chainVars)

(* Reading the head, the logs or a signature's events: tick is abandoned.  *)
(* watch starts another; drain ends with the error.                        *)
ScanThrows ==
  /\ pc \in {"scan", "logs", "extract"} /\ left # <<>>
  /\ Throws
  /\ pc' = IF watching THEN "idle" ELSE "dead"
  /\ batch' = <<>> /\ left' = <<>>
  /\ UNCHANGED <<chainVars, memoryVars, head, packet, retrying, loopVars>>

(* What the transaction a delivery has sent does, if it runs.              *)
Delivered ==
  \/ /\ pc = "validate"
     /\ verified' = verified \cup {packet}
     /\ UNCHANGED <<watching, log, received, queued, composed>>
  \/ /\ pc = "receive" /\ Executable(packet)
     /\ received' = received \cup {packet}
     /\ queued' = IF packet \in Composed THEN queued \cup {packet} ELSE queued
     /\ UNCHANGED <<watching, log, verified, composed>>
  \/ pc = "compose" /\ Run(packet)

(***************************************************************************)
(* Inside a delivery the error is caught one level up: the packet, which   *)
(* the cursor has passed, is given up.  The transaction may have run.  A   *)
(* Solana compose is caught closer, and kept.                              *)
(***************************************************************************)
DeliveryThrows ==
  /\ pc \in {"validate", "receive", "composes", "compose"}
  /\ IF Route[packet].dst \in Evm THEN SendRawThrows(Delivered) ELSE SendThrows(Delivered)
  /\ IF pc = "compose" /\ Route[packet].dst \in Svm
     THEN svmFailed' = svmFailed \cup {packet} /\ Returned
     ELSE /\ UNCHANGED <<svmFailed, productive>>
          /\ pc' = "batch" /\ packet' = None
  /\ UNCHANGED <<cursor, start, seen, failedComposes>>
  /\ Delivering

(* In the loop of retryFailedComposes nothing catches it.                  *)
RetryThrows ==
  /\ pc = "retry" /\ retrying # <<>>
  /\ SendRawThrows(Run(Head(retrying)))
  /\ pc' = "idle" /\ retrying' = <<>>
  /\ UNCHANGED failedComposes
  /\ InTick

Stopped == pc \in {"done", "dead"} /\ UNCHANGED vars

Scanning == StartTick \/ EndTick \/ ReadHead \/ GetLogs \/ ScanOutbound \/ ExtractEvents

Executing ==
  NextPacket \/ Validate \/ LzReceive \/ LzReceiveReverts \/ FindComposes
  \/ LzCompose \/ LzComposeReverts

Retrying == EndRetry \/ RetrySucceeds \/ RetryReverts

Process == Scanning \/ Executing \/ Retrying

Failing == ScanThrows \/ DeliveryThrows \/ RetryThrows

Next ==
  \/ \E p \in Sent : SendPacket(p)
  \/ \E c \in Chains : SyncToHead(c)
  \/ Process
  \/ StartRetry
  \/ Failing
  \/ Stopped

Spec == Init /\ [][Next]_vars

(* The process runs on, and an operator retries from time to time.         *)
LiveSpec == Spec /\ WF_vars(Process) /\ SF_vars(StartRetry)

-----------------------------------------------------------------------------
TypeOK ==
  /\ log \in [Chains -> Seq(Packets)]
  /\ composed \subseteq received /\ queued \subseteq received
  /\ received \subseteq verified
  /\ seen \subseteq Packets
  /\ Range(failedComposes) \cup Range(retrying) \cup svmFailed \subseteq Composed
  /\ \A c \in Chains : cursor[c] \in start[c]..Len(log[c])
  /\ packet \in Packets \cup {None}
  /\ quiet \in 0..2 /\ rounds \in 0..MaxRounds

(***************************************************************************)
(* The cursor moves before the packets it passes are delivered, and the    *)
(* head may move between the two reads of a scan; still no EVM packet      *)
(* falls between two scans: one the cursor has passed has been taken up,   *)
(* or is in the batch in hand.                                             *)
(***************************************************************************)
NoneFallsBetweenScans ==
  \A c \in Evm : \A i \in 1..Len(log[c]) :
    start[c] < i /\ i <= cursor[c] => log[c][i] \in seen \cup Range(batch)

(***************************************************************************)
(* What is kept for a retry is a compose the endpoint still has queued,    *)
(* and is kept once: however calls fail, a retry never sends a compose     *)
(* that has run.                                                           *)
(***************************************************************************)
RetriesAreQueued ==
  LET kept == failedComposes \o retrying IN
  /\ Range(kept) \subseteq queued
  /\ Cardinality(Range(kept)) = Len(kept)

(* Packets the relayer is to deliver: sent after syncToHead, as were all   *)
(* before it on its path, for without those no endpoint executes it.       *)
Watched(p) ==
  LET l == log[Route[p].src]
      skipped == {l[i] : i \in 1..start[Route[p].src]}
  IN  pc # "start" /\ p \in Range(l) /\ (Before(p) \cup {p}) \cap skipped = {}

(***************************************************************************)
(* A watch in which no call throws delivers every packet: it is received,  *)
(* and its compose runs even if it first reverts and an operator has to    *)
(* retry it (on Solana, is kept for one); so do the packets those composes *)
(* send.                                                                   *)
(***************************************************************************)
EveryPacketArrives ==
  \A p \in Packets :
    (watching /\ Watched(p))
      ~> \/ faults > 0
         \/ p \in received /\ (p \in Composed => p \in composed \cup svmFailed)

=============================================================================
