--------------------------- MODULE RelayerProofs ---------------------------
(***************************************************************************)
(* No packet falls between two scans of the relayer, and what it keeps to  *)
(* retry is still queued at the endpoint, for any chains, packets and      *)
(* routes, any number of calls that throw and composes that revert.        *)
(***************************************************************************)
EXTENDS Relayer, FiniteSetTheorems, SequenceTheorems, TLAPS

Kept == failedComposes \o retrying

(* A packet is being delivered; packets of a scan are in hand.             *)
InHand == {"validate", "receive", "composes", "compose"}
InBatch == InHand \cup {"extract", "batch"}

RelayTypes ==
  /\ log \in [Chains -> Seq(Packets)]
  /\ received \subseteq Packets /\ queued \subseteq Packets
  /\ cursor \in [Chains -> Nat] /\ start \in [Chains -> Nat]
  /\ failedComposes \in Seq(Packets) /\ retrying \in Seq(Packets)
  /\ batch \in Seq(Packets) /\ left \in Seq(Chains) /\ head \in Nat
  /\ pc \in InBatch \cup {"start", "idle", "scan", "logs", "retry", "done", "dead"}

(* What the process has in hand is what the place it is at needs.          *)
Located ==
  /\ pc # "retry" => retrying = <<>>
  /\ pc \notin InBatch => batch = <<>>
  /\ pc \in InHand => packet \in Packets
  /\ pc \in InBatch \cup {"logs"} => left # <<>>
  /\ pc = "logs" => /\ Head(left) \in Evm
                    /\ cursor[Head(left)] <= head
                    /\ head <= Len(log[Head(left)])
  /\ pc = "extract" => Head(left) \in Svm
  /\ \A c \in Evm : cursor[c] <= Len(log[c])

(* Before the events of a Solana scan are read, what EVM scans passed has  *)
(* been taken up: nothing of theirs is in hand to be lost.                 *)
TakenUp ==
  pc = "extract" =>
    \A c \in Evm : \A i \in 1..Len(log[c]) :
      start[c] < i /\ i <= cursor[c] => log[c][i] \in seen

ScanInv == RelayTypes /\ Located /\ TakenUp /\ NoneFallsBetweenScans

(* The compose in hand was received just now, so it was never kept.        *)
ComposeInHand ==
  /\ pc \in {"composes", "compose"} => packet \in received /\ packet \notin Range(Kept)
  /\ pc = "compose" => packet \in queued

RetryInv ==
  /\ RelayTypes /\ Located
  /\ queued \subseteq received
  /\ IsInjective(Kept) /\ Range(Kept) \subseteq queued
  /\ ComposeInHand

-----------------------------------------------------------------------------
(* Lists.                                                                  *)

LEMMA TailOfKept ==
  ASSUME NEW S, NEW s \in Seq(S), NEW t \in Seq(S), t # <<>>, IsInjective(s \o t)
  PROVE  /\ IsInjective(s \o Tail(t)) /\ Range(s \o Tail(t)) \subseteq Range(s \o t) \ {Head(t)}
         /\ IsInjective(s) /\ Range(s) \subseteq Range(s \o t) \ {Head(t)}
<1> DEFINE st == s \o t
           u == s \o Tail(t)
           n == Len(s)
<1>1. /\ st \in Seq(S) /\ Len(st) = n + Len(t)
      /\ \A i \in 1..(n + Len(t)) : st[i] = IF i <= n THEN s[i] ELSE t[i - n]
  BY ConcatProperties
<1>2. /\ Tail(t) \in Seq(S) /\ Len(Tail(t)) = Len(t) - 1 /\ Len(t) \in Nat \ {0}
      /\ \A i \in 1..Len(Tail(t)) : Tail(t)[i] = t[i + 1]
      /\ Head(t) = t[1]
  BY HeadTailProperties, EmptySeq
<1>3. /\ u \in Seq(S) /\ Len(u) = n + Len(t) - 1
      /\ \A i \in 1..(n + Len(t) - 1) : u[i] = IF i <= n THEN s[i] ELSE Tail(t)[i - n]
  BY <1>2, ConcatProperties
<1>4. n \in Nat /\ DOMAIN s = 1..n /\ DOMAIN st = 1..(n + Len(t))
      /\ DOMAIN u = 1..(n + Len(t) - 1)
  BY <1>1, <1>3
<1> HIDE DEF st, u
<1>5. \A i \in 1..n : s[i] = st[i]
  BY <1>1, <1>2, <1>4
<1>6. \A i \in 1..(n + Len(t) - 1) : u[i] = IF i <= n THEN st[i] ELSE st[i + 1]
  BY <1>1, <1>2, <1>3, <1>4
<1>7. Head(t) = st[n + 1]
  <2>1. n + 1 \in 1..(n + Len(t)) /\ ~(n + 1 <= n) /\ (n + 1) - n = 1
    BY <1>2, <1>4
  <2>2. st[n + 1] = t[(n + 1) - n]
    BY <1>1, <2>1
  <2> QED
    BY <1>2, <2>1, <2>2
<1>8. \A i, j \in 1..(n + Len(t)) : st[i] = st[j] => i = j
  BY <1>4 DEF IsInjective, st
<1>9. IsInjective(s) /\ IsInjective(u)
  <2>1. \A i, j \in 1..n : s[i] = s[j] => i = j
    BY <1>2, <1>4, <1>5, <1>8
  <2>2. \A i, j \in 1..(n + Len(t) - 1) : u[i] = u[j] => i = j
    BY <1>2, <1>4, <1>6, <1>8
  <2> QED
    BY <1>4, <2>1, <2>2 DEF IsInjective
<1>10. Range(s) \subseteq Range(st) \ {Head(t)}
  BY <1>2, <1>4, <1>5, <1>7, <1>8 DEF Range
<1>11. Range(u) \subseteq Range(st) \ {Head(t)}
  BY <1>2, <1>4, <1>6, <1>7, <1>8 DEF Range
<1> QED
  BY <1>9, <1>10, <1>11 DEF st, u

LEMMA HeadMoves ==
  ASSUME NEW S, NEW s \in Seq(S), NEW t \in Seq(S), t # <<>>
  PROVE  Append(s, Head(t)) \o Tail(t) = s \o t
<1> DEFINE a == Append(s, Head(t))
           n == Len(s)
<1>1. /\ Tail(t) \in Seq(S) /\ Len(Tail(t)) = Len(t) - 1 /\ Len(t) \in Nat \ {0}
      /\ \A i \in 1..Len(Tail(t)) : Tail(t)[i] = t[i + 1]
      /\ Head(t) = t[1] /\ Head(t) \in S
  BY HeadTailProperties, EmptySeq
<1>2. /\ a \in Seq(S) /\ Len(a) = n + 1 /\ n \in Nat
      /\ \A i \in 1..n : a[i] = s[i]
      /\ a[n + 1] = Head(t)
  BY <1>1, AppendProperties
<1> HIDE DEF a
<1>3. /\ a \o Tail(t) \in Seq(S) /\ Len(a \o Tail(t)) = n + Len(t)
      /\ \A i \in 1..(n + Len(t)) :
           (a \o Tail(t))[i] = IF i <= n + 1 THEN a[i] ELSE Tail(t)[i - (n + 1)]
  <2>1. Len(a) + Len(Tail(t)) = n + Len(t)
    BY <1>1, <1>2
  <2>2. /\ a \o Tail(t) \in Seq(S) /\ Len(a \o Tail(t)) = Len(a) + Len(Tail(t))
        /\ \A i \in 1..(Len(a) + Len(Tail(t))) :
             (a \o Tail(t))[i] = IF i <= Len(a) THEN a[i] ELSE Tail(t)[i - Len(a)]
    BY <1>1, <1>2, ConcatProperties
  <2> QED
    BY <1>2, <2>1, <2>2
<1>4. /\ s \o t \in Seq(S) /\ Len(s \o t) = n + Len(t)
      /\ \A i \in 1..(n + Len(t)) : (s \o t)[i] = IF i <= n THEN s[i] ELSE t[i - n]
  BY ConcatProperties
<1>5. \A i \in 1..(n + Len(t)) : (a \o Tail(t))[i] = (s \o t)[i]
  BY <1>1, <1>2, <1>3, <1>4
<1> QED
  BY <1>3, <1>4, <1>5, SeqEqual DEF a

LEMMA KeepsOneMore ==
  ASSUME NEW S, NEW s \in Seq(S), NEW x \in S, IsInjective(s), x \notin Range(s)
  PROVE  IsInjective(Append(s, x)) /\ Range(Append(s, x)) = Range(s) \cup {x}
<1>1. /\ Append(s, x) \in Seq(S) /\ Len(Append(s, x)) = Len(s) + 1 /\ Len(s) \in Nat
      /\ \A i \in 1..Len(s) : Append(s, x)[i] = s[i]
      /\ Append(s, x)[Len(s) + 1] = x
  BY AppendProperties
<1>2. DOMAIN s = 1..Len(s) /\ DOMAIN Append(s, x) = 1..(Len(s) + 1)
  BY <1>1
<1>3. Range(Append(s, x)) = Range(s) \cup {x}
  BY <1>1, <1>2 DEF Range
<1>4. IsInjective(Append(s, x))
  BY <1>1, <1>2 DEF IsInjective, Range
<1> QED
  BY <1>3, <1>4

(* A list without repetition is as long as what is in it.                  *)
LEMMA CountedOnce ==
  ASSUME NEW S, NEW s \in Seq(S), IsInjective(s)
  PROVE  Cardinality(Range(s)) = Len(s)
<1>1. s \in [1..Len(s) -> Range(s)] /\ Len(s) \in Nat
  BY DEF Range
<1>2. s \in Bijection(1..Len(s), Range(s))
  BY <1>1 DEF Bijection, Injection, Surjection, Range
<1> QED
  BY <1>1, <1>2, FS_CountingElements DEF ExistsBijection

(* A log only grows.                                                       *)
LEMMA EmittingGrows ==
  ASSUME RelayerAssumption, RelayTypes, NEW p \in Packets \cup {None}
  PROVE  /\ Emitting(log, p) \in [Chains -> Seq(Packets)]
         /\ \A c \in Chains :
              /\ Len(Emitting(log, p)[c]) >= Len(log[c])
              /\ \A i \in 1..Len(log[c]) : Emitting(log, p)[c][i] = log[c][i]
<1>1. CASE p = None
  BY <1>1 DEF Emitting, RelayTypes
<1>2. CASE p # None
  <2> DEFINE s == Route[p].src
  <2>1. p \in Packets /\ s \in Chains
    BY <1>2 DEF RelayerAssumption
  <2>2. log \in [Chains -> Seq(Packets)] /\ log[s] \in Seq(Packets)
    BY <2>1 DEF RelayTypes
  <2>3. /\ Append(log[s], p) \in Seq(Packets)
        /\ Len(Append(log[s], p)) = Len(log[s]) + 1 /\ Len(log[s]) \in Nat
        /\ \A i \in 1..Len(log[s]) : Append(log[s], p)[i] = log[s][i]
    BY <2>1, <2>2, AppendProperties
  <2>4. Emitting(log, p) = [log EXCEPT ![s] = Append(log[s], p)]
    BY <1>2 DEF Emitting
  <2>5. ASSUME NEW c \in Chains
        PROVE  /\ Len(Emitting(log, p)[c]) >= Len(log[c])
               /\ \A i \in 1..Len(log[c]) : Emitting(log, p)[c][i] = log[c][i]
    <3>1. Len(log[c]) \in Nat
      BY <2>2
    <3>2. CASE c = s
      BY <2>1, <2>2, <2>3, <2>4, <3>2
    <3>3. CASE c # s
      BY <2>2, <2>4, <3>1, <3>3
    <3> QED BY <3>2, <3>3
  <2> QED
    BY <2>1, <2>2, <2>3, <2>4, <2>5
<1> QED
  BY <1>1, <1>2

-----------------------------------------------------------------------------
(* Types, and what is in hand.                                             *)

LEMMA StartsLocated ==
  ASSUME RelayerAssumption, Init
  PROVE  RelayTypes /\ Located
<1>1. \A c \in Chains : log[c] = <<>> /\ cursor[c] = 0
  BY DEF Init
<1>2. RelayTypes
  BY EmptySeq DEF Init, RelayTypes
<1>3. Located
  BY <1>1 DEF Init, Located, InHand, InBatch, Chains
<1> QED BY <1>2, <1>3

(* The log of a step, whoever takes it.                                    *)
LogGrows ==
  /\ log' \in [Chains -> Seq(Packets)]
  /\ \A c \in Chains :
       /\ Len(log'[c]) >= Len(log[c])
       /\ \A i \in 1..Len(log[c]) : log'[c][i] = log[c][i]

LEMMA StillTheSame ==
  ASSUME RelayTypes, UNCHANGED log
  PROVE  LogGrows
<1>1. \A c \in Chains : Len(log[c]) \in Nat
  BY DEF RelayTypes
<1> QED
  BY <1>1 DEF LogGrows, RelayTypes

LEMMA RunGrows ==
  ASSUME RelayerAssumption, RelayTypes, NEW p \in Packets, Run(p)
  PROVE  LogGrows
<1>1. Reply[p] \in Packets \cup {None}
  BY DEF RelayerAssumption
<1>2. log' = Emitting(log, Reply[p])
  BY DEF Run
<1>3. PICK q \in Packets \cup {None} : log' = Emitting(log, q)
  BY <1>1, <1>2
<1>4. /\ Emitting(log, q) \in [Chains -> Seq(Packets)]
      /\ \A c \in Chains :
           /\ Len(Emitting(log, q)[c]) >= Len(log[c])
           /\ \A i \in 1..Len(log[c]) : Emitting(log, q)[c][i] = log[c][i]
  BY EmittingGrows
<1> QED
  BY <1>3, <1>4 DEF LogGrows

LEMMA StepGrows ==
  ASSUME RelayerAssumption, RelayTypes, Located, [Next]_vars
  PROVE  LogGrows
<1>1. CASE UNCHANGED vars
  BY <1>1, StillTheSame DEF vars, chainVars
<1>2. ASSUME NEW p \in Sent, SendPacket(p) PROVE LogGrows
  <2>1. p \in Packets \cup {None}
    BY DEF RelayerAssumption
  <2>2. log' = Emitting(log, p)
    BY <1>2 DEF SendPacket
  <2> QED
    BY <2>1, <2>2, EmittingGrows DEF LogGrows
<1>3. CASE \E c \in Chains : SyncToHead(c)
  BY <1>3, StillTheSame DEF SyncToHead, chainVars
<1>4. CASE Scanning
  BY <1>4, StillTheSame DEF Scanning, StartTick, EndTick, ReadHead, GetLogs, ScanOutbound,
     ExtractEvents, chainVars
<1>5. CASE Executing
  <2>1. CASE LzCompose
    BY <2>1, RunGrows DEF LzCompose, Located, InHand
  <2>2. CASE ~LzCompose
    BY <1>5, <2>2, StillTheSame DEF Executing, NextPacket, Validate, LzReceive,
       LzReceiveReverts, FindComposes, LzComposeReverts, chainVars
  <2> QED BY <2>1, <2>2
<1>6. CASE Retrying
  <2>1. CASE RetrySucceeds
    <3>1. Head(retrying) \in Packets
      BY <2>1, HeadTailProperties DEF RetrySucceeds, RelayTypes
    <3> QED
      BY <2>1, <3>1, RunGrows DEF RetrySucceeds
  <2>2. CASE ~RetrySucceeds
    BY <1>6, <2>2, StillTheSame DEF Retrying, EndRetry, RetryReverts, chainVars
  <2> QED BY <2>1, <2>2
<1>7. CASE StartRetry
  BY <1>7, StillTheSame DEF StartRetry, chainVars
<1>8. CASE Failing
  <2>1. CASE ScanThrows
    BY <2>1, StillTheSame DEF ScanThrows, chainVars
  <2>2. CASE DeliveryThrows
    <3>1. packet \in Packets
      BY <2>2 DEF DeliveryThrows, Located, InHand
    <3>2. CASE Run(packet)
      BY <3>1, <3>2, RunGrows
    <3>3. CASE ~Run(packet)
      BY <2>2, <3>3, StillTheSame DEF DeliveryThrows, SendRawThrows, SendThrows, Delivered, chainVars
    <3> QED BY <3>2, <3>3
  <2>3. CASE RetryThrows
    <3>1. Head(retrying) \in Packets
      BY <2>3, HeadTailProperties DEF RetryThrows, RelayTypes
    <3> QED
      BY <2>3, <3>1, RunGrows, StillTheSame DEF RetryThrows, SendRawThrows, chainVars
  <2> QED
    BY <1>8, <2>1, <2>2, <2>3 DEF Failing
<1>9. CASE Stopped
  BY <1>1, <1>9 DEF Stopped
<1> QED
  BY <1>1, <1>2, <1>3, <1>4, <1>5, <1>6, <1>7, <1>8, <1>9 DEF Next, Process

(* EVM cursors, where a step leaves them, are not past the log.            *)
LEMMA CursorsBehind ==
  ASSUME RelayTypes, LogGrows, UNCHANGED cursor, \A c \in Evm : cursor[c] <= Len(log[c])
  PROVE  \A c \in Evm : cursor'[c] <= Len(log'[c])
<1>1. \A c \in Evm : Len(log[c]) \in Nat /\ Len(log'[c]) \in Nat /\ cursor[c] \in Nat
  BY DEF RelayTypes, LogGrows, Chains
<1> QED
  BY <1>1 DEF LogGrows, Chains

LEMMA StaysLocated ==
  ASSUME RelayerAssumption, RelayTypes, Located, [Next]_vars
  PROVE  RelayTypes' /\ Located'
<1>1. LogGrows
  BY StepGrows
<1>2. \A c \in Chains : Len(log[c]) \in Nat /\ Len(log'[c]) \in Nat /\ cursor[c] \in Nat
  BY <1>1 DEF RelayTypes, LogGrows
<1>3. UNCHANGED cursor => \A c \in Evm : cursor'[c] <= Len(log'[c])
  BY <1>1, CursorsBehind DEF Located
<1>4. CASE UNCHANGED vars
  BY <1>4 DEF vars, chainVars, memoryVars, RelayTypes, Located, InHand, InBatch
<1>5. ASSUME NEW p \in Sent, SendPacket(p) PROVE RelayTypes' /\ Located'
  <2>1. RelayTypes'
    BY <1>1, <1>5 DEF SendPacket, RelayTypes, LogGrows, memoryVars
  <2>2. pc = "logs" => head <= Len(log'[Head(left)])
    <3> SUFFICES ASSUME pc = "logs" PROVE head <= Len(log'[Head(left)])
      OBVIOUS
    <3>1. Head(left) \in Chains /\ head \in Nat /\ head <= Len(log[Head(left)])
      BY DEF Located, RelayTypes, Chains
    <3> QED
      BY <1>1, <1>2, <3>1 DEF LogGrows
  <2>3. Located'
    BY <1>3, <1>5, <2>2 DEF SendPacket, Located, memoryVars, InHand, InBatch
  <2> QED BY <2>1, <2>3
<1>6. ASSUME NEW c \in Chains, SyncToHead(c) PROVE RelayTypes' /\ Located'
  <2>1. RelayTypes'
    BY <1>2, <1>6 DEF SyncToHead, RelayTypes, Newest, chainVars, Elsewhere
  <2>2. \A k \in Evm : cursor'[k] <= Len(log'[k])
    BY <1>2, <1>6 DEF SyncToHead, Newest, chainVars, Located, RelayTypes, Chains
  <2> QED
    BY <1>6, <2>1, <2>2 DEF SyncToHead, Located, Elsewhere, InHand, InBatch
<1>7. CASE StartTick
  BY <1>3, <1>7 DEF StartTick, RelayTypes, Located, InHand, InBatch, chainVars, memoryVars,
     Elsewhere, RelayerAssumption
<1>8. CASE EndTick
  BY <1>3, <1>8 DEF EndTick, RelayTypes, Located, InHand, InBatch, chainVars, memoryVars, Elsewhere
<1>9. CASE ReadHead
  <2>1. Head(left) \in Chains /\ Tail(left) \in Seq(Chains)
    BY <1>9, HeadTailProperties DEF ReadHead, RelayTypes
  <2>2. RelayTypes'
    BY <1>2, <1>9, <2>1 DEF ReadHead, RelayTypes, Visited, chainVars, memoryVars, Elsewhere, InHand, InBatch
  <2>3. Located'
    BY <1>2, <1>3, <1>9, <2>1 DEF ReadHead, Located, Visited, chainVars, memoryVars, Elsewhere,
       InHand, InBatch
  <2> QED BY <2>2, <2>3
<1>10. CASE GetLogs
  <2>1. /\ Head(left) \in Evm /\ Head(left) \in Chains /\ head \in Nat
        /\ cursor[Head(left)] \in Nat /\ head <= Len(log[Head(left)])
    BY <1>10 DEF GetLogs, Located, RelayTypes, Chains
  <2>2. batch' \in Seq(Packets)
    <3>1. log[Head(left)] \in Seq(Packets)
      BY <2>1 DEF RelayTypes
    <3>2. \A i \in (cursor[Head(left)] + 1)..head : log[Head(left)][i] \in Packets
      BY <1>2, <2>1, <3>1
    <3> QED
      BY <1>10, <2>1, <3>2, SubSeqProperties DEF GetLogs
  <2>3. RelayTypes'
    BY <1>10, <2>1, <2>2 DEF GetLogs, RelayTypes, Passed, chainVars, InHand, InBatch, Elsewhere
  <2>4. \A k \in Evm : cursor'[k] <= Len(log'[k])
    BY <1>2, <1>10, <2>1 DEF GetLogs, Passed, chainVars, Located, RelayTypes, Chains
  <2> QED
    BY <1>10, <2>3, <2>4 DEF GetLogs, Located, Elsewhere, InHand, InBatch
<1>11. CASE ScanOutbound
  <2> DEFINE k == Head(left)
             n == Len(log[k])
             from == IF n - cursor[k] > SignatureLimit THEN n - SignatureLimit ELSE cursor[k]
  <2>1. k \in Svm /\ k \in Chains /\ n \in Nat /\ cursor[k] \in Nat
    BY <1>2, <1>11 DEF ScanOutbound, Chains
  <2>2. SignatureLimit \in Nat
    BY DEF RelayerAssumption
  <2>3. from \in Nat
    BY <2>1, <2>2
  <2>4. batch' \in Seq(Packets)
    <3>1. log[k] \in Seq(Packets)
      BY <2>1 DEF RelayTypes
    <3>2. \A i \in (from + 1)..n : log[k][i] \in Packets
      BY <2>1, <2>3, <3>1, SMTT(20)
    <3>3. SubSeq(log[k], from + 1, n) \in Seq(Packets)
      BY <2>1, <2>3, <3>2, SubSeqProperties
    <3> QED
      BY <1>11, <3>3 DEF ScanOutbound
  <2>5. RelayTypes'
    BY <1>11, <2>1, <2>4 DEF ScanOutbound, RelayTypes, chainVars, InBatch, Elsewhere
  <2>6. \A c \in Evm : cursor'[c] <= Len(log'[c])
    BY <1>11, <2>1 DEF ScanOutbound, chainVars, Located, RelayTypes, Chains, RelayerAssumption
  <2> QED
    BY <1>11, <2>1, <2>5, <2>6 DEF ScanOutbound, Located, Elsewhere, InHand, InBatch
<1>12. CASE ExtractEvents
  BY <1>3, <1>12 DEF ExtractEvents, RelayTypes, Located, InHand, InBatch, chainVars, memoryVars, Elsewhere
<1>13. CASE NextPacket
  <2>1. batch # <<>> => Head(batch) \in Packets /\ Tail(batch) \in Seq(Packets)
    BY HeadTailProperties DEF RelayTypes
  <2>2. left' \in Seq(Chains)
    <3>1. left # <<>> /\ Tail(left) \in Seq(Chains) /\ left \in Seq(Chains)
      BY <1>13, HeadTailProperties DEF RelayTypes, NextPacket, Located, InBatch
    <3> QED BY <1>13, <3>1 DEF NextPacket, Visited
  <2>3. RelayTypes'
    BY <1>13, <2>1, <2>2 DEF NextPacket, RelayTypes, chainVars, Elsewhere, InHand, InBatch
  <2>4. Located'
    BY <1>3, <1>13, <2>1 DEF NextPacket, Located, chainVars, Elsewhere, InHand, InBatch
  <2> QED BY <2>3, <2>4
<1>14. CASE Executing /\ ~NextPacket
  <2>1. packet \in Packets /\ left # <<>> /\ left \in Seq(Chains)
    BY <1>14 DEF Executing, Validate, LzReceive, LzReceiveReverts, FindComposes, LzCompose,
       LzComposeReverts, Located, InHand, InBatch, RelayTypes
  <2>2. log' \in [Chains -> Seq(Packets)]
    BY <1>1 DEF LogGrows
  <2>3. /\ received' \subseteq Packets /\ queued' \subseteq Packets
        /\ UNCHANGED <<cursor, start, left, head, batch, retrying>>
    BY <1>14, <2>1 DEF Executing, Validate, LzReceive, LzReceiveReverts, FindComposes, LzCompose,
       LzComposeReverts, Run, RelayTypes, chainVars, memoryVars, Delivering
  <2>4. failedComposes' \in Seq(Packets)
    <3>1. Append(failedComposes, packet) \in Seq(Packets)
      BY <2>1, AppendProperties DEF RelayTypes
    <3> QED
      BY <1>14, <3>1 DEF Executing, Validate, LzReceive, LzReceiveReverts, FindComposes, LzCompose,
         LzComposeReverts, Keep, RelayTypes, memoryVars
  <2>5. /\ pc' \in {"batch", "receive", "composes", "compose"}
        /\ pc' \in InHand => UNCHANGED packet
        /\ pc \in InHand
    BY <1>14 DEF Executing, Validate, LzReceive, LzReceiveReverts, FindComposes, LzCompose,
         LzComposeReverts, Returned, InHand
  <2>6. RelayTypes'
    BY <2>2, <2>3, <2>4, <2>5 DEF RelayTypes, InHand, InBatch
  <2>7. Located'
    BY <1>3, <2>1, <2>3, <2>5 DEF Located, InHand, InBatch
  <2> QED BY <2>6, <2>7
<1>15. CASE StartRetry
  <2>1. /\ failedComposes' = <<>> /\ retrying' = failedComposes
        /\ pc = "idle" /\ pc' = "retry"
        /\ UNCHANGED <<log, received, queued, cursor, start, batch, left, head, packet>>
    BY <1>15 DEF StartRetry, Spliced, chainVars, InTick
  <2>2. failedComposes' \in Seq(Packets) /\ retrying' \in Seq(Packets)
    BY <2>1, EmptySeq DEF RelayTypes
  <2>3. RelayTypes'
    BY <2>1, <2>2 DEF RelayTypes
  <2>4. batch = <<>>
    BY <2>1 DEF Located, InHand, InBatch
  <2>5. \A c \in Evm : cursor'[c] <= Len(log'[c])
    BY <2>1 DEF Located
  <2>6. pc' \notin InBatch \cup {"logs", "extract"} /\ pc' \notin InHand
    BY <2>1 DEF InHand, InBatch
  <2>7. batch' = <<>>
    BY <2>1, <2>4
  <2>8. Located'
    BY <2>1, <2>5, <2>6, <2>7 DEF Located
  <2> QED
    BY <2>3, <2>8
<1>16. CASE Retrying \/ RetryThrows
  <2>1. retrying # <<>> => Head(retrying) \in Packets /\ Tail(retrying) \in Seq(Packets)
    BY HeadTailProperties DEF RelayTypes
  <2>2. retrying # <<>> => Append(failedComposes, Head(retrying)) \in Seq(Packets)
    BY <2>1, AppendProperties DEF RelayTypes
  <2>3. /\ failedComposes' \in Seq(Packets) /\ retrying' \in Seq(Packets)
        /\ received' \subseteq Packets /\ queued' \subseteq Packets
        /\ UNCHANGED <<cursor, start, left, head, batch>>
    <3>1. UNCHANGED <<cursor, start, left, head, batch>>
      BY <1>16 DEF Retrying, EndRetry, RetrySucceeds, RetryReverts, RetryThrows, InTick
    <3>2. received' = received /\ queued' \subseteq queued
      BY <1>16 DEF Retrying, EndRetry, RetrySucceeds, RetryReverts, RetryThrows, SendRawThrows, Run,
         chainVars
    <3>3. \/ UNCHANGED <<failedComposes, retrying>>
          \/ retrying # <<>> /\ retrying' = Tail(retrying)
             /\ failedComposes' \in {failedComposes, Append(failedComposes, Head(retrying))}
          \/ failedComposes' = failedComposes /\ retrying' = <<>>
      BY <1>16 DEF Retrying, EndRetry, RetrySucceeds, RetryReverts, RetryThrows
    <3>4. failedComposes \in Seq(Packets) /\ retrying \in Seq(Packets)
      BY DEF RelayTypes
    <3>5. CASE UNCHANGED <<failedComposes, retrying>>
      BY <3>1, <3>2, <3>4, <3>5 DEF RelayTypes
    <3>6. CASE failedComposes' = failedComposes /\ retrying' = <<>>
      BY <3>1, <3>2, <3>4, <3>6, EmptySeq DEF RelayTypes
    <3>7. CASE /\ retrying # <<>> /\ retrying' = Tail(retrying)
               /\ failedComposes' \in {failedComposes, Append(failedComposes, Head(retrying))}
      <4>1. failedComposes' \in Seq(Packets) /\ retrying' \in Seq(Packets)
        BY <2>1, <2>2, <3>4, <3>7
      <4> QED
        BY <3>1, <3>2, <4>1 DEF RelayTypes
    <3> QED
      BY <3>3, <3>5, <3>6, <3>7
  <2>4. /\ pc = "retry" /\ pc' \in {"retry", "idle"}
        /\ pc' = "idle" => retrying' = <<>>
    BY <1>16 DEF Retrying, EndRetry, RetrySucceeds, RetryReverts, RetryThrows
  <2>5. RelayTypes'
    BY <1>1, <2>3, <2>4 DEF RelayTypes, LogGrows
  <2>6. Located'
    BY <1>3, <2>3, <2>4 DEF Located, InHand, InBatch
  <2> QED BY <2>5, <2>6
<1>17. CASE ScanThrows
  <2>1. RelayTypes'
    BY <1>17, EmptySeq DEF ScanThrows, RelayTypes, chainVars, memoryVars, InBatch
  <2>2. Located'
    BY <1>3, <1>17 DEF ScanThrows, Located, memoryVars, InHand, InBatch
  <2> QED BY <2>1, <2>2
<1>18. CASE DeliveryThrows
  <2>1. packet \in Packets /\ left # <<>> /\ pc \in InHand
    BY <1>18 DEF DeliveryThrows, Located, InHand, InBatch
  <2>2. received' \subseteq Packets /\ queued' \subseteq Packets
    BY <1>18, <2>1 DEF DeliveryThrows, SendRawThrows, SendThrows, Delivered, Run, RelayTypes, chainVars
  <2>3. /\ UNCHANGED <<cursor, start, left, head, batch, retrying, failedComposes>>
        /\ pc' = "batch"
    BY <1>18 DEF DeliveryThrows, Returned, Delivering
  <2>4. RelayTypes'
    BY <1>1, <2>2, <2>3 DEF RelayTypes, LogGrows, InBatch
  <2>5. Located'
    BY <1>3, <2>1, <2>3 DEF Located, InHand, InBatch
  <2> QED BY <2>4, <2>5
<1>19. CASE Stopped
  BY <1>4, <1>19 DEF Stopped
<1> QED
  BY <1>4, <1>5, <1>6, <1>7, <1>8, <1>9, <1>10, <1>11, <1>12, <1>13, <1>14, <1>15, <1>16, <1>17,
     <1>18, <1>19 DEF Next, Process, Scanning, Failing

-----------------------------------------------------------------------------
(* Between two scans.                                                      *)

(* What EVM scans have passed and nobody took up before the batch in hand. *)
Passing(c, i) == start[c] < i /\ i <= cursor[c]

(* A step that moves no EVM cursor passes nothing new.                     *)
LEMMA PassesNothing ==
  ASSUME RelayTypes, Located, LogGrows,
         \A c \in Evm : cursor'[c] = cursor[c] /\ start'[c] = start[c],
         NEW c \in Evm, NEW i \in 1..Len(log'[c]), Passing(c, i)'
  PROVE  i \in 1..Len(log[c]) /\ Passing(c, i) /\ log'[c][i] = log[c][i]
<1>1. c \in Chains
  BY DEF Chains
<1>2. Len(log[c]) \in Nat /\ Len(log'[c]) \in Nat /\ cursor[c] \in Nat
  BY <1>1 DEF RelayTypes, LogGrows
<1>3. cursor[c] <= Len(log[c])
  BY DEF Located
<1> QED
  BY <1>1, <1>2, <1>3 DEF LogGrows, Passing

(* So what was taken up or in hand has to be so after it.                  *)
LEMMA NothingFalls ==
  ASSUME RelayTypes, Located, NoneFallsBetweenScans, LogGrows,
         \A c \in Evm : cursor'[c] = cursor[c] /\ start'[c] = start[c],
         seen \cup Range(batch) \subseteq seen' \cup Range(batch')
  PROVE  NoneFallsBetweenScans'
<1> SUFFICES ASSUME NEW c \in Evm, NEW i \in 1..Len(log'[c]), Passing(c, i)'
             PROVE  log'[c][i] \in seen' \cup Range(batch')
  BY DEF NoneFallsBetweenScans, Passing
<1>1. i \in 1..Len(log[c]) /\ Passing(c, i) /\ log'[c][i] = log[c][i]
  BY PassesNothing
<1> QED
  BY <1>1 DEF NoneFallsBetweenScans, Passing

LEMMA EmptyRange ==
  Range(<<>>) = {}
BY DEF Range

LEMMA PartInRange ==
  ASSUME NEW S, NEW s \in Seq(S), NEW m \in Nat, NEW n \in Nat, n <= Len(s),
         NEW i \in (m + 1)..n
  PROVE  s[i] \in Range(SubSeq(s, m + 1, n))
<1> DEFINE part == SubSeq(s, m + 1, n)
<1>1. \A j \in (m + 1)..n : s[j] \in S
  BY LenProperties
<1>2. /\ part \in Seq(S)
      /\ Len(part) = IF m + 1 <= n THEN n - (m + 1) + 1 ELSE 0
      /\ \A j \in 1..(n - (m + 1) + 1) : part[j] = s[(m + 1) + j - 1]
  BY <1>1, SubSeqProperties
<1> HIDE DEF part
<1>3. i - m \in 1..(n - (m + 1) + 1) /\ (m + 1) + (i - m) - 1 = i
  OBVIOUS
<1>4. part[i - m] = s[i]
  BY <1>2, <1>3
<1>5. i - m \in DOMAIN part
  BY <1>2, <1>3
<1> QED
  BY <1>4, <1>5 DEF Range, part

LEMMA HeadAndTail ==
  ASSUME NEW S, NEW s \in Seq(S), s # <<>>
  PROVE  Range(s) = {Head(s)} \cup Range(Tail(s))
<1>1. /\ Tail(s) \in Seq(S) /\ Len(Tail(s)) = Len(s) - 1 /\ Len(s) \in Nat \ {0}
      /\ \A i \in 1..Len(Tail(s)) : Tail(s)[i] = s[i + 1]
      /\ Head(s) = s[1]
  BY HeadTailProperties, EmptySeq
<1>2. DOMAIN s = 1..Len(s) /\ DOMAIN Tail(s) = 1..(Len(s) - 1)
  BY <1>1
<1>3. Range(s) \subseteq {Head(s)} \cup Range(Tail(s))
  <2> SUFFICES ASSUME NEW i \in 1..Len(s) PROVE s[i] \in {Head(s)} \cup Range(Tail(s))
    BY <1>2 DEF Range
  <2>1. CASE i = 1
    BY <1>1, <2>1
  <2>2. CASE i # 1
    <3>1. i - 1 \in 1..(Len(s) - 1) /\ (i - 1) + 1 = i
      BY <1>1, <2>2
    <3>2. Tail(s)[i - 1] = s[i]
      BY <1>1, <3>1
    <3> QED
      BY <1>2, <3>1, <3>2 DEF Range
  <2> QED BY <2>1, <2>2
<1>4. {Head(s)} \cup Range(Tail(s)) \subseteq Range(s)
  <2>1. \A i \in 1..(Len(s) - 1) : Tail(s)[i] = s[i + 1] /\ i + 1 \in 1..Len(s)
    BY <1>1
  <2>2. 1 \in 1..Len(s)
    BY <1>1
  <2> QED
    BY <1>1, <1>2, <2>1, <2>2 DEF Range
<1> QED BY <1>3, <1>4

LEMMA ScanInvKept ==
  ASSUME RelayerAssumption, ScanInv, [Next]_vars
  PROVE  ScanInv'
<1>1. LogGrows /\ RelayTypes' /\ Located'
  BY StepGrows, StaysLocated DEF ScanInv
<1> DEFINE Still == \A c \in Evm : cursor'[c] = cursor[c] /\ start'[c] = start[c]
<1>2. ASSUME UNCHANGED <<cursor, start>>, pc' # "extract",
             seen \cup Range(batch) \subseteq seen' \cup Range(batch')
      PROVE  ScanInv'
  BY <1>1, <1>2, NothingFalls DEF ScanInv, TakenUp
<1>3. CASE UNCHANGED vars
  <2>1. NoneFallsBetweenScans'
    BY <1>3 DEF vars, chainVars, memoryVars, ScanInv, NoneFallsBetweenScans
  <2>2. TakenUp'
    BY <1>3 DEF vars, chainVars, memoryVars, ScanInv, TakenUp
  <2> QED BY <1>1, <2>1, <2>2 DEF ScanInv
<1>4. ASSUME NEW p \in Sent, SendPacket(p) PROVE ScanInv'
  <2>1. NoneFallsBetweenScans'
    BY <1>1, <1>4, NothingFalls DEF SendPacket, memoryVars, ScanInv
  <2>2. TakenUp'
    <3> SUFFICES ASSUME pc' = "extract", NEW c \in Evm, NEW i \in 1..Len(log'[c]), Passing(c, i)'
                 PROVE  log'[c][i] \in seen'
      BY DEF TakenUp, Passing
    <3>1. i \in 1..Len(log[c]) /\ Passing(c, i) /\ log'[c][i] = log[c][i]
      BY <1>1, <1>4, PassesNothing DEF SendPacket, memoryVars, ScanInv
    <3> QED
      BY <1>4, <3>1 DEF SendPacket, memoryVars, ScanInv, TakenUp, Passing
  <2> QED BY <1>1, <2>1, <2>2 DEF ScanInv
<1>5. ASSUME NEW k \in Chains, SyncToHead(k) PROVE ScanInv'
  <2>1. TakenUp'
    BY <1>5 DEF SyncToHead, TakenUp
  <2>2. NoneFallsBetweenScans'
    <3> SUFFICES ASSUME NEW c \in Evm, NEW i \in 1..Len(log'[c]), Passing(c, i)'
                 PROVE  log'[c][i] \in seen' \cup Range(batch')
      BY DEF NoneFallsBetweenScans, Passing
    <3>1. c # k
      <4>1. c = k => cursor'[c] = Len(log[k]) /\ start'[c] = Len(log[k])
        BY <1>5 DEF SyncToHead, Newest, ScanInv, RelayTypes
      <4>2. Len(log[k]) \in Nat
        BY DEF ScanInv, RelayTypes
      <4> QED BY <4>1, <4>2 DEF Passing
    <3>2. cursor'[c] = cursor[c] /\ start'[c] = start[c] /\ UNCHANGED <<log, seen, batch>>
      BY <1>5, <3>1 DEF SyncToHead, chainVars
    <3> QED
      BY <3>2 DEF ScanInv, NoneFallsBetweenScans, Passing
  <2> QED BY <1>1, <2>1, <2>2 DEF ScanInv
<1>6. CASE StartTick \/ EndTick \/ ReadHead
  BY <1>2, <1>6 DEF StartTick, EndTick, ReadHead, memoryVars
<1>7. CASE GetLogs
  <2> DEFINE k == Head(left)
  <2>1. /\ k \in Evm /\ k \in Chains /\ head \in Nat /\ cursor[k] \in Nat
        /\ head <= Len(log[k]) /\ cursor[k] <= head /\ log[k] \in Seq(Packets)
    BY <1>7 DEF GetLogs, ScanInv, Located, RelayTypes, Chains
  <2>2. Range(batch) = {}
    BY <1>7, EmptyRange DEF GetLogs, ScanInv, Located, InBatch, InHand
  <2>3. \A i \in (cursor[k] + 1)..head : log[k][i] \in Range(batch')
    <3>1. batch' = SubSeq(log[k], cursor[k] + 1, head)
      BY <1>7 DEF GetLogs
    <3> QED
      BY <2>1, <3>1, PartInRange
  <2>4. NoneFallsBetweenScans'
    <3> SUFFICES ASSUME NEW c \in Evm, NEW i \in 1..Len(log'[c]), Passing(c, i)'
                 PROVE  log'[c][i] \in seen' \cup Range(batch')
      BY DEF NoneFallsBetweenScans, Passing
    <3>1. UNCHANGED <<log, start, seen>>
      BY <1>7 DEF GetLogs, chainVars
    <3>2. CASE c = k /\ cursor[k] < i
      <4>1. cursor'[k] = head
        BY <1>7, <2>1 DEF GetLogs, Passed, ScanInv, RelayTypes
      <4>2. i \in (cursor[k] + 1)..head
        BY <2>1, <3>2, <4>1 DEF Passing
      <4> QED
        BY <2>3, <3>1, <3>2, <4>2
    <3>3. CASE ~(c = k /\ cursor[k] < i)
      <4>1. c \in Chains /\ cursor[c] \in Nat
        BY DEF Chains, ScanInv, RelayTypes
      <4>2. c # k => cursor'[c] = cursor[c]
        BY <1>7, <4>1 DEF GetLogs, ScanInv, RelayTypes
      <4>3. i <= cursor[c]
        BY <2>1, <3>3, <4>1, <4>2 DEF Passing
      <4>4. log[c][i] \in seen \cup Range(batch)
        BY <3>1, <4>3 DEF ScanInv, NoneFallsBetweenScans, Passing
      <4> QED
        BY <2>2, <3>1, <4>4
    <3> QED BY <3>2, <3>3
  <2>5. TakenUp'
    BY <1>7 DEF GetLogs, TakenUp
  <2> QED BY <1>1, <2>4, <2>5 DEF ScanInv
<1>8. CASE ScanOutbound
  <2>1. Range(batch) = {}
    BY <1>8, EmptyRange DEF ScanOutbound, ScanInv, Located, InBatch, InHand
  <2>2. \A c \in Evm : cursor'[c] = cursor[c] /\ start'[c] = start[c]
    BY <1>8 DEF ScanOutbound, ScanInv, RelayTypes, RelayerAssumption, Chains
  <2>3. UNCHANGED <<log, seen>>
    BY <1>8 DEF ScanOutbound, chainVars
  <2>4. NoneFallsBetweenScans'
    BY <1>1, <2>1, <2>2, <2>3, NothingFalls DEF ScanInv
  <2>5. TakenUp'
    BY <2>1, <2>2, <2>3 DEF ScanInv, NoneFallsBetweenScans, TakenUp
  <2> QED BY <1>1, <2>4, <2>5 DEF ScanInv
<1>9. CASE ExtractEvents
  BY <1>2, <1>9 DEF ExtractEvents, memoryVars
<1>10. CASE NextPacket
  <2>1. batch # <<>> => Range(batch) = {Head(batch)} \cup Range(Tail(batch))
    BY HeadAndTail DEF ScanInv, RelayTypes
  <2>2. seen \cup Range(batch) \subseteq seen' \cup Range(batch')
    BY <1>10, <2>1 DEF NextPacket, Skipped
  <2> QED
    BY <1>2, <1>10, <2>2 DEF NextPacket
<1>11. CASE Executing /\ ~NextPacket
  BY <1>2, <1>11 DEF Executing, Validate, LzReceive, LzReceiveReverts, FindComposes, LzCompose,
     LzComposeReverts, Returned, Delivering, memoryVars
<1>12. CASE Retrying \/ StartRetry \/ RetryThrows
  BY <1>2, <1>12 DEF Retrying, StartRetry, EndRetry, RetrySucceeds, RetryReverts, RetryThrows, InTick
<1>13. CASE ScanThrows
  <2>1. Range(batch') = {}
    BY <1>13, EmptyRange DEF ScanThrows
  <2>2. UNCHANGED <<cursor, start, seen, log>> /\ pc' # "extract"
    BY <1>13 DEF ScanThrows, memoryVars, chainVars
  <2>3. CASE pc = "extract"
    BY <1>1, <2>2, <2>3 DEF ScanInv, TakenUp, NoneFallsBetweenScans
  <2>4. CASE pc # "extract"
    <3>1. batch = <<>>
      BY <1>13, <2>4 DEF ScanThrows, ScanInv, Located, InBatch, InHand
    <3> QED
      BY <1>2, <2>1, <2>2, <3>1, EmptyRange
  <2> QED BY <2>3, <2>4
<1>14. CASE DeliveryThrows
  BY <1>2, <1>14 DEF DeliveryThrows, Returned, Delivering
<1>15. CASE Stopped
  BY <1>3, <1>15 DEF Stopped
<1> QED
  BY <1>3, <1>4, <1>5, <1>6, <1>7, <1>8, <1>9, <1>10, <1>11, <1>12, <1>13, <1>14, <1>15
  DEF Next, Process, Scanning, Failing

-----------------------------------------------------------------------------
(* What is kept for a retry.                                               *)

(* Nothing is retried unless the process is retrying: all that is kept is  *)
(* in the list.                                                            *)
LEMMA KeptIsList ==
  ASSUME RelayTypes, Located, pc # "retry"
  PROVE  Kept = failedComposes
BY ConcatEmptySeq DEF RelayTypes, Located, Kept

LEMMA RetryInvKept ==
  ASSUME RelayerAssumption, RetryInv, [Next]_vars
  PROVE  RetryInv'
<1>1. RelayTypes' /\ Located' /\ RelayTypes /\ Located
  BY StaysLocated DEF RetryInv
<1>2. ASSUME Kept' = Kept, received \subseteq received', queued' \subseteq received',
             queued \subseteq queued', ComposeInHand'
      PROVE  RetryInv'
  BY <1>1, <1>2 DEF RetryInv
<1>3. UNCHANGED <<failedComposes, retrying>> => Kept' = Kept
  BY DEF Kept
<1>4. CASE UNCHANGED vars
  <2>1. ComposeInHand'
    BY <1>3, <1>4 DEF vars, chainVars, memoryVars, RetryInv, ComposeInHand
  <2> QED
    BY <1>2, <1>3, <1>4, <2>1 DEF vars, chainVars, memoryVars, RetryInv
<1>5. ASSUME NEW p \in Sent, SendPacket(p) PROVE RetryInv'
  <2>1. ComposeInHand'
    BY <1>3, <1>5 DEF SendPacket, memoryVars, RetryInv, ComposeInHand
  <2> QED
    BY <1>2, <1>3, <1>5, <2>1 DEF SendPacket, memoryVars, RetryInv
<1>6. CASE (\E c \in Chains : SyncToHead(c)) \/ Scanning \/ NextPacket \/ Validate
            \/ LzReceiveReverts \/ ScanThrows
  <2>1. UNCHANGED <<received, queued, failedComposes, retrying>>
    BY <1>6 DEF SyncToHead, Scanning, StartTick, EndTick, ReadHead, GetLogs, ScanOutbound,
       ExtractEvents, NextPacket, Validate, LzReceiveReverts, ScanThrows, chainVars, memoryVars,
       Elsewhere, Delivering
  <2>2. pc' \notin {"composes", "compose"}
    BY <1>6 DEF SyncToHead, Scanning, StartTick, EndTick, ReadHead, GetLogs, ScanOutbound,
       ExtractEvents, NextPacket, Validate, LzReceiveReverts, ScanThrows
  <2> QED
    BY <1>2, <1>3, <2>1, <2>2 DEF RetryInv, ComposeInHand
<1>7. CASE LzReceive
  <2>1. Range(Kept) \subseteq received /\ packet \notin received
    BY <1>7 DEF LzReceive, Executable, RetryInv
  <2>2. Kept' = Kept /\ received' = received \cup {packet} /\ UNCHANGED packet
        /\ queued \subseteq queued' /\ queued' \subseteq queued \cup {packet} /\ pc' = "composes"
    BY <1>3, <1>7 DEF LzReceive, memoryVars, Delivering
  <2> QED
    BY <1>2, <2>1, <2>2 DEF RetryInv, ComposeInHand
<1>8. CASE FindComposes
  <2>1. UNCHANGED <<received, queued, failedComposes, retrying>>
    BY <1>8 DEF FindComposes, chainVars, memoryVars, Delivering
  <2>2. ComposeInHand'
    BY <1>3, <1>8, <2>1 DEF FindComposes, RetryInv, ComposeInHand, Returned
  <2> QED
    BY <1>2, <1>3, <2>1, <2>2 DEF RetryInv
<1>9. ASSUME pc = "compose", pc' = "batch", queued' = queued \ {packet} \/ UNCHANGED queued,
             UNCHANGED <<received, failedComposes, retrying>>
      PROVE  RetryInv'
  <2>1. Kept' = Kept /\ packet \notin Range(Kept)
    BY <1>3, <1>9 DEF RetryInv, ComposeInHand
  <2> QED
    BY <1>1, <1>9, <2>1 DEF RetryInv, ComposeInHand
<1>10. CASE LzCompose
  BY <1>9, <1>10 DEF LzCompose, Run, Returned, memoryVars, Delivering
<1>11. CASE LzComposeReverts
  <2>1. pc = "compose" /\ pc' = "batch" /\ UNCHANGED <<received, queued, retrying>>
    BY <1>11 DEF LzComposeReverts, Returned, chainVars, Delivering
  <2>2. packet \in Packets /\ packet \in queued /\ packet \notin Range(Kept)
    BY <1>1, <2>1 DEF Located, InHand, RetryInv, ComposeInHand
  <2>3. CASE UNCHANGED failedComposes
    BY <1>9, <2>1, <2>3
  <2>4. CASE failedComposes' = Append(failedComposes, packet)
    <3>1. Kept = failedComposes /\ Kept' = failedComposes'
      <4>1. retrying = <<>> /\ retrying' = <<>> /\ failedComposes' \in Seq(Packets)
        BY <1>1, <2>1 DEF Located, RelayTypes
      <4> QED
        BY <1>1, <2>1, <4>1, KeptIsList, ConcatEmptySeq DEF Kept
    <3>2. IsInjective(failedComposes) /\ failedComposes \in Seq(Packets)
      BY <1>1, <3>1 DEF RetryInv, RelayTypes
    <3>3. IsInjective(Kept') /\ Range(Kept') = Range(Kept) \cup {packet}
      BY <2>2, <2>4, <3>1, <3>2, KeepsOneMore
    <3> QED
      BY <1>1, <2>1, <2>2, <3>3 DEF RetryInv, ComposeInHand
  <2> QED
    BY <1>11, <2>3, <2>4 DEF LzComposeReverts, Keep
<1>12. CASE StartRetry
  <2>1. retrying' = failedComposes /\ failedComposes' = <<>> /\ pc' = "retry"
        /\ UNCHANGED <<received, queued>>
    BY <1>12 DEF StartRetry, Spliced, chainVars
  <2>2. Kept' = Kept
    <3>1. Kept = failedComposes
      BY <1>1, <1>12, KeptIsList DEF StartRetry
    <3>2. Kept' = failedComposes' \o retrying'
      BY DEF Kept
    <3> QED
      BY <1>1, <2>1, <3>1, <3>2, ConcatEmptySeq DEF RelayTypes
  <2> QED
    BY <1>2, <2>1, <2>2 DEF RetryInv, ComposeInHand
<1>13. CASE Retrying \/ RetryThrows
  <2>1. UNCHANGED received /\ pc' \notin {"composes", "compose"}
    BY <1>13 DEF Retrying, EndRetry, RetrySucceeds, RetryReverts, RetryThrows, SendRawThrows, Run, chainVars
  <2>2. CASE EndRetry
    BY <1>2, <1>3, <2>1, <2>2 DEF EndRetry, chainVars, RetryInv, ComposeInHand
  <2>3. CASE RetryReverts
    <3>1. Kept' = Kept
      <4>1. Kept' = Append(failedComposes, Head(retrying)) \o Tail(retrying)
        BY <2>3 DEF Kept, RetryReverts
      <4>2. failedComposes \in Seq(Packets) /\ retrying \in Seq(Packets) /\ retrying # <<>>
        BY <1>1, <2>3 DEF RetryReverts, RelayTypes
      <4>3. Append(failedComposes, Head(retrying)) \o Tail(retrying) = failedComposes \o retrying
        BY <4>2, HeadMoves
      <4> QED
        BY <4>1, <4>3 DEF Kept
    <3> QED
      BY <1>2, <2>1, <2>3, <3>1 DEF RetryReverts, chainVars, RetryInv, ComposeInHand
  <2>4. CASE RetrySucceeds \/ RetryThrows
    <3>1. retrying # <<>> /\ retrying \in Seq(Packets) /\ failedComposes \in Seq(Packets)
          /\ UNCHANGED failedComposes
      BY <1>1, <2>4 DEF RetrySucceeds, RetryThrows, RelayTypes
    <3>2. queued' = queued \ {Head(retrying)} \/ UNCHANGED queued
      BY <2>4 DEF RetrySucceeds, RetryThrows, SendRawThrows, Run, chainVars
    <3>3. Kept' = failedComposes \o Tail(retrying) \/ Kept' = failedComposes
      <4>1. CASE RetrySucceeds
        BY <3>1, <4>1 DEF RetrySucceeds, Kept
      <4>2. CASE RetryThrows
        BY <3>1, <4>2, ConcatEmptySeq DEF RetryThrows, Kept
      <4> QED BY <2>4, <4>1, <4>2
    <3>4. IsInjective(Kept') /\ Range(Kept') \subseteq Range(Kept) \ {Head(retrying)}
      <4>1. IsInjective(failedComposes \o retrying)
        BY DEF RetryInv, Kept
      <4>2. /\ IsInjective(failedComposes \o Tail(retrying)) /\ IsInjective(failedComposes)
            /\ Range(failedComposes \o Tail(retrying))
                 \subseteq Range(failedComposes \o retrying) \ {Head(retrying)}
            /\ Range(failedComposes) \subseteq Range(failedComposes \o retrying) \ {Head(retrying)}
        BY <3>1, <4>1, TailOfKept
      <4> QED
        BY <3>3, <4>2 DEF Kept
    <3> QED
      BY <1>1, <2>1, <3>2, <3>4 DEF RetryInv, ComposeInHand
  <2> QED
    BY <1>13, <2>2, <2>3, <2>4 DEF Retrying
<1>14. CASE DeliveryThrows
  <2>1. pc \in InHand /\ pc' = "batch" /\ UNCHANGED <<failedComposes, retrying>>
    BY <1>14 DEF DeliveryThrows, Returned, Delivering, InHand
  <2>2. CASE UNCHANGED <<received, queued>>
    BY <1>2, <1>3, <2>1, <2>2 DEF RetryInv, ComposeInHand
  <2>3. CASE /\ received' = received \cup {packet}
             /\ queued' = IF packet \in Composed THEN queued \cup {packet} ELSE queued
    BY <1>2, <1>3, <2>1, <2>3 DEF RetryInv, ComposeInHand
  <2>4. CASE pc = "compose" /\ Run(packet)
    BY <1>9, <2>1, <2>4 DEF Run
  <2> QED
    BY <1>14, <2>2, <2>3, <2>4 DEF DeliveryThrows, SendRawThrows, SendThrows, Delivered, chainVars
<1>15. CASE Stopped
  BY <1>4, <1>15 DEF Stopped
<1> QED
  BY <1>4, <1>5, <1>6, <1>7, <1>8, <1>10, <1>11, <1>12, <1>13, <1>14, <1>15
  DEF Next, Process, Executing, Failing

-----------------------------------------------------------------------------
(***************************************************************************)
(* No EVM packet falls between two scans: whatever the cursor has passed   *)
(* since the process began was taken up or is in the batch in hand, though *)
(* chains grow between the two reads of a scan and any call may throw.     *)
(***************************************************************************)
THEOREM EveryScanTakesUp ==
  Spec => []NoneFallsBetweenScans
<1> USE RelayerAssumption
<1>1. Init => ScanInv
  <2> SUFFICES ASSUME Init PROVE ScanInv
    OBVIOUS
  <2>1. \A c \in Chains : log[c] = <<>>
    BY DEF Init
  <2>2. NoneFallsBetweenScans /\ TakenUp
    BY <2>1 DEF Init, NoneFallsBetweenScans, TakenUp, Chains
  <2> QED
    BY <2>2, StartsLocated DEF ScanInv
<1>2. ScanInv /\ [Next]_vars => ScanInv'
  BY ScanInvKept
<1>3. ScanInv => NoneFallsBetweenScans
  BY DEF ScanInv
<1> QED
  BY <1>1, <1>2, <1>3, PTL DEF Spec

(***************************************************************************)
(* What the relayer keeps for a retry is still queued at its endpoint, and *)
(* is kept once, however often composes revert, retries are cut short by   *)
(* an exception, or a call throws after its transaction has run.           *)
(***************************************************************************)
THEOREM KeptIsQueued ==
  Spec => []RetriesAreQueued
<1> USE RelayerAssumption
<1>1. Init => RetryInv
  <2> SUFFICES ASSUME Init PROVE RetryInv
    OBVIOUS
  <2>1. Kept = <<>>
    BY StartsLocated, KeptIsList DEF Init
  <2>2. IsInjective(Kept) /\ Range(Kept) = {}
    BY <2>1, EmptyRange DEF IsInjective
  <2> QED
    BY <2>2, StartsLocated DEF Init, RetryInv, ComposeInHand
<1>2. RetryInv /\ [Next]_vars => RetryInv'
  BY RetryInvKept
<1>3. RetryInv => RetriesAreQueued
  <2> SUFFICES ASSUME RetryInv PROVE RetriesAreQueued
    OBVIOUS
  <2>1. Kept \in Seq(Packets)
    BY ConcatProperties DEF RetryInv, RelayTypes, Kept
  <2>2. Cardinality(Range(Kept)) = Len(Kept)
    BY <2>1, CountedOnce DEF RetryInv
  <2> QED
    BY <2>2 DEF RetryInv, RetriesAreQueued, Kept
<1> QED
  BY <1>1, <1>2, <1>3, PTL DEF Spec

=============================================================================
