--------------------------- MODULE WebhookProofs ---------------------------
(***************************************************************************)
(* What the webhook process owes stays owed until it is delivered, and     *)
(* what the history says of a settled order stays true, for any mirrors,   *)
(* orders, partners, processes, number of attempts and crashes.            *)
(***************************************************************************)
EXTENDS Webhooks, FiniteSetTheorems, SequenceTheorems, TLAPS

(* A pass has taken the state file up, and is yet to go through its outbox.*)
Taken == {"sync", "write", "synced"}

Places == Taken \cup {"idle", "deliver"}

(* A state file, or a pass's copy of one, with deliveries of D.            *)
IsState(s, D) ==
  \E i, f, d : \E o \in Seq(D) :
    s = [instance |-> i, seen |-> f, outbox |-> o, dead |-> d]

WebhookTypes ==
  /\ pc \in [Procs -> Places]
  /\ \E D : /\ rest \in Seq(D) /\ IsState(state, D)
            /\ saved # Torn => IsState(saved, D)

(* Whatever the file owes, the pass's copy still owes it, or it lies ahead *)
(* in the outbox being gone through, or the partner has it.                *)
PassOwes ==
  saved # Torn =>
    /\ pc[hooks] \in Taken => Kept(saved) \subseteq Kept(state)
    /\ pc[hooks] = "deliver" =>
         Kept(saved) \subseteq Kept(state) \cup EventsIn(rest) \cup delivered

OwedInv == WebhookTypes /\ PassOwes

-----------------------------------------------------------------------------
(* The outbox.                                                             *)

(* An event appended is owed besides those already there.                 *)
LEMMA EventsOfAppend ==
  ASSUME NEW D, NEW s \in Seq(D), NEW d
  PROVE  EventsIn(Append(s, d)) = EventsIn(s) \cup {d.event}
<1>1. s \in Seq(D \cup {d}) /\ d \in D \cup {d}
  BY SeqMonotonic
<1>2. /\ Append(s, d) \in Seq(D \cup {d})
      /\ Len(Append(s, d)) = Len(s) + 1 /\ Len(s) \in Nat
      /\ \A i \in 1..Len(s) : Append(s, d)[i] = s[i]
      /\ Append(s, d)[Len(s) + 1] = d
  BY <1>1, AppendProperties
<1>3. DOMAIN s = 1..Len(s) /\ DOMAIN Append(s, d) = 1..(Len(s) + 1)
  BY <1>2
<1> QED
  BY <1>2, <1>3 DEF EventsIn

(* Taking the head off loses no event but its own.                        *)
LEMMA EventsOfTail ==
  ASSUME NEW D, NEW s \in Seq(D), s # <<>>
  PROVE  EventsIn(s) \subseteq EventsIn(Tail(s)) \cup {Head(s).event}
<1>1. /\ Tail(s) \in Seq(D) /\ Len(Tail(s)) = Len(s) - 1 /\ Len(s) \in Nat \ {0}
      /\ \A i \in 1..Len(Tail(s)) : Tail(s)[i] = s[i + 1]
      /\ Head(s) = s[1]
  BY HeadTailProperties, EmptySeq
<1> SUFFICES ASSUME NEW i \in 1..Len(s), i # 1
             PROVE  s[i].event \in EventsIn(Tail(s))
  BY <1>1 DEF EventsIn
<1>2. i - 1 \in 1..Len(Tail(s)) /\ (i - 1) + 1 = i
  BY <1>1
<1>3. Tail(s)[i - 1] = s[i] /\ i - 1 \in DOMAIN Tail(s)
  BY <1>1, <1>2
<1> QED
  BY <1>3 DEF EventsIn

(* An outbox made longer owes all it owed.                                 *)
LEMMA EventsOfConcat ==
  ASSUME NEW D, NEW s \in Seq(D), NEW t \in Seq(D)
  PROVE  EventsIn(s) \subseteq EventsIn(s \o t)
<1>1. /\ s \o t \in Seq(D) /\ Len(s \o t) = Len(s) + Len(t)
      /\ \A i \in 1..(Len(s) + Len(t)) : (s \o t)[i] = IF i <= Len(s) THEN s[i] ELSE t[i - Len(s)]
  BY ConcatProperties
<1>2. \A i \in 1..Len(s) : (s \o t)[i] = s[i] /\ i \in DOMAIN (s \o t)
  BY <1>1
<1> QED
  BY <1>2 DEF EventsIn

(* An empty outbox owes nothing.                                          *)
LEMMA NoEvents ==
  EventsIn(<<>>) = {}
BY DEF EventsIn

-----------------------------------------------------------------------------
(* What a pass queues is a sequence: there are finitely many orders.       *)

(* There are finitely many orders to announce.                            *)
LEMMA KeysAreFinite ==
  ASSUME HistoryAssumption
  PROVE  IsFiniteSet(Keys)
<1>1. Mirrors \in Seq(Mirror) /\ Len(Mirrors) \in Nat /\ MaxOrders \in Nat
  BY DEF HistoryAssumption
<1>2. Mirrors \in Surjection(1..Len(Mirrors), Mirror)
  BY <1>1, SMTT(20) DEF Surjection, Mirror
<1>3. IsFiniteSet(1..Len(Mirrors)) /\ IsFiniteSet(1..MaxOrders)
  BY <1>1, FS_Interval
<1>4. IsFiniteSet(Mirror)
  BY <1>2, <1>3, FS_Surjection
<1> QED
  BY <1>3, <1>4, FS_Product DEF Keys

(* A finite set put in a row gives a sequence of its members.              *)
LEMMA SetToSeqIsSeq ==
  ASSUME NEW S, IsFiniteSet(S)
  PROVE  SetToSeq(S) \in Seq(S)
<1>1. /\ Cardinality(S) \in Nat
      /\ \E f : f \in Bijection(1..Cardinality(S), S)
  BY FS_CardinalityType DEF ExistsBijection
<1>2. \E f \in [1..Cardinality(S) -> S] : IsInjective(f)
  BY <1>1 DEF Bijection, Injection
<1>3. SetToSeq(S) \in [1..Cardinality(S) -> S]
  BY <1>2 DEF SetToSeq
<1> QED
  BY <1>1, <1>3

-----------------------------------------------------------------------------
(* Steps of a kind.                                                        *)

(* Replacing a copy's outbox, or its dead events.                          *)
LEMMA OutboxReplaced ==
  ASSUME NEW D, NEW s, IsState(s, D), NEW o \in Seq(D), NEW r, r = [s EXCEPT !.outbox = o]
  PROVE  IsState(r, D) /\ r.outbox = o /\ r.dead = s.dead
<1>1. PICK i, f, d, q : q \in Seq(D) /\ s = [instance |-> i, seen |-> f, outbox |-> q, dead |-> d]
  BY DEF IsState
<1>2. r = [instance |-> i, seen |-> f, outbox |-> o, dead |-> d] /\ s.dead = d
  BY <1>1
<1> QED
  BY <1>2 DEF IsState

(* The dead letters can be replaced with the outbox left alone.            *)
LEMMA DeadReplaced ==
  ASSUME NEW D, NEW s, IsState(s, D), NEW y, NEW r, r = [s EXCEPT !.dead = y]
  PROVE  IsState(r, D) /\ r.outbox = s.outbox /\ r.dead = y
<1>1. PICK i, f, d, q : q \in Seq(D) /\ s = [instance |-> i, seen |-> f, outbox |-> q, dead |-> d]
  BY DEF IsState
<1>2. r = [instance |-> i, seen |-> f, outbox |-> q, dead |-> y] /\ s.outbox = q
  BY <1>1
<1> QED
  BY <1>1, <1>2 DEF IsState

(* A state of some deliveries is one of more deliveries.                  *)
LEMMA StateWidens ==
  ASSUME NEW D, NEW E, NEW s, IsState(s, D)
  PROVE  IsState(s, D \cup E)
<1>1. Seq(D) \subseteq Seq(D \cup E)
  BY SeqMonotonic
<1> QED BY <1>1 DEF IsState

(* A delivery is taken from the outbox and either kept for another try, or *)
(* dead, or received.                                                      *)
LEMMA HeadHandled ==
  ASSUME OwedInv, Delivering, delivered \subseteq delivered',
         NEW d, d.event = Head(rest).event,
         \/ state' = [state EXCEPT !.outbox = Append(state.outbox, d)]
         \/ state' = [state EXCEPT !.dead = state.dead \cup {Head(rest).event}]
         \/ state' = state /\ Head(rest).event \in delivered'
  PROVE  OwedInv'
<1>1. PICK D : /\ rest \in Seq(D) /\ IsState(state, D)
               /\ saved # Torn => IsState(saved, D)
  BY DEF OwedInv, WebhookTypes
<1> DEFINE E == D \cup {d}
<1>2. /\ rest # <<>> /\ rest' = Tail(rest) /\ UNCHANGED <<pc, saved>> /\ pc[hooks] = "deliver"
  BY DEF Delivering
<1>3. rest' \in Seq(E)
  <2>1. Tail(rest) \in Seq(D)
    BY <1>1, <1>2, HeadTailProperties
  <2> QED BY <1>2, <2>1, SeqMonotonic
<1>4. IsState(state, E) /\ (saved' # Torn => IsState(saved', E)) /\ d \in E
  BY <1>1, <1>2, StateWidens
<1>5. state.outbox \in Seq(E) /\ Append(state.outbox, d) \in Seq(E)
  BY <1>4, AppendProperties DEF IsState
<1> HIDE DEF E
<1>6. /\ IsState(state', E)
      /\ Kept(state) \subseteq Kept(state')
      /\ Head(rest).event \in Kept(state') \cup delivered'
  <2>1. CASE state' = [state EXCEPT !.outbox = Append(state.outbox, d)]
    <3>1. PICK o \in Seq(E) : o = Append(state.outbox, d)
      BY <1>5
    <3>2. state' = [state EXCEPT !.outbox = o]
      BY <2>1, <3>1
    <3>3. IsState(state', E) /\ state'.dead = state.dead /\ state'.outbox = Append(state.outbox, d)
      <4>1. \A r : r = [state EXCEPT !.outbox = o] =>
                     IsState(r, E) /\ r.outbox = o /\ r.dead = state.dead
        BY <1>4, OutboxReplaced
      <4> QED BY <3>1, <3>2, <4>1
    <3>4. EventsIn(state'.outbox) = EventsIn(state.outbox) \cup {Head(rest).event}
      BY <1>5, <3>3, EventsOfAppend
    <3> QED
      BY <3>3, <3>4 DEF Kept
  <2>2. CASE state' = [state EXCEPT !.dead = state.dead \cup {Head(rest).event}]
    <3>1. PICK y : y = state.dead \cup {Head(rest).event}
      OBVIOUS
    <3>2. state' = [state EXCEPT !.dead = y]
      BY <2>2, <3>1
    <3>3. IsState(state', E) /\ state'.outbox = state.outbox /\ state'.dead = y
      <4>1. \A r : r = [state EXCEPT !.dead = y] =>
                     IsState(r, E) /\ r.outbox = state.outbox /\ r.dead = y
        BY <1>4, DeadReplaced
      <4> QED BY <3>2, <4>1
    <3> QED
      BY <3>1, <3>3 DEF Kept
  <2>3. CASE state' = state /\ Head(rest).event \in delivered'
    BY <1>4, <2>3
  <2> QED BY <2>1, <2>2, <2>3
<1>7. EventsIn(rest) \subseteq EventsIn(rest') \cup {Head(rest).event}
  BY <1>1, <1>2, EventsOfTail
<1>8. PassOwes'
  BY <1>2, <1>6, <1>7 DEF OwedInv, PassOwes, Taken
<1>9. WebhookTypes'
  BY <1>2, <1>3, <1>4, <1>6 DEF OwedInv, WebhookTypes
<1> QED BY <1>8, <1>9 DEF OwedInv

(* A step that leaves this process alone, or moves it on through a sync.   *)
LEMMA OthersStep ==
  ASSUME OwedInv, UNCHANGED hookVars, pc' \in [Procs -> Places],
         \/ pc'[hooks] = pc[hooks]
         \/ pc[hooks] \in Taken /\ pc'[hooks] # "deliver"
         \/ pc'[hooks] = "idle"
  PROVE  OwedInv'
<1>1. WebhookTypes'
  BY DEF OwedInv, WebhookTypes, hookVars
<1>2. PassOwes'
  BY DEF OwedInv, PassOwes, hookVars, Taken
<1> QED BY <1>1, <1>2 DEF OwedInv

(* Ending, whatever the pass held; the file is as it was, or torn.         *)
LEMMA EndingKeeps ==
  ASSUME WebhooksAssumption, OwedInv, NEW p \in Procs, Ends(p), UNCHANGED delivered,
         UNCHANGED saved \/ (p = hooks /\ saved' = Torn)
  PROVE  OwedInv'
<1>1. /\ pc' = [pc EXCEPT ![p] = "idle"]
      /\ pc \in [Procs -> Places] /\ pc' \in [Procs -> Places]
  BY DEF Ends, Goes, OwedInv, WebhookTypes, Places
<1>2. CASE p = hooks
  <2>1. state' = Nothing /\ rest' = <<>> /\ pc'[hooks] = "idle"
    BY <1>1, <1>2 DEF Ends
  <2>2. \E D : /\ rest' \in Seq(D) /\ IsState(state', D)
               /\ saved' # Torn => IsState(saved', D)
    <3>1. PICK D : saved # Torn => IsState(saved, D)
      BY DEF OwedInv, WebhookTypes
    <3>2. rest' \in Seq(D) /\ IsState(state', D)
      BY <2>1, EmptySeq DEF IsState, Nothing
    <3> QED BY <3>1, <3>2
  <2> QED
    BY <1>1, <2>1, <2>2 DEF OwedInv, WebhookTypes, PassOwes, Taken
<1>3. CASE p # hooks
  <2>1. UNCHANGED hookVars
    BY <1>3 DEF Ends, hookVars
  <2>2. pc'[hooks] = pc[hooks]
    BY <1>1, <1>3 DEF WebhooksAssumption
  <2> QED
    BY <1>1, <2>1, <2>2, OthersStep
<1> QED BY <1>2, <1>3

(* Queueing an order's news loses nothing that is owed.                   *)
LEMMA QueueKeeps ==
  ASSUME HistoryAssumption, WebhooksAssumption, OwedInv, Queue
  PROVE  OwedInv'
<1> DEFINE now(k) == StateOf(work[hooks][k])
           new(k) == [event |-> Event(instance[hooks], k, now(k)), attempts |-> 0]
           C == {k \in Changed : now(k) # "pending"}
           N == {new(k) : k \in C}
<1>1. PICK D : /\ rest \in Seq(D) /\ IsState(state, D)
               /\ saved # Torn => IsState(saved, D)
  BY DEF OwedInv, WebhookTypes
<1>2. IsFiniteSet(N)
  <2>1. C \in SUBSET Keys
    BY DEF Changed, WebhooksAssumption
  <2>2. IsFiniteSet(C)
    BY <2>1, KeysAreFinite, FS_Subset
  <2>3. [k \in C |-> new(k)] \in Surjection(C, N)
    BY DEF Surjection
  <2> QED
    BY <2>2, <2>3, FS_Surjection
<1>3. SetToSeq(N) \in Seq(N)
  BY <1>2, SetToSeqIsSeq
<1>4. /\ rest' = state.outbox \o SetToSeq(N)
      /\ state' = [state EXCEPT
           !.seen = [k \in Keys |-> IF k \in Changed THEN now(k) ELSE @[k]], !.outbox = <<>>]
      /\ UNCHANGED <<saved, delivered>>
      /\ pc[hooks] = "synced" /\ pc' = [pc EXCEPT ![hooks] = "deliver"]
  BY DEF Queue, Goes
<1> HIDE DEF N
<1>5. state.outbox \in Seq(D \cup N) /\ SetToSeq(N) \in Seq(D \cup N)
  BY <1>1, <1>3, SeqMonotonic DEF IsState
<1>6. rest' \in Seq(D \cup N) /\ EventsIn(state.outbox) \subseteq EventsIn(rest')
  BY <1>4, <1>5, ConcatProperties, EventsOfConcat
<1>7. IsState(state', D \cup N) /\ state'.dead = state.dead
  BY <1>1, <1>4, EmptySeq DEF IsState
<1>8. WebhookTypes'
  <2>1. saved' # Torn => IsState(saved', D \cup N)
    BY <1>1, <1>4, StateWidens
  <2>2. pc' \in [Procs -> Places]
    BY <1>4 DEF OwedInv, WebhookTypes, Places
  <2> QED
    BY <1>6, <1>7, <2>1, <2>2 DEF WebhookTypes
<1>9. PassOwes'
  <2>1. saved # Torn => Kept(saved) \subseteq Kept(state)
    BY <1>4 DEF OwedInv, PassOwes, Taken
  <2>2. pc'[hooks] = "deliver"
    BY <1>4 DEF OwedInv, WebhookTypes, WebhooksAssumption
  <2> QED
    BY <1>4, <1>6, <1>7, <2>1, <2>2 DEF PassOwes, Taken, Kept
<1> QED BY <1>8, <1>9 DEF OwedInv

(* A pass starts from the file's own debts, or finds it torn.             *)
LEMMA StartKeeps ==
  ASSUME WebhooksAssumption, OwedInv, StartPass
  PROVE  OwedInv'
<1>1. PICK D : rest \in Seq(D) /\ IsState(saved, D)
  BY DEF StartPass, OwedInv, WebhookTypes
<1>2. PICK i : state' = StateFor(saved, i)
  BY DEF StartPass
<1>3. IsState(state', D) /\ Kept(state') = Kept(saved)
  <2>1. CASE state' = saved
    BY <1>1, <2>1
  <2>2. CASE state' = [saved EXCEPT !.instance = i, !.seen = Nothing.seen]
    <3>1. PICK j, f, d, q : /\ q \in Seq(D)
                            /\ saved = [instance |-> j, seen |-> f, outbox |-> q, dead |-> d]
      BY <1>1 DEF IsState
    <3>2. state' = [instance |-> i, seen |-> Nothing.seen, outbox |-> q, dead |-> d]
      BY <2>2, <3>1
    <3>3. IsState(state', D)
      BY <3>1, <3>2 DEF IsState
    <3>4. state'.outbox = saved.outbox /\ state'.dead = saved.dead
      BY <3>1, <3>2
    <3> QED BY <3>3, <3>4 DEF Kept
  <2> QED BY <1>2, <2>1, <2>2 DEF StateFor
<1>4. pc' = [pc EXCEPT ![hooks] = "sync"] /\ UNCHANGED <<saved, rest, delivered>>
  BY DEF StartPass, StartSync, Goes
<1>5. pc'[hooks] = "sync" /\ pc' \in [Procs -> Places]
  BY <1>4 DEF WebhooksAssumption, OwedInv, WebhookTypes, Places, Taken
<1> QED
  BY <1>1, <1>3, <1>4, <1>5 DEF OwedInv, WebhookTypes, PassOwes, Taken

(* The save writes a copy that still owes the rest.                       *)
LEMMA SaveKeeps ==
  ASSUME WebhooksAssumption, OwedInv, SaveState
  PROVE  OwedInv'
<1>1. PICK D : rest \in Seq(D) /\ IsState(state, D)
  BY DEF OwedInv, WebhookTypes
<1>2. saved' = state /\ state' = Nothing /\ UNCHANGED rest /\ pc' = [pc EXCEPT ![hooks] = "idle"]
  BY DEF SaveState, Goes
<1>3. pc'[hooks] = "idle" /\ pc' \in [Procs -> Places]
  BY <1>2 DEF WebhooksAssumption, OwedInv, WebhookTypes, Places
<1>4. IsState(Nothing, D)
  BY EmptySeq DEF IsState, Nothing
<1> QED
  BY <1>1, <1>2, <1>3, <1>4 DEF OwedInv, WebhookTypes, PassOwes, Taken

(* No step disturbs the invariant.                                        *)
LEMMA OwedInvKept ==
  ASSUME HistoryAssumption, WebhooksAssumption, OwedInv, [Next]_vars
  PROVE  OwedInv'
<1>1. pc \in [Procs -> Places] /\ hooks \in Procs
  BY DEF OwedInv, WebhookTypes, WebhooksAssumption
<1>2. CASE UNCHANGED vars
  BY <1>1, <1>2, OthersStep DEF vars, historyVars
<1>3. CASE ChainsMove /\ UNCHANGED hookVars
  <2>1. UNCHANGED pc
    BY <1>3 DEF ChainsMove, Place, Settle, Strand, Notice, Recover, Moves, Redeploy, Off
  <2> QED BY <1>1, <1>3, <2>1, OthersStep
<1>4. ASSUME NEW p \in Procs, Sync(p), UNCHANGED hookVars PROVE OwedInv'
  <2>1. \/ UNCHANGED pc
        \/ /\ pc[p] \in Taken
           /\ \E l \in {"write", "synced", "idle"} : pc' = [pc EXCEPT ![p] = l]
    BY <1>4 DEF Sync, ReadMirror, ReadHome, WriteHistory, Read, Goes, Taken
  <2>2. pc' \in [Procs -> Places]
    BY <1>1, <2>1 DEF Places, Taken
  <2>3. \/ pc'[hooks] = pc[hooks]
        \/ pc[hooks] \in Taken /\ pc'[hooks] # "deliver"
    BY <1>1, <2>1
  <2> QED BY <1>4, <2>2, <2>3, OthersStep
<1>5. ASSUME NEW p \in Procs \ {hooks}, Serve(p), UNCHANGED hookVars PROVE OwedInv'
  <2>1. pc' = [pc EXCEPT ![p] = "sync"]
    BY <1>5 DEF Serve, StartSync, Goes
  <2>2. pc' \in [Procs -> Places] /\ pc'[hooks] = pc[hooks]
    BY <1>1, <1>5, <2>1 DEF Places, Taken
  <2> QED BY <1>5, <2>2, OthersStep
<1>6. CASE FindsTorn
  BY <1>1, <1>6, EndingKeeps DEF FindsTorn
<1>7. CASE NotDue
  <2>1. state' = [state EXCEPT !.outbox = Append(state.outbox, Head(rest))] /\ Delivering
        /\ delivered' = delivered
    BY <1>7 DEF NotDue
  <2> QED BY <2>1, HeadHandled
<1>8. CASE NoSecret
  <2>1. state' = [state EXCEPT !.dead = state.dead \cup {Head(rest).event}] /\ Delivering
        /\ delivered' = delivered
    BY <1>8 DEF NoSecret
  <2> QED BY <2>1, HeadHandled
<1>9. CASE Answered
  <2>1. state' = state /\ Head(rest).event \in delivered' /\ Delivering
        /\ delivered \subseteq delivered'
    BY <1>9 DEF Answered, Arrives
  <2> QED BY <2>1, HeadHandled
<1>10. CASE NotAnswered
  <2>1. Delivering /\ delivered \subseteq delivered'
    BY <1>10 DEF NotAnswered, Arrives
  <2>2. \/ state' = [state EXCEPT !.dead = state.dead \cup {Head(rest).event}]
        \/ state' = [state EXCEPT !.outbox = Append(state.outbox, [Head(rest) EXCEPT !.attempts = @ + 1])]
    BY <1>10 DEF NotAnswered, AfterFailure
  <2>3. [Head(rest) EXCEPT !.attempts = @ + 1].event = Head(rest).event
    OBVIOUS
  <2> QED BY <2>1, <2>2, <2>3, HeadHandled
<1>11. ASSUME NEW p \in Procs, Crash(p) PROVE OwedInv'
  BY <1>11, EndingKeeps DEF Crash, SaveCutShort
<1> QED
  BY <1>2, <1>3, <1>4, <1>5, <1>6, <1>7, <1>8, <1>9, <1>10, <1>11, StartKeeps, QueueKeeps, SaveKeeps
  DEF Next, Pass, Attempt

-----------------------------------------------------------------------------
(***************************************************************************)
(* At least once: an event the state file owes, to be tried again or dead, *)
(* is in the next file that is saved or was received by the partner, for   *)
(* any number of partners, orders and attempts, and processes that end at  *)
(* any point and are started again.                                        *)
(***************************************************************************)
THEOREM OwedIsKept ==
  Spec => OwedUntilDelivered
<1> USE HistoryAssumption, WebhooksAssumption
<1>1. Init => OwedInv
  <2> SUFFICES ASSUME Init PROVE OwedInv
    OBVIOUS
  <2>1. rest \in Seq({}) /\ IsState(state, {}) /\ IsState(saved, {})
    BY EmptySeq DEF Init, IsState, Nothing
  <2>2. pc \in [Procs -> Places] /\ pc[hooks] = "idle"
    BY DEF Init, HistoryInit, WebhooksAssumption, Places
  <2> QED
    BY <2>1, <2>2 DEF OwedInv, WebhookTypes, PassOwes, Taken
<1>2. OwedInv /\ [Next]_vars => OwedInv'
  BY OwedInvKept
<1>3. OwedInv /\ [Next]_vars =>
        [saved # Torn /\ saved' # Torn => Kept(saved) \subseteq Kept(saved') \cup delivered]_saved
  <2> SUFFICES ASSUME OwedInv, [Next]_vars, saved' # saved, saved # Torn, saved' # Torn
               PROVE  Kept(saved) \subseteq Kept(saved') \cup delivered
    OBVIOUS
  <2>1. SaveState
    BY DEF Next, Pass, Attempt, Queue, NotDue, NoSecret, Answered, NotAnswered, Delivering,
       StartPass, FindsTorn, Crash, SaveCutShort, vars, hookVars
  <2>2. Kept(saved) \subseteq Kept(state) \cup EventsIn(rest) \cup delivered
    BY <2>1 DEF SaveState, OwedInv, PassOwes
  <2>3. saved' = state /\ EventsIn(rest) = {}
    BY <2>1, NoEvents DEF SaveState
  <2> QED BY <2>2, <2>3
<1> QED
  BY <1>1, <1>2, <1>3, PTL DEF Spec, OwedUntilDelivered



-----------------------------------------------------------------------------
(***************************************************************************)
(* The history.  What a record says of an order cannot be taken back by    *)
(* the chains: a status other than pending stays, and what the home chain  *)
(* has returned it does not get again.  So a record that was true when it  *)
(* was read is true whenever it is written, whoever writes it.             *)
(***************************************************************************)

(* What the chains show of an order: a stranded one had value at home.     *)
Shown ==
  {At(s, h) : s \in Outcomes \cup {"pending"}, h \in {"no", "held", "returned"}}
  \cup {At("stranded", h) : h \in {"held", "returned"}}

(* r is true of the order k of instance i, when the chains show o.         *)
TrueOf(o, i, k, r) ==
  /\ i \in Instances /\ k[1] \in Mirror /\ k[2] \in DOMAIN o[i][k[1]]
  /\ \E s, h : r = [status |-> s, held |-> h]
  /\ r.status # "pending" => o[i][k[1]][k[2]].status = r.status
  /\ r.held = "none" => r.status = "stranded" /\ o[i][k[1]][k[2]].home = "returned"

Truthful(o, i, records) == \A k \in DOMAIN records : TrueOf(o, i, k, records[k])

SyncTypes ==
  /\ deployed \in Instances /\ context \in Instances \cup {0}
  /\ orders \in [Instances -> [Mirror -> Seq(Shown)]]
  /\ instance \in [Procs -> Instances \cup {0}]
  /\ chains \in [Procs -> Seq(Mirror)]
  /\ work = [p \in Procs |-> work[p]] /\ pc = [p \in Procs |-> pc[p]]
  /\ \A p \in Procs : pc[p] = "sync" => instance[p] \in Instances

HistoryInv ==
  /\ SyncTypes
  /\ \A p \in Procs : Truthful(orders, instance[p], work[p])
  /\ file # Torn =>
       /\ \E i, R : file = [instance |-> i, records |-> R]
       /\ Truthful(orders, file.instance, file.records)

(* The chains take nothing back.                                           *)
Steady ==
  \A i \in Instances, m \in Mirror : \A n \in DOMAIN orders[i][m] :
    /\ n \in DOMAIN orders'[i][m]
    /\ orders[i][m][n].status # "pending" =>
         orders'[i][m][n].status = orders[i][m][n].status
    /\ orders[i][m][n].home = "returned" => orders'[i][m][n].home = "returned"

(* What was true of the orders before a step is true after it.            *)
LEMMA TruthStays ==
  ASSUME Steady, NEW i, NEW R, Truthful(orders, i, R)
  PROVE  Truthful(orders', i, R)
<1> SUFFICES ASSUME NEW k \in DOMAIN R PROVE TrueOf(orders', i, k, R[k])
  BY DEF Truthful
<1>1. TrueOf(orders, i, k, R[k])
  BY DEF Truthful
<1>2. PICK m, n : m \in Mirror /\ m = k[1] /\ n = k[2] /\ n \in DOMAIN orders[i][m]
  BY <1>1 DEF TrueOf
<1>3. /\ i \in Instances
      /\ n \in DOMAIN orders'[i][m]
      /\ orders[i][m][n].status # "pending" =>
           orders'[i][m][n].status = orders[i][m][n].status
      /\ orders[i][m][n].home = "returned" => orders'[i][m][n].home = "returned"
  BY <1>1, <1>2 DEF TrueOf, Steady
<1> QED
  BY <1>1, <1>2, <1>3 DEF TrueOf

(* What an order shows.                                                    *)
LEMMA ShownFields ==
  ASSUME NEW s, NEW h
  PROVE  At(s, h).status = s /\ At(s, h).home = h
BY DEF At

(* Every order shown has a status and a place at home.                    *)
LEMMA OrdersAre ==
  ASSUME NEW o \in Shown
  PROVE  /\ \E s, h : o = At(s, h)
         /\ o.status = "stranded" => o.home \in {"held", "returned"}
<1>1. "stranded" \notin Outcomes \cup {"pending"}
  BY HistoryAssumption
<1> QED
  BY <1>1 DEF Shown, At

(* One order moves on.                                                     *)
LEMMA MoveIsSteady ==
  ASSUME SyncTypes, NEW i \in Instances, NEW m \in Mirror, NEW n, NEW from, NEW to \in Shown,
         Moves(i, m, n, from, to),
         from.status # "pending" => to.status = from.status,
         from.home = "returned" => to.home = "returned"
  PROVE  Steady /\ orders' \in [Instances -> [Mirror -> Seq(Shown)]]
<1>1. PICK l \in Seq(Shown) : l = orders[i][m]
  BY DEF SyncTypes
<1>2. n \in DOMAIN l /\ l[n] = from /\ orders' = [orders EXCEPT ![i][m][n] = to]
  BY <1>1 DEF Moves
<1>3. PICK l2 : l2 = [l EXCEPT ![n] = to]
  OBVIOUS
<1>4. l2 \in Seq(Shown) /\ DOMAIN l2 = DOMAIN l
      /\ \A k \in DOMAIN l : l2[k] = IF k = n THEN to ELSE l[k]
  BY <1>1, <1>2, <1>3
<1>5. orders' = [orders EXCEPT ![i][m] = l2]
  BY <1>1, <1>2, <1>3
<1>6. orders \in [Instances -> [Mirror -> Seq(Shown)]]
  BY DEF SyncTypes
<1>7. orders' \in [Instances -> [Mirror -> Seq(Shown)]]
  BY <1>4, <1>5, <1>6
<1>8. \A j \in Instances, q \in Mirror :
        orders'[j][q] = IF j = i /\ q = m THEN l2 ELSE orders[j][q]
  BY <1>5, <1>6
<1>9. Steady
  BY <1>1, <1>2, <1>4, <1>8 DEF Steady
<1> QED
  BY <1>7, <1>9

(* A new order changes no older one.                                      *)
LEMMA PlaceIsSteady ==
  ASSUME SyncTypes, NEW m \in Mirror, Place(m)
  PROVE  Steady /\ orders' \in [Instances -> [Mirror -> Seq(Shown)]]
<1>1. PICK l \in Seq(Shown) : l = orders[deployed][m]
  BY DEF SyncTypes
<1>2. PICK o \in Shown : o = At("pending", "no")
  BY DEF Shown
<1>3. PICK l2 : l2 = Append(l, o)
  OBVIOUS
<1>4. /\ l2 \in Seq(Shown) /\ DOMAIN l \subseteq DOMAIN l2
      /\ \A k \in DOMAIN l : l2[k] = l[k]
  <2>1. /\ l2 \in Seq(Shown) /\ Len(l2) = Len(l) + 1 /\ Len(l) \in Nat
        /\ \A k \in 1..Len(l) : l2[k] = l[k]
    BY <1>3, AppendProperties
  <2>2. DOMAIN l = 1..Len(l) /\ DOMAIN l2 = 1..(Len(l) + 1)
    BY <2>1
  <2> QED
    BY <2>1, <2>2
<1>5. orders' = [orders EXCEPT ![deployed][m] = l2]
  BY <1>1, <1>2, <1>3 DEF Place
<1>6. orders \in [Instances -> [Mirror -> Seq(Shown)]] /\ deployed \in Instances
  BY DEF SyncTypes
<1>7. orders' \in [Instances -> [Mirror -> Seq(Shown)]]
  BY <1>4, <1>5, <1>6
<1>8. \A j \in Instances, q \in Mirror :
        orders'[j][q] = IF j = deployed /\ q = m THEN l2 ELSE orders[j][q]
  BY <1>5, <1>6
<1>9. Steady
  BY <1>1, <1>4, <1>8 DEF Steady
<1> QED
  BY <1>7, <1>9

(* Whatever happens on the chains.                                         *)
LEMMA ChainsAreSteady ==
  ASSUME SyncTypes, ChainsMove
  PROVE  Steady /\ deployed' \in Instances
         /\ orders' \in [Instances -> [Mirror -> Seq(Shown)]]
<1>1. ASSUME NEW m \in Mirror, Place(m)
      PROVE  Steady /\ deployed' \in Instances
             /\ orders' \in [Instances -> [Mirror -> Seq(Shown)]]
  BY <1>1, PlaceIsSteady DEF Place, SyncTypes
<1>2. ASSUME NEW i \in Instances, NEW m \in Mirror, NEW n,
             \/ \E s \in Outcomes : Settle(i, m, n, s)
             \/ Strand(i, m, n) \/ Notice(i, m, n) \/ Recover(i, m, n)
      PROVE  Steady /\ deployed' \in Instances
             /\ orders' \in [Instances -> [Mirror -> Seq(Shown)]]
  <2>1. deployed' = deployed
    BY <1>2 DEF Settle, Strand, Notice, Recover, Moves
  <2>2. ASSUME NEW s \in Outcomes, Settle(i, m, n, s)
        PROVE  Steady /\ orders' \in [Instances -> [Mirror -> Seq(Shown)]]
    <3>1. At(s, "no") \in Shown
      BY DEF Shown
    <3> QED
      BY <2>2, <3>1, ShownFields, MoveIsSteady DEF Settle
  <2>3. CASE Strand(i, m, n)
    <3>1. At("pending", "held") \in Shown
      BY DEF Shown
    <3>2. Steady /\ orders' \in [Instances -> [Mirror -> Seq(Shown)]]
      BY <2>3, <3>1, ShownFields, MoveIsSteady DEF Strand
    <3> QED
      BY <2>1, <3>2 DEF SyncTypes
  <2>4. ASSUME NEW h \in {"held", "returned"}, Moves(i, m, n, At("pending", h), At("stranded", h))
        PROVE  Steady /\ orders' \in [Instances -> [Mirror -> Seq(Shown)]]
    <3>1. At("stranded", h) \in Shown
      BY DEF Shown
    <3> QED
      BY <2>4, <3>1, ShownFields, MoveIsSteady
  <2>5. ASSUME NEW s \in {"pending", "stranded"}, Moves(i, m, n, At(s, "held"), At(s, "returned"))
        PROVE  Steady /\ orders' \in [Instances -> [Mirror -> Seq(Shown)]]
    <3>1. At(s, "returned") \in Shown
      BY DEF Shown
    <3> QED
      BY <2>5, <3>1, ShownFields, MoveIsSteady
  <2> QED
    BY <1>2, <2>1, <2>2, <2>3, <2>4, <2>5 DEF Notice, Recover, SyncTypes
<1>3. CASE Redeploy
  <2>1. deployed' \in Instances
    BY <1>3, HistoryAssumption DEF Redeploy, SyncTypes, Instances
  <2> QED
    BY <1>3, <2>1 DEF Redeploy, SyncTypes, Steady
<1> QED
  BY <1>1, <1>2, <1>3 DEF ChainsMove

(* A step of the chains makes no record false.                            *)
LEMMA ChainsKeep ==
  ASSUME HistoryInv, ChainsMove, UNCHANGED hookVars
  PROVE  HistoryInv'
<1>1. Steady /\ deployed' \in Instances /\ orders' \in [Instances -> [Mirror -> Seq(Shown)]]
  BY ChainsAreSteady DEF HistoryInv
<1>2. UNCHANGED <<file, pc, instance, work, chains, context>>
  BY DEF ChainsMove, Place, Settle, Strand, Notice, Recover, Moves, Redeploy, Off, syncVars,
         hookVars
<1>3. SyncTypes'
  BY <1>1, <1>2 DEF HistoryInv, SyncTypes
<1>5. \A p \in Procs : Truthful(orders', instance'[p], work'[p])
  <2> SUFFICES ASSUME NEW p \in Procs PROVE Truthful(orders', instance'[p], work'[p])
    OBVIOUS
  <2>1. PICK i, R : i = instance[p] /\ R = work[p]
    OBVIOUS
  <2>2. Truthful(orders', i, R)
    BY <1>1, <2>1, TruthStays DEF HistoryInv
  <2> QED
    BY <1>2, <2>1, <2>2
<1>6. ASSUME file' # Torn
      PROVE  Truthful(orders', file'.instance, file'.records)
  <2>1. PICK i, R : i = file.instance /\ R = file.records
    OBVIOUS
  <2>2. Truthful(orders', i, R)
    BY <1>1, <1>2, <1>6, <2>1, TruthStays DEF HistoryInv
  <2> QED
    BY <1>2, <2>1, <2>2
<1> QED
  BY <1>2, <1>3, <1>5, <1>6 DEF HistoryInv

-----------------------------------------------------------------------------
(* A process that syncs.                                                   *)

(* One process has another table, and the file may be written from one.    *)
LEMMA SyncStep ==
  ASSUME HistoryInv, NEW p \in Procs, NEW l, NEW i \in Instances \cup {0}, NEW R,
         NEW c \in Seq(Mirror),
         UNCHANGED chainVars, context' \in Instances \cup {0},
         pc' = [pc EXCEPT ![p] = l], l = "sync" => i \in Instances,
         instance' = [instance EXCEPT ![p] = i],
         work' = [work EXCEPT ![p] = R],
         chains' = [chains EXCEPT ![p] = c],
         Truthful(orders, i, R),
         \/ file' = file \/ file' = Torn
         \/ \E q \in Procs : file' = [instance |-> instance[q], records |-> work[q]]
  PROVE  HistoryInv'
<1>1. SyncTypes
  BY DEF HistoryInv
<1>2. orders' = orders /\ deployed' = deployed
  BY DEF chainVars
<1>3. \A q \in Procs : /\ pc'[q] = IF q = p THEN l ELSE pc[q]
                       /\ work'[q] = IF q = p THEN R ELSE work[q]
  BY <1>1 DEF SyncTypes
<1>4. /\ work' = [q \in Procs |-> work'[q]]
      /\ pc' = [q \in Procs |-> pc'[q]]
  BY <1>1 DEF SyncTypes
<1>5. /\ instance' \in [Procs -> Instances \cup {0}]
      /\ chains' \in [Procs -> Seq(Mirror)]
      /\ \A q \in Procs : instance'[q] = IF q = p THEN i ELSE instance[q]
  BY <1>1 DEF SyncTypes
<1>6. SyncTypes'
  BY <1>1, <1>2, <1>3, <1>4, <1>5 DEF SyncTypes
<1>7. \A q \in Procs : Truthful(orders', instance'[q], work'[q])
  BY <1>2, <1>3, <1>5 DEF HistoryInv
<1>8. ASSUME file' # Torn
      PROVE  /\ \E j, S : file' = [instance |-> j, records |-> S]
             /\ Truthful(orders', file'.instance, file'.records)
  <2>1. CASE file' = file
    BY <1>2, <1>8, <2>1 DEF HistoryInv
  <2>2. ASSUME NEW q \in Procs, file' = [instance |-> instance[q], records |-> work[q]]
        PROVE  /\ \E j, S : file' = [instance |-> j, records |-> S]
               /\ Truthful(orders', file'.instance, file'.records)
    <3>1. file'.instance = instance[q] /\ file'.records = work[q]
      BY <2>2
    <3> QED
      BY <1>2, <2>2, <3>1 DEF HistoryInv
  <2> QED
    BY <1>8, <2>1, <2>2
<1> QED
  BY <1>6, <1>7, <1>8 DEF HistoryInv

(* A function that is changed nowhere.                                     *)
LEMMA SameEverywhere ==
  ASSUME SyncTypes, NEW p \in Procs
  PROVE  /\ pc = [pc EXCEPT ![p] = pc[p]]
         /\ instance = [instance EXCEPT ![p] = instance[p]]
         /\ work = [work EXCEPT ![p] = work[p]]
         /\ chains = [chains EXCEPT ![p] = chains[p]]
BY DEF SyncTypes

(* A sync that begins takes the file's records, if they are of its         *)
(* instance.                                                               *)
LEMMA StartTells ==
  ASSUME HistoryInv, NEW p \in Procs, NEW i \in Instances, StartSync(p, i),
         context' \in Instances \cup {0}
  PROVE  HistoryInv'
<1>1. PICK R : R = OwnRecords(i)
  OBVIOUS
<1>2. Truthful(orders, i, R)
  <2>1. CASE file.instance = i
    BY <1>1, <2>1 DEF OwnRecords, HistoryInv, StartSync
  <2>2. CASE file.instance # i
    BY <1>1, <2>2 DEF OwnRecords, NoRecords, Truthful
  <2> QED
    BY <2>1, <2>2
<1>3. /\ pc' = [pc EXCEPT ![p] = "sync"]
      /\ instance' = [instance EXCEPT ![p] = i]
      /\ work' = [work EXCEPT ![p] = R]
      /\ chains' = [chains EXCEPT ![p] = Mirrors]
      /\ UNCHANGED chainVars /\ file' = file
  BY <1>1 DEF StartSync, Goes
<1>4. Mirrors \in Seq(Mirror)
  BY HistoryAssumption
<1> QED
  BY <1>2, <1>3, <1>4, SyncStep

(* What a mirror shows goes into the records: of new orders, and of those  *)
(* that could still change.                                                *)
LEMMA MirrorTells ==
  ASSUME HistoryInv, NEW p \in Procs, ReadMirror(p), context' = context
  PROVE  HistoryInv'
<1>1. PICK i, R, l : i = instance[p] /\ R = work[p] /\ l = chains[p]
  OBVIOUS
<1>2. SyncTypes /\ pc[p] = "sync" /\ l # <<>>
  BY <1>1 DEF HistoryInv, ReadMirror
<1>3. i \in Instances /\ l \in Seq(Mirror)
  BY <1>1, <1>2 DEF SyncTypes
<1>4. PICK m \in Mirror : m = Head(l)
  BY <1>2, <1>3, HeadTailProperties
<1>5. Tail(l) \in Seq(Mirror)
  BY <1>2, <1>3, HeadTailProperties
<1>6. PICK upto : work' = [work EXCEPT ![p] =
         [k \in DOMAIN work[p] \cup ({Head(chains[p])} \X (ToRead(p, Head(chains[p])) \cap 1..upto)) |->
            IF k \in {Head(chains[p])} \X (ToRead(p, Head(chains[p])) \cap 1..upto)
            THEN Record(p, k) ELSE work[p][k]]]
  <2>1. PICK upto \in 0..Len(Of(p, Head(chains[p]))) : work' = [work EXCEPT ![p] =
         [k \in DOMAIN work[p] \cup ({Head(chains[p])} \X (ToRead(p, Head(chains[p])) \cap 1..upto)) |->
            IF k \in {Head(chains[p])} \X (ToRead(p, Head(chains[p])) \cap 1..upto)
            THEN Record(p, k) ELSE work[p][k]]]
    BY Zenon DEF ReadMirror
  <2> QED
    BY <2>1
<1> DEFINE fresh == {Head(chains[p])} \X (ToRead(p, Head(chains[p])) \cap 1..upto)
<1>7. PICK S : S = [k \in DOMAIN work[p] \cup fresh |->
                      IF k \in fresh THEN Record(p, k) ELSE work[p][k]]
  OBVIOUS
<1>8. work' = [work EXCEPT ![p] = S]
  BY <1>6, <1>7
<1> PICK read : read = fresh
  OBVIOUS
<1>7a. read \subseteq {m} \X ToRead(p, m)
  BY <1>1, <1>4
<1>7b. /\ DOMAIN S = DOMAIN R \cup read
       /\ \A k \in DOMAIN S : S[k] = IF k \in read THEN Record(p, k) ELSE R[k]
  <2>1. /\ DOMAIN S = DOMAIN work[p] \cup fresh
        /\ \A k \in DOMAIN S : S[k] = IF k \in fresh THEN Record(p, k) ELSE work[p][k]
    BY <1>7
  <2> QED
    BY <1>1, <2>1
<1>9. Truthful(orders, i, R)
  BY <1>1 DEF HistoryInv
<1>10. Truthful(orders, i, S)
  <2> SUFFICES ASSUME NEW k \in DOMAIN S PROVE TrueOf(orders, i, k, S[k])
    BY DEF Truthful
  <2>1. CASE k \notin read
    <3>1. k \in DOMAIN R /\ S[k] = R[k]
      BY <1>7b, <2>1
    <3> QED
      BY <1>9, <3>1 DEF Truthful
  <2>2. CASE k \in read
    <3>1. S[k] = Record(p, k)
      BY <1>7b, <2>2
    <3>2. /\ k[1] = m /\ k = <<m, k[2]>> /\ k[2] \in DOMAIN orders[i][m]
          /\ k \in DOMAIN R => Live(R[k])
      <4>1. PICK n \in ToRead(p, m) : k = <<m, n>>
        BY <1>7a, <2>2
      <4>2. n \in DOMAIN Of(p, m) /\ (<<m, n>> \in DOMAIN work[p] => Live(work[p][<<m, n>>]))
        BY DEF ToRead
      <4> HIDE DEF fresh
      <4> QED
        BY <1>1, <4>1, <4>2 DEF Of
    <3>3. PICK h : h = IF k \in DOMAIN R THEN R[k].held ELSE "unread"
      OBVIOUS
    <3>4. h # "none"
      <4>1. CASE k \in DOMAIN R
        <5>1. TrueOf(orders, i, k, R[k]) /\ Live(R[k])
          BY <1>9, <3>2, <4>1 DEF Truthful
        <5> QED
          BY <3>3, <4>1, <5>1 DEF TrueOf, Live
      <4>2. CASE k \notin DOMAIN R
        BY <3>3, <4>2
      <4> QED
        BY <4>1, <4>2
    <3>5. PICK s : s = orders[i][m][k[2]].status
      OBVIOUS
    <3>6. S[k] = [status |-> s, held |-> h]
      BY <1>1, <3>1, <3>2, <3>3, <3>5 DEF Record, Of
    <3>7. S[k].status = s /\ S[k].held = h
      BY <3>6
    <3> QED
      BY <1>3, <3>2, <3>4, <3>5, <3>6, <3>7 DEF TrueOf
  <2> QED
    BY <2>1, <2>2
<1>11. /\ UNCHANGED chainVars /\ file' = file
       /\ pc' = [pc EXCEPT ![p] = "sync"]
       /\ instance' = [instance EXCEPT ![p] = i]
       /\ chains' = [chains EXCEPT ![p] = Tail(l)]
  BY <1>1, <1>2, SameEverywhere DEF ReadMirror
<1>12. context' \in Instances \cup {0}
  BY <1>2 DEF SyncTypes
<1> QED
  BY <1>3, <1>5, <1>8, <1>10, <1>11, <1>12, SyncStep

(* What the home chain holds no longer has been returned.                  *)
LEMMA HomeTells ==
  ASSUME HistoryInv, NEW p \in Procs, ReadHome(p), context' = context
  PROVE  HistoryInv'
<1>1. PICK i, R, c : i = instance[p] /\ R = work[p] /\ c = chains[p]
  OBVIOUS
<1>2. SyncTypes /\ pc[p] = "sync"
  BY DEF HistoryInv, ReadHome
<1>3. i \in Instances /\ c \in Seq(Mirror)
  BY <1>1, <1>2 DEF SyncTypes
<1>4. PICK read \in SUBSET Stranded(p) : work' = [work EXCEPT ![p] = [k \in DOMAIN @ |->
        IF k \in read THEN [@[k] EXCEPT !.held = HeldNow(p, k)] ELSE @[k]]]
  BY DEF ReadHome
<1>5. PICK S : S = [k \in DOMAIN R |->
        IF k \in read THEN [R[k] EXCEPT !.held = HeldNow(p, k)] ELSE R[k]]
  OBVIOUS
<1>6. work' = [work EXCEPT ![p] = S]
  BY <1>1, <1>4, <1>5
<1>7. Truthful(orders, i, R)
  BY <1>1 DEF HistoryInv
<1>8. Truthful(orders, i, S)
  <2> SUFFICES ASSUME NEW k \in DOMAIN S PROVE TrueOf(orders, i, k, S[k])
    BY DEF Truthful
  <2>1. k \in DOMAIN R /\ TrueOf(orders, i, k, R[k])
    BY <1>5, <1>7 DEF Truthful
  <2>2. CASE k \notin read
    BY <1>5, <2>1, <2>2
  <2>3. CASE k \in read
    <3>1. R[k].status = "stranded"
      BY <1>1, <1>4, <2>3 DEF Stranded
    <3>2. PICK h : h = HeldNow(p, k)
      OBVIOUS
    <3>3. S[k] = [R[k] EXCEPT !.held = h]
      BY <1>5, <2>1, <2>3, <3>2
    <3>4. PICK s, x : R[k] = [status |-> s, held |-> x]
      BY <2>1 DEF TrueOf
    <3>5. S[k] = [status |-> "stranded", held |-> h]
      BY <3>1, <3>3, <3>4
    <3>6. S[k].status = "stranded" /\ S[k].held = h
      BY <3>5
    <3>7. PICK o : o = orders[i][k[1]][k[2]]
      OBVIOUS
    <3>8. o \in Shown /\ o.status = "stranded"
      BY <1>2, <2>1, <3>1, <3>7 DEF TrueOf, SyncTypes
    <3>9. o.home \in {"held", "returned"}
      BY <3>8, OrdersAre
    <3>10. h = "none" => o.home = "returned"
      BY <1>1, <3>2, <3>7, <3>9 DEF HeldNow, Of
    <3> QED
      BY <2>1, <3>5, <3>6, <3>7, <3>8, <3>10 DEF TrueOf
  <2> QED
    BY <2>2, <2>3
<1>9. /\ UNCHANGED chainVars /\ file' = file
      /\ pc' = [pc EXCEPT ![p] = "write"]
      /\ instance' = [instance EXCEPT ![p] = i]
      /\ chains' = [chains EXCEPT ![p] = c]
  BY <1>1, <1>2, SameEverywhere DEF ReadHome, Goes
<1>10. context' \in Instances \cup {0}
  BY <1>2 DEF SyncTypes
<1> QED
  BY <1>3, <1>6, <1>8, <1>9, <1>10, SyncStep

(* A process that is done with what it read, or dies.                      *)
LEMMA ForgetTells ==
  ASSUME HistoryInv, NEW p \in Procs, NEW l, l # "sync", Goes(p, l), Forget(p),
         UNCHANGED chainVars, context' \in {context, 0},
         \/ file' = file \/ file' = Torn
         \/ file' = [instance |-> instance[p], records |-> work[p]]
  PROVE  HistoryInv'
<1>1. /\ pc' = [pc EXCEPT ![p] = l]
      /\ instance' = [instance EXCEPT ![p] = 0]
      /\ work' = [work EXCEPT ![p] = NoRecords]
      /\ chains' = [chains EXCEPT ![p] = <<>>]
  BY DEF Goes, Forget
<1>2. Truthful(orders, 0, NoRecords)
  BY DEF Truthful, NoRecords
<1>3. <<>> \in Seq(Mirror)
  BY EmptySeq
<1>4. context' \in Instances \cup {0}
  BY DEF HistoryInv, SyncTypes
<1> QED
  BY <1>1, <1>2, <1>3, <1>4, SyncStep

(* A write stores a table that is true.                                   *)
LEMMA WriteTells ==
  ASSUME HistoryInv, NEW p \in Procs, WriteHistory(p), context' = context
  PROVE  HistoryInv'
<1>1. file' = [instance |-> instance[p], records |-> work[p]] /\ UNCHANGED chainVars
  BY DEF WriteHistory
<1>2. CASE p \in Readers
  <2>1. PICK i, R, c : i = instance[p] /\ R = work[p] /\ c = chains[p]
    OBVIOUS
  <2>2. SyncTypes
    BY DEF HistoryInv
  <2>3. i \in Instances \cup {0} /\ c \in Seq(Mirror) /\ context' \in Instances \cup {0}
    BY <2>1, <2>2 DEF SyncTypes
  <2>4. Truthful(orders, i, R)
    BY <2>1 DEF HistoryInv
  <2>5. /\ pc' = [pc EXCEPT ![p] = "synced"]
        /\ instance' = [instance EXCEPT ![p] = i]
        /\ work' = [work EXCEPT ![p] = R]
        /\ chains' = [chains EXCEPT ![p] = c]
    BY <1>2, <2>1, <2>2, SameEverywhere DEF WriteHistory, Goes, syncVars
  <2> QED
    BY <1>1, <2>3, <2>4, <2>5, SyncStep
<1>3. CASE p \notin Readers
  <2>1. Goes(p, "idle") /\ Forget(p)
    BY <1>3 DEF WriteHistory
  <2> QED
    BY <1>1, <2>1, ForgetTells
<1> QED
  BY <1>2, <1>3

(* A step that leaves the history and its readers alone.                   *)
LEMMA ElsewhereTells ==
  ASSUME HistoryInv, UNCHANGED <<chainVars, file, syncVars, context>>,
         pc' = pc \/ \E p \in Procs : \E l : l # "sync" /\ pc' = [pc EXCEPT ![p] = l]
  PROVE  HistoryInv'
<1>1. UNCHANGED <<orders, deployed, file, instance, work, chains, context>>
  BY DEF chainVars, syncVars
<1>2. SyncTypes'
  BY <1>1 DEF HistoryInv, SyncTypes
<1> QED
  BY <1>1, <1>2 DEF HistoryInv

(* No step makes a record false.                                          *)
LEMMA HistoryInvKept ==
  ASSUME HistoryInv, [Next]_vars
  PROVE  HistoryInv'
<1>0. hooks \in Procs
  BY WebhooksAssumption
<1>1. CASE UNCHANGED vars
  BY <1>1, ElsewhereTells DEF vars, historyVars, hookVars
<1>2. CASE ChainsMove /\ UNCHANGED hookVars
  BY <1>2, ChainsKeep
<1>3. ASSUME NEW p \in Procs, Sync(p), UNCHANGED hookVars
      PROVE  HistoryInv'
  <2>1. context' = context
    BY <1>3 DEF hookVars
  <2> QED
    BY <1>3, <2>1, MirrorTells, HomeTells, WriteTells DEF Sync
<1>4. ASSUME NEW p \in Procs, Serve(p), UNCHANGED hookVars
      PROVE  HistoryInv'
  <2>1. context' \in Instances \cup {0} /\ deployed \in Instances
    BY <1>4 DEF HistoryInv, SyncTypes, hookVars
  <2>2. PICK i \in Instances : StartSync(p, i)
    BY <1>4, <2>1, HistoryAssumption DEF Serve, Dashboard, PartnerApi, Instances
  <2> QED
    BY <2>1, <2>2, StartTells
<1>5. CASE StartPass
  <2>1. PICK i \in Instances : StartSync(hooks, i) /\ context' = i
    BY <1>5 DEF StartPass, HistoryInv, SyncTypes
  <2> QED
    BY <1>0, <2>1, StartTells
<1>6. CASE FindsTorn
  <2>1. Goes(hooks, "idle") /\ Forget(hooks) /\ context' = 0 /\ UNCHANGED <<chainVars, file>>
    BY <1>6 DEF FindsTorn, Ends
  <2> QED
    BY <1>0, <2>1, ForgetTells
<1>7. CASE Queue
  <2>1. /\ Goes(hooks, "deliver") /\ Forget(hooks) /\ context' = context
        /\ UNCHANGED <<chainVars, file>>
    BY <1>7 DEF Queue
  <2> QED
    BY <1>0, <2>1, ForgetTells
<1>8. CASE NotDue \/ Attempt \/ SaveState
  <2>1. UNCHANGED <<chainVars, file, syncVars, context>>
    BY <1>8 DEF NotDue, Attempt, NoSecret, Answered, NotAnswered, Delivering, SaveState, Passing
  <2>2. pc' = pc \/ pc' = [pc EXCEPT ![hooks] = "idle"]
    BY <1>8 DEF NotDue, Attempt, NoSecret, Answered, NotAnswered, Delivering, SaveState, Goes
  <2> QED
    BY <1>0, <2>1, <2>2, ElsewhereTells
<1>9. ASSUME NEW p \in Procs, Crash(p)
      PROVE  HistoryInv'
  <2>1. /\ Goes(p, "idle") /\ Forget(p) /\ UNCHANGED chainVars
        /\ context' \in {context, 0} /\ (file' = file \/ file' = Torn)
    BY <1>9 DEF Crash, Ends, CutShort
  <2> QED
    BY <2>1, ForgetTells
<1> QED
  BY <1>1, <1>2, <1>3, <1>4, <1>5, <1>6, <1>7, <1>8, <1>9 DEF Next, Pass

(* An empty history says nothing false.                                   *)
LEMMA HistoryInvInit ==
  ASSUME Init
  PROVE  HistoryInv
<1>1. /\ deployed = 1 /\ context = 0
      /\ orders = [i \in Instances |-> [m \in Mirror |-> <<>>]]
      /\ file = [instance |-> 0, records |-> NoRecords]
      /\ pc = [p \in Procs |-> "idle"]
      /\ instance = [p \in Procs |-> 0]
      /\ work = [p \in Procs |-> NoRecords]
      /\ chains = [p \in Procs |-> <<>>]
  BY DEF Init, HistoryInit
<1>2. \A i : Truthful(orders, i, NoRecords)
  BY DEF Truthful, NoRecords
<1>3. deployed \in Instances
  BY <1>1, HistoryAssumption DEF Instances
<1>4. SyncTypes
  BY <1>1, <1>3, EmptySeq DEF SyncTypes
<1> QED
  BY <1>1, <1>2, <1>4 DEF HistoryInv

(***************************************************************************)
(* A record that no sync reads again tells the truth for ever, for any     *)
(* number of processes, mirrors, orders and redeployments, syncs that fail *)
(* halfway or write over each other, and files cut short.                  *)
(***************************************************************************)
THEOREM SettledStaysTrue == Spec => []SettledIsTrue
<1>1. Init => HistoryInv
  BY HistoryInvInit
<1>2. HistoryInv /\ [Next]_vars => HistoryInv'
  BY HistoryInvKept
<1>3. HistoryInv => SettledIsTrue
  <2> SUFFICES ASSUME HistoryInv, file # Torn, NEW k \in DOMAIN file.records
               PROVE  LET r == file.records[k]
                          l == orders[file.instance][k[1]]
                      IN  ~Live(r) =>
                            /\ k[2] \in DOMAIN l
                            /\ l[k[2]].status = r.status
                            /\ r.status = "stranded" =>
                                 Recovered(r) /\ l[k[2]].home = "returned"
    BY DEF SettledIsTrue
  <2>1. TrueOf(orders, file.instance, k, file.records[k])
    BY DEF HistoryInv, Truthful
  <2> QED
    BY <2>1 DEF TrueOf, Live, Recovered
<1> QED
  BY <1>1, <1>2, <1>3, PTL DEF Spec



=============================================================================
