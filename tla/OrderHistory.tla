---------------------------- MODULE OrderHistory ----------------------------
(***************************************************************************)
(* The order history of infra/history.ts: a file that every process that   *)
(* syncs loads, brings up to date from the chains, and writes back whole.  *)
(* The web server syncs (apps/web/src/lib/live.ts, infra/api/orders.ts),   *)
(* and so does the webhook process; a sync the web server gave up on after *)
(* its timeout goes on, like one more process.  The reads of one chain are  *)
(* one step, since no record depends on another; they may fail halfway.    *)
(*                                                                         *)
(* An order is what SwapRequest and SwapRelay show of it: its status on    *)
(* the mirror, and whether the home chain holds value for it.  A fresh     *)
(* deployment under the same name is another instance: ids start again,    *)
(* the contracts of the one before can still be read.                      *)
(***************************************************************************)
EXTENDS Sequences, Naturals, FiniteSets

CONSTANTS
  Procs,            \* processes that sync
  Readers,          \* those that go on with what they read
  Mirrors,          \* the sequence a sync reads the mirror chains in
  Outcomes,         \* how an order may settle, stranding aside
  Torn,             \* a file whose write was cut short
  MaxOrders,        \* bound: orders of a mirror
  MaxInstances,     \* bound: deployments
  MaxEvents         \* bound: orders placed and reads that fail, together

Mirror == {Mirrors[n] : n \in DOMAIN Mirrors}
Instances == 1..MaxInstances
Keys == Mirror \X (1..MaxOrders)

ASSUME HistoryAssumption ==
  /\ Mirrors \in Seq(Mirror)
  /\ Outcomes \subseteq {"filled", "refunded", "cancelled"}
  /\ {MaxOrders, MaxInstances, MaxEvents} \subseteq Nat
  /\ MaxInstances > 0

VARIABLES
  deployed,         \* the instance of the manifest on disk
  orders,           \* [Instances -> [Mirror -> Seq(orders)]]
  file,             \* Torn, or [instance, records]
  pc,               \* [Procs -> where the process is]
  instance,         \* [Procs -> instance the sync reads]
  work,             \* [Procs -> byKey: records by key]
  chains,           \* [Procs -> mirrors still to read, the current one first]
  faults

chainVars == <<deployed, orders>>
syncVars == <<instance, work, chains>>
historyVars == <<chainVars, file, pc, syncVars, faults>>

NoRecords == [k \in {} |-> 0]

HistoryInit ==
  /\ deployed = 1
  /\ orders = [i \in Instances |-> [m \in Mirror |-> <<>>]]
  /\ file = [instance |-> 0, records |-> NoRecords]
  /\ pc = [p \in Procs |-> "idle"]
  /\ instance = [p \in Procs |-> 0]
  /\ work = [p \in Procs |-> NoRecords]
  /\ chains = [p \in Procs |-> <<>>]
  /\ faults = 0

-----------------------------------------------------------------------------
(* The chains.                                                             *)

At(status, home) == [status |-> status, home |-> home]

Off == UNCHANGED <<file, pc, syncVars, faults>>

Placed == Cardinality({x \in Instances \X Keys : x[2][2] \in DOMAIN orders[x[1]][x[2][1]]})

Bounded == Placed + faults < MaxEvents

(* A user places an order with the contracts of the manifest.              *)
Place(m) ==
  /\ Len(orders[deployed][m]) < MaxOrders /\ Bounded
  /\ orders' = [orders EXCEPT ![deployed][m] = Append(@, At("pending", "no"))]
  /\ UNCHANGED deployed /\ Off

Moves(i, m, n, from, to) ==
  /\ n \in DOMAIN orders[i][m] /\ orders[i][m][n] = from
  /\ orders' = [orders EXCEPT ![i][m][n] = to]
  /\ UNCHANGED deployed /\ Off

Settle(i, m, n, s) == Moves(i, m, n, At("pending", "no"), At(s, "no"))

(* The home chain keeps the value; its notice comes later, or never.       *)
Strand(i, m, n) == Moves(i, m, n, At("pending", "no"), At("pending", "held"))

Notice(i, m, n) ==
  \E h \in {"held", "returned"} : Moves(i, m, n, At("pending", h), At("stranded", h))

(* retryStranded: the return is sent, before or after the notice arrives.  *)
Recover(i, m, n) ==
  \E s \in {"pending", "stranded"} : Moves(i, m, n, At(s, "held"), At(s, "returned"))

(* deploy --fresh writes a new manifest under the same name.               *)
Redeploy ==
  /\ deployed < MaxInstances
  /\ deployed' = deployed + 1
  /\ UNCHANGED orders /\ Off

ChainsMove ==
  \/ \E m \in Mirror : Place(m)
  \/ \E i \in Instances, m \in Mirror, n \in 1..MaxOrders :
       \/ \E s \in Outcomes : Settle(i, m, n, s)
       \/ Strand(i, m, n) \/ Notice(i, m, n) \/ Recover(i, m, n)
  \/ Redeploy

-----------------------------------------------------------------------------
(* syncHistory.                                                            *)

(* Mutant: a stranded order is taken for settled.                          *)
LiveIfPending(r) == r.status = "pending"

(* Whether a record can still change.                                      *)
Live(r) == r.status = "pending" \/ (r.status = "stranded" /\ r.held # "none")

(* The stored records, if they are of the instance being synced.           *)
OwnRecords(i) == IF file.instance = i THEN file.records ELSE NoRecords

Goes(p, l) == pc' = [pc EXCEPT ![p] = l]

StartSync(p, i) ==
  /\ file # Torn
  /\ Goes(p, "sync")
  /\ instance' = [instance EXCEPT ![p] = i]
  /\ work' = [work EXCEPT ![p] = OwnRecords(i)]
  /\ chains' = [chains EXCEPT ![p] = Mirrors]
  /\ UNCHANGED <<chainVars, file, faults>>

Of(p, m) == orders[instance[p]][m]

(* All of the reads from S succeed, or those before the one that fails.    *)
Reads(S, done) ==
  \/ done = S /\ UNCHANGED faults
  \/ done \in SUBSET S \ {S} /\ Bounded /\ faults' = faults + 1

(* The ids of mirror m that are new or can still change.                   *)
ToRead(p, m) ==
  {n \in DOMAIN Of(p, m) : <<m, n>> \in DOMAIN work[p] => Live(work[p][<<m, n>>])}

(* A record's new contents: what is held is asked later, of the home chain.*)
Record(p, k) ==
  [status |-> Of(p, k[1])[k[2]].status,
   held |-> IF k \in DOMAIN work[p] THEN work[p][k].held ELSE "unread"]

(* nextRequestId, then getRequest in the order of ids.                     *)
ReadMirror(p) ==
  LET m == Head(chains[p]) IN
  /\ pc[p] = "sync" /\ chains[p] # <<>>
  /\ \E upto \in 0..Len(Of(p, m)) :
       LET read == {m} \X (ToRead(p, m) \cap 1..upto) IN
       /\ Reads({m} \X ToRead(p, m), read)
       /\ work' = [work EXCEPT ![p] = [k \in DOMAIN @ \cup read |->
                     IF k \in read THEN Record(p, k) ELSE @[k]]]
  /\ chains' = [chains EXCEPT ![p] = Tail(@)]
  /\ UNCHANGED <<chainVars, file, pc, instance>>

Stranded(p) ==
  {k \in DOMAIN work[p] : work[p][k].status = "stranded" /\ work[p][k].held # "none"}

HeldNow(p, k) == IF Of(p, k[1])[k[2]].home = "held" THEN "held" ELSE "none"

(* strandedHeld of each stranded record, after all the mirrors.            *)
ReadHome(p) ==
  /\ pc[p] = "sync" /\ chains[p] = <<>> /\ Stranded(p) # {}
  /\ Goes(p, "write")
  /\ \E read \in SUBSET Stranded(p) :
       /\ Reads(Stranded(p), read)
       /\ work' = [work EXCEPT ![p] = [k \in DOMAIN @ |->
                     IF k \in read THEN [@[k] EXCEPT !.held = HeldNow(p, k)] ELSE @[k]]]
  /\ UNCHANGED <<chainVars, file, instance, chains>>

(* What a sync held is gone.                                               *)
Forget(p) ==
  /\ instance' = [instance EXCEPT ![p] = 0]
  /\ work' = [work EXCEPT ![p] = NoRecords]
  /\ chains' = [chains EXCEPT ![p] = <<>>]

Read(p) == pc[p] = "write" \/ (pc[p] = "sync" /\ chains[p] = <<>> /\ Stranded(p) = {})

(* The webhook process goes on with the records; for others this is all.   *)
WriteHistory(p) ==
  /\ Read(p)
  /\ file' = [instance |-> instance[p], records |-> work[p]]
  /\ IF p \in Readers
     THEN Goes(p, "synced") /\ UNCHANGED syncVars
     ELSE Goes(p, "idle") /\ Forget(p)
  /\ UNCHANGED <<chainVars, faults>>

(* writeFileSync empties a file before it fills it: a process killed in it *)
(* leaves it torn.                                                         *)
CutShort(p) == Read(p) /\ file' = Torn

Sync(p) == ReadMirror(p) \/ ReadHome(p) \/ WriteHistory(p)

(* The web server: a dashboard reads the manifest each time, the partner   *)
(* API keeps the one its context was built with.                           *)
Dashboard == {deployed}
PartnerApi == 1..deployed

Serve(p) ==
  pc[p] = "idle" /\ \E i \in Dashboard \cup PartnerApi : StartSync(p, i)

(* What the operations page lists as recovered: the held amount was read   *)
(* and is none.                                                            *)
Recovered(r) == r.status = "stranded" /\ r.held = "none"

-----------------------------------------------------------------------------
(***************************************************************************)
(* A record that is never read again tells the truth: it has the status    *)
(* its order has on its mirror for ever, and a stranded one is recovered,  *)
(* and the home chain has returned what it held; however syncs overlap,    *)
(* fail halfway, or write over each other, and whatever instance wrote     *)
(* last.                                                                   *)
(***************************************************************************)
SettledIsTrue ==
  file # Torn =>
    \A k \in DOMAIN file.records :
      LET r == file.records[k]
          l == orders[file.instance][k[1]]
      IN  ~Live(r) =>
            /\ k[2] \in DOMAIN l
            /\ l[k[2]].status = r.status
            /\ r.status = "stranded" => Recovered(r) /\ l[k[2]].home = "returned"

=============================================================================
