------------------------------ MODULE Webhooks ------------------------------
(***************************************************************************)
(* infra/webhooks.ts: the process that turns changes in the order history  *)
(* into events and delivers them to partners, at least once.  What it has  *)
(* seen and what it owes is one file, loaded when a pass begins and saved  *)
(* when it ends; nothing catches an exception, so a read that fails in a   *)
(* pass ends the process, as does finding a file half written.  Whoever    *)
(* runs it starts it again.                                                *)
(***************************************************************************)
EXTENDS OrderHistory, SequencesExt

CONSTANTS
  hooks,            \* this process; the others are the web server's syncs
  ViaPartner,       \* keys of orders placed through a partner with a webhook
  MaxAttempts       \* MAX_ATTEMPTS, 8 in the code

ASSUME WebhooksAssumption ==
  /\ hooks \in Procs /\ ViaPartner \subseteq Keys
  /\ MaxAttempts \in Nat \ {0}

VARIABLES
  context,          \* instance of the cached context, 0 for none
  saved,            \* the state file: Torn, or [instance, seen, outbox, dead]
  state,            \* the pass's copy of it
  rest,             \* deliveries of the outbox still to go through
  delivered         \* events the partner received

hookVars == <<context, saved, state, rest, delivered>>
vars == <<historyVars, hookVars>>

Nothing == [instance |-> 0, seen |-> [k \in Keys |-> "new"], outbox |-> <<>>, dead |-> {}]

Init ==
  /\ HistoryInit /\ context = 0
  /\ saved = Nothing /\ state = Nothing /\ rest = <<>>
  /\ delivered = {}

Event(i, k, s) == [instance |-> i, key |-> k, type |-> s]

EventsIn(outbox) == {outbox[n].event : n \in DOMAIN outbox}

-----------------------------------------------------------------------------
(* stateOf: stranded splits on whether value is known to be held.          *)
StateOf(r) ==
  IF r.status # "stranded" THEN r.status
  ELSE IF r.held = "held" THEN "stranded" ELSE "recovered"

(* Mutant: a fresh redeploy forgets what is owed with what was seen.       *)
FreshState(s, i) == IF s.instance = i THEN s ELSE [Nothing EXCEPT !.instance = i]

(* Orders of a previous instance are forgotten, undelivered events kept.   *)
StateFor(s, i) ==
  IF s.instance = i THEN s ELSE [s EXCEPT !.instance = i, !.seen = Nothing.seen]

(* A pass begins: the cached context, the state file, the history file.    *)
StartPass ==
  /\ pc[hooks] = "idle" /\ saved # Torn
  /\ LET i == IF context = 0 THEN deployed ELSE context IN
     /\ StartSync(hooks, i)
     /\ context' = i
     /\ state' = StateFor(saved, i)
  /\ UNCHANGED <<saved, rest, delivered>>

(* The process ends, and is started again.                                 *)
Ends(p) ==
  /\ Goes(p, "idle") /\ Forget(p)
  /\ IF p = hooks
     THEN context' = 0 /\ state' = Nothing /\ rest' = <<>>
     ELSE UNCHANGED <<context, state, rest>>

(* JSON.parse throws.                                                      *)
FindsTorn ==
  /\ pc[hooks] = "idle" /\ (saved = Torn \/ file = Torn)
  /\ Ends(hooks)
  /\ UNCHANGED <<chainVars, file, faults, saved, delivered>>

Passing == UNCHANGED <<chainVars, file, syncVars, faults, context>>

Changed ==
  {k \in DOMAIN work[hooks] \cap ViaPartner : state.seen[k] # StateOf(work[hooks][k])}

(* Every change is noted, and, after getOrder, its event queued.  Then the *)
(* outbox is gone through.                                                 *)
Queue ==
  LET now(k) == StateOf(work[hooks][k])
      new(k) == [event |-> Event(instance[hooks], k, now(k)), attempts |-> 0]
  IN
  /\ pc[hooks] = "synced" /\ Goes(hooks, "deliver")
  /\ rest' = state.outbox \o SetToSeq({new(k) : k \in {k \in Changed : now(k) # "pending"}})
  /\ state' = [state EXCEPT
       !.seen = [k \in Keys |-> IF k \in Changed THEN now(k) ELSE @[k]],
       !.outbox = <<>>]
  /\ Forget(hooks)
  /\ UNCHANGED <<chainVars, file, faults, context, saved, delivered>>

Delivering ==
  /\ pc[hooks] = "deliver" /\ rest # <<>>
  /\ rest' = Tail(rest)
  /\ UNCHANGED <<pc, saved>>
  /\ Passing

(* Its backoff is not over.                                                *)
NotDue ==
  /\ Delivering /\ Head(rest).attempts > 0
  /\ state' = [state EXCEPT !.outbox = Append(@, Head(rest))]
  /\ UNCHANGED delivered

(* This process has no secret for the partner: no attempt is made.         *)
NoSecret ==
  /\ Delivering
  /\ state' = [state EXCEPT !.dead = @ \cup {Head(rest).event}]
  /\ UNCHANGED delivered

Arrives == delivered' = delivered \cup {Head(rest).event}

Answered ==
  /\ Delivering /\ Arrives
  /\ UNCHANGED state

(* Mutant: an event whose attempts are used up is dropped.                 *)
AfterFailureDropped(s, d) ==
  IF d.attempts + 1 >= MaxAttempts THEN s
  ELSE [s EXCEPT !.outbox = Append(@, [d EXCEPT !.attempts = @ + 1])]

AfterFailure(s, d) ==
  IF d.attempts + 1 >= MaxAttempts
  THEN [s EXCEPT !.dead = @ \cup {d.event}]
  ELSE [s EXCEPT !.outbox = Append(@, [d EXCEPT !.attempts = @ + 1])]

(* No 2xx came back; the event may have arrived all the same.              *)
NotAnswered ==
  /\ Delivering /\ (Arrives \/ UNCHANGED delivered)
  /\ state' = AfterFailure(state, Head(rest))

SaveState ==
  /\ pc[hooks] = "deliver" /\ rest = <<>>
  /\ saved' = state /\ state' = Nothing /\ Goes(hooks, "idle")
  /\ UNCHANGED <<rest, delivered>>
  /\ Passing

-----------------------------------------------------------------------------
SaveCutShort(p) ==
  p = hooks /\ pc[p] = "deliver" /\ rest = <<>> /\ saved' = Torn

(* A process is killed, or getOrder or loading a context throws.           *)
Crash(p) ==
  /\ Bounded /\ faults' = faults + 1
  /\ Ends(p)
  /\ UNCHANGED file \/ CutShort(p)
  /\ UNCHANGED saved \/ SaveCutShort(p)
  /\ UNCHANGED <<chainVars, delivered>>

Attempt == NoSecret \/ Answered \/ NotAnswered

Pass == Queue \/ NotDue \/ Attempt \/ SaveState

Next ==
  \/ ChainsMove /\ UNCHANGED hookVars
  \/ \E p \in Procs : Sync(p) /\ UNCHANGED hookVars
  \/ \E p \in Procs \ {hooks} : Serve(p) /\ UNCHANGED hookVars
  \/ StartPass \/ FindsTorn \/ Pass
  \/ \E p \in Procs : Crash(p)

Spec == Init /\ [][Next]_vars

(***************************************************************************)
(* The processes run on, being started again when they end; a backoff ends.*)
(***************************************************************************)
LiveSpec ==
  /\ Spec
  /\ \A p \in Procs : WF_vars(Sync(p) /\ UNCHANGED hookVars)
  /\ WF_vars(StartPass) /\ WF_vars(Pass) /\ SF_vars(Attempt)

-----------------------------------------------------------------------------
Kept(s) == EventsIn(s.outbox) \cup s.dead

(***************************************************************************)
(* What the state file owes stays in it until the partner has it, through  *)
(* attempts that fail, passes that end halfway, and a fresh deployment that*)
(* makes it forget what was seen.                                          *)
(***************************************************************************)
OwedUntilDelivered ==
  [][saved # Torn /\ saved' # Torn => Kept(saved) \subseteq Kept(saved') \cup delivered]_saved

(* Where the partner should know o to be at last.                          *)
Outcome(o) ==
  IF o.status \in Outcomes THEN o.status
  ELSE IF o = At("stranded", "returned") THEN "recovered" ELSE "none"

Told(i, k, s) ==
  Event(i, k, s) \in delivered \/ (saved # Torn /\ Event(i, k, s) \in saved.dead)

(***************************************************************************)
(* Again and again the partner has heard of every outcome, or its event is *)
(* kept as dead, unless a crash left a file torn, or the process keeps a   *)
(* context of another instance.                                            *)
(***************************************************************************)
EveryOutcomeTold ==
  []<>(file = Torn \/ saved = Torn
       \/ \A i \in Instances : deployed # i \/ context \notin {0, i}
            \/ \A k \in ViaPartner : k[2] \in DOMAIN orders[i][k[1]] =>
                 LET s == Outcome(orders[i][k[1]][k[2]]) IN s # "none" => Told(i, k, s))

=============================================================================
