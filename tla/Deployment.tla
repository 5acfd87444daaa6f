----------------------------- MODULE Deployment -----------------------------
(***************************************************************************)
(* The deployment pipeline, infra/deploy.ts: one process that runs through *)
(* a list of transactions, the same list at every run, skipping what it    *)
(* finds done.  What it has deployed it keeps in memory and writes to the  *)
(* manifest between its modules, and for a Solana chain to a file of that  *)
(* chain when its setup ends.  It may be killed between any two of its     *)
(* transactions and is then run again; mirrors are added to a deployment   *)
(* by running it with a longer configuration.                              *)
(*                                                                         *)
(* A task stands for one transaction, or for a read that may skip the next *)
(* or end the run.  All chains are local: the pipeline deploys their       *)
(* endpoints itself, and an operator starts and stops them (localnet.ts),  *)
(* deploys the Solana programs (deploy-program.ts) and, where the stock is *)
(* to be adapted, the token that exists before (deploy-legacy-token.ts).   *)
(* These do their work between runs; all chains of a kind start, or none: a*)
(* start that fails after some of its chains is left out.  No address is   *)
(* handed out twice, which a chain that starts again empty would do.       *)
(***************************************************************************)
EXTENDS Naturals, Sequences, FiniteSets, SequencesExt

CONSTANTS
  Evm, Solana,      \* the chains, by the machine they run
  Config,           \* [home chain -> sequence of mirrors it may come to have]
  AtFirst,          \* how many of them the configuration starts with
  Given,            \* whether the configuration names a Uniswap deployment
  Adapting,         \* the homes whose stock exists before and is adapted
  MaxEvents         \* bound: crashes, stops, mirrors added, runs not needed

Chain == Evm \cup Solana
Name == {"Endpoint", "Library", "Base", "Quote", "Router", "Pool", "Swap"}

ASSUME DeploymentAssumption ==
  /\ Evm \cap Solana = {} /\ DOMAIN Config \subseteq Chain
  /\ \A h \in DOMAIN Config :
       Config[h] \in Seq(Chain \ {h}) /\ AtFirst \in 1..Len(Config[h])
  /\ Given \in BOOLEAN /\ Adapting \subseteq DOMAIN Config /\ MaxEvents \in Nat

VARIABLES
  home,             \* the home chain of the configuration
  configured,       \* how many mirrors the configuration has
  up,               \* the chains that run
  contracts,        \* what is deployed: [address -> its state]
  next,             \* the address the next contract gets
  disk,             \* the manifest and the Solana files: [Chain -> [Name -> address]]
  mem,              \* the manifest in memory
  made,             \* addresses deployed by this run
  at,               \* the task the run is at, 0 when there is no run
  fresh,            \* whether it was started with --fresh
  live,             \* the chains last reported complete, and left alone since
  events

chainVars == <<contracts, next>>
runVars == <<mem, made, at, fresh>>
vars == <<home, configured, up, chainVars, disk, runVars, live, events>>

Nil == <<>>
Nowhere == [n \in Name |-> Nil]

(* Addresses: the accounts of a Solana chain's endpoint and of swap_request *)
(* or swap_relay there have fixed ones, and so have the programs, Uniswap,  *)
(* if it is given, and the token the configuration names.                   *)
Fixed(d, n) == <<d, n, 0>>

Init ==
  /\ home \in DOMAIN Config
  /\ configured = AtFirst
  /\ up = {} /\ contracts = [a \in {} |-> Nil] /\ next = 1
  /\ disk = [c \in Chain |-> Nowhere]
  /\ mem = [c \in Chain |-> Nowhere]
  /\ made = {} /\ at = 0 /\ fresh = FALSE
  /\ live = {} /\ events = 0

-----------------------------------------------------------------------------
(* The tasks.                                                              *)

T(do, c, n, d) == [do |-> do, on |-> c, what |-> n, to |-> d]

Each(s, Tasks(_)) == FlattenSeq([i \in DOMAIN s |-> Tasks(s[i])])
Others(s, c) == SelectSeq(s, LAMBDA d : d # c)
EvmOf(s) == SelectSeq(s, LAMBDA c : c \in Evm)
SolanaOf(s) == SelectSeq(s, LAMBDA c : c \in Solana)

Assets == <<"Base", "Quote">>
Save == <<T("save", "all", "all", "all")>>

(* What a run asks for first, and what it checks of a Solana chain.        *)
Preflight(s) == Each(s, LAMBDA c : <<T("preflight", c, "all", c)>>)
Programs(c) == <<T("programs", c, "all", c)>>
Token(h) == <<T("token", h, "Base", h)>>

(* Module 0, for one EVM chain.                                            *)
Stack(c, all) ==
  <<T("deploy", c, "Endpoint", c), T("deploy", c, "Library", c), T("register", c, "Library", c)>>
  \o Each(Others(all, c), LAMBDA d :
       <<T("send", c, "Endpoint", d), T("receive", c, "Endpoint", d)>>)

(* Modules 1 and 2: both assets, on the home chain and on the mirrors.     *)
HomeTokens(h) == Token(h) \o Each(Assets, LAMBDA n : <<T("deploy", h, n, h)>>)
MirrorTokens(s) == Each(s, LAMBDA c : Each(Assets, LAMBDA n : <<T("deploy", c, n, c)>>))

(* Module 3.  A Solana chain's own peers are written by its setup.         *)
Link(n, a, b) == IF a \in Evm THEN <<T("wire", a, n, b)>> ELSE <<>>
Mesh(n, s) == Each(s, LAMBDA a : Each(Others(s, a), LAMBDA b : Link(n, a, b)))
Star(h, s) == Each(s, LAMBDA m : Link("Swap", h, m) \o Link("Swap", m, h))

(* Module 4.                                                               *)
PoolTasks(h) == Each(<<"uniswap", "pool", "seed">>, LAMBDA do : <<T(do, h, "Pool", h)>>)

(* Module 5: the mirrors' SwapRequests, then the whole of it.              *)
Trust(c) == Each(Assets, LAMBDA n : <<T("trust", c, n, c)>>)

Requests(h, s) ==
  Each(s, LAMBDA m : <<T("deploy", m, "Swap", m), T("gas", m, "Swap", h)>>) \o Each(s, Trust)

ReturnGas(h, s) == Each(s, LAMBDA m : <<T("gas", h, "Swap", m)>>)

Relays(h, s) ==
  <<T("deploy", h, "Swap", h), T("fund", h, "Swap", h)>>
  \o Requests(h, s) \o Trust(h) \o ReturnGas(h, s) \o Star(h, s)

(* A Solana mirror: with whose OFTs its own peer, and the home chain.      *)
MirrorSetup(m, ofts, h) ==
  LET remotes == Others(ofts, h) \o <<h>>
      peers(n) == Each(ofts, LAMBDA r : <<T("peer", m, n, r)>>)
      paths(n) == Each(ofts, LAMBDA r : <<T("path", m, n, r)>>)
  IN
  Preflight(<<m>>) \o Programs(m)
  \o Each(remotes, LAMBDA r : <<T("defaults", m, "Endpoint", r)>>)
  \o <<T("load", m, "all", m)>>
  \o Each(Assets, LAMBDA n : <<T("oft", m, n, m)>> \o peers(n))
  \o <<T("store", m, "Swap", m), T("homeRelay", m, "Swap", h)>>
  \o Each(Assets, LAMBDA n : <<T("minter", m, n, m)>>)
  \o Each(Assets, paths) \o <<T("path", m, "Swap", h)>>
  \o <<T("write", m, "all", m)>>

Partners(s) ==
  Each(s, LAMBDA m : <<T("partners", m, "Swap", m), T("close", m, "Swap", m)>>)

Done == <<T("finish", "all", "all", "all")>>

(* main, for an EVM home.                                                  *)
EvmHome(h, s) ==
  LET all == <<h>> \o s
      evm == EvmOf(all)
      svm == SolanaOf(s)
      before(i) == SubSeq(svm, 1, i - 1)
  IN
  Preflight(evm) \o Each(evm, LAMBDA c : Stack(c, all)) \o Save
  \o HomeTokens(h) \o Save \o MirrorTokens(EvmOf(s)) \o Save
  \o Mesh("Base", evm) \o Save \o Mesh("Quote", evm) \o Save
  \o PoolTasks(h) \o Save
  \o Relays(h, EvmOf(s)) \o Save
  \o Each([i \in DOMAIN svm |-> i], LAMBDA i :
       MirrorSetup(svm[i], evm \o before(i), h)
       \o Mesh("Base", evm \o <<svm[i]>>) \o Mesh("Quote", evm \o <<svm[i]>>)
       \o Star(h, <<svm[i]>>) \o ReturnGas(h, <<svm[i]>>) \o Save)
  \o (IF Len(svm) > 1
      THEN Each(svm, LAMBDA m : MirrorSetup(m, evm \o Others(svm, m), h))
      ELSE <<>>)
  \o Partners(s) \o Done

(* The Solana home's own setup: assets and pool, then the relay.           *)
HomeAssets(h, s) ==
  Preflight(<<h>>) \o Each(s, LAMBDA m : <<T("defaults", h, "Endpoint", m)>>)
  \o Token(h) \o Each(Assets, LAMBDA n : <<T("oft", h, n, h)>> \o Each(s, LAMBDA m : <<T("peer", h, n, m)>>))
  \o Each(s, LAMBDA m : Each(Assets, LAMBDA n : <<T("path", h, n, m)>>))
  \o <<T("whirlpool", h, "Pool", h)>>

(* How returns leave it, and notices; and its delivery's accounts.         *)
Returns(h, s) == Each(s, LAMBDA m : Each(Assets, LAMBDA n : <<T("route", h, n, m)>>))
Notices(h, s) == Each(s, LAMBDA m : <<T("path", h, "Swap", m), T("notice", h, "Swap", m)>>)
Delegates(h) == Each(Assets, LAMBDA n : <<T("delegate", h, n, h)>>)
LookupTable(h) == <<T("table", h, "Swap", h)>>

HomeRelay(h, s) ==
  Programs(h) \o <<T("store", h, "Swap", h), T("accounts", h, "Swap", h)>>
  \o Each(s, LAMBDA m : <<T("request", h, "Swap", m)>>)
  \o Returns(h, s) \o Notices(h, s) \o Delegates(h) \o LookupTable(h)

(* deployWithSolanaHome.                                                   *)
SolanaHome(h, s) ==
  LET evm == EvmOf(s)
      svm == SolanaOf(s)
      before(i) == SubSeq(svm, 1, i - 1)
      meshed(n) == Mesh(n, evm \o <<h>> \o svm)
  IN
  Preflight(evm) \o Each(evm, LAMBDA c : Stack(c, <<h>> \o s)) \o Save
  \o Preflight(<<h>>) \o Token(h) \o MirrorTokens(evm) \o Save
  \o Each([i \in DOMAIN svm |-> i], LAMBDA i : MirrorSetup(svm[i], evm \o before(i), h))
  \o HomeAssets(h, evm \o svm)
  \o Each(svm, LAMBDA m : MirrorSetup(m, evm \o Others(svm, m) \o <<h>>, h))
  \o meshed("Base") \o meshed("Quote")
  \o Requests(h, evm) \o Save
  \o HomeRelay(h, evm \o svm)
  \o Star(h, evm)
  \o <<T("write", h, "all", h)>> \o Save
  \o Partners(s) \o Done

Pipeline ==
  [h \in DOMAIN Config |-> [n \in AtFirst..Len(Config[h]) |->
     LET s == SubSeq(Config[h], 1, n) IN IF h \in Evm THEN EvmHome(h, s) ELSE SolanaHome(h, s)]]

Task == Pipeline[home][configured][at]

-----------------------------------------------------------------------------
(* What the tasks do.                                                      *)

Keep == UNCHANGED <<home, configured, up, live, events>>

(* The task at hand is do; it is followed by the next.                     *)
Does(do) == at # 0 /\ Task.do = do /\ at' = at + 1 /\ UNCHANGED fresh /\ Keep

Here == Task.on
Mine(n) == mem[Here][n]
Exists(a) == a \in DOMAIN contracts

Records(n, a) == mem' = [mem EXCEPT ![Here][n] = a]
NoRecord == UNCHANGED <<mem, made>>

Contract(uses, funds) ==
  [uses |-> uses, peers |-> [d \in Chain |-> Nil], paths |-> {}, trusts |-> Nil,
   set |-> {}, funds |-> funds]

Creates(a, uses, funds) ==
  contracts' = [x \in DOMAIN contracts \cup {a} |->
                  IF x = a THEN Contract(uses, funds) ELSE contracts[x]]

(* The stock that exists before: its OFT here is an adapter that locks it. *)
Adapts(n) == n = "Base" /\ Here = home /\ home \in Adapting
TokenOf(n) == IF Adapts(n) THEN Fixed(home, "Token") ELSE Mine(n)

(* What a constructor is given.                                            *)
Uses(n) ==
  CASE n \in {"Endpoint", "Router"} -> <<>>
    [] n = "Library" -> <<Mine("Endpoint")>>
    [] n \in {"Base", "Quote"} ->
         IF Adapts(n) THEN <<TokenOf(n), Mine("Endpoint")>> ELSE <<Mine("Endpoint")>>
    [] n = "Swap" -> <<Mine("Endpoint"), Mine("Base"), Mine("Quote"), Mine("Router")>>
    [] n = "Pool" -> <<Mine("Router"), TokenOf("Base"), TokenOf("Quote")>>

Address(n) == <<Here, n, next>>

CreatesNew(n, funds) == Creates(Address(n), Uses(n), funds) /\ next' = next + 1

Writes(a, field, v) == contracts' = [contracts EXCEPT ![a][field] = v] /\ UNCHANGED next

Skips == UNCHANGED chainVars /\ NoRecord

(* A transaction reverts, or a check fails: the process ends.              *)
Ends ==
  /\ at' = 0 /\ fresh' = FALSE /\ made' = {}
  /\ mem' = [d \in Chain |-> Nowhere]

(* Mutant: every run has its own relays.                                   *)
ReusedButSwap(n) == n # "Swap" /\ Mine(n) # Nil /\ Exists(Mine(n))

(* reuse: recorded, and there is code there.                               *)
Reused(n) == Mine(n) # Nil /\ Exists(Mine(n))

(* The whole supply is the home chain's; an adapter mints none.            *)
Genesis(n) == IF Here = home /\ n \in {"Base", "Quote"} /\ ~Adapts(n) THEN 1 ELSE 0

Deploys(n) ==
  CreatesNew(n, Genesis(n)) /\ Records(n, Address(n)) /\ made' = made \cup {Address(n)}

(* A check the run ends at, if it fails.                                   *)
Checks(do, passes) ==
  /\ at # 0 /\ Task.do = do /\ Keep /\ UNCHANGED <<disk, chainVars>>
  /\ IF passes THEN at' = at + 1 /\ UNCHANGED <<mem, made, fresh>> ELSE Ends

Reachable == Checks("preflight", Here \in up)
IsProgramDeployed == Checks("programs", Exists(Fixed(Here, "Programs")))
TokenExists == Checks("token", Adapts("Base") => Exists(TokenOf("Base")))

Deploy ==
  /\ Does("deploy") /\ UNCHANGED disk
  /\ IF Reused(Task.what) THEN Skips ELSE Deploys(Task.what)

(* Only for a new endpoint or library; the endpoint refuses one it knows.  *)
Register ==
  LET new == {Mine("Endpoint"), Mine("Library")} \cap made # {}
      e == Mine("Endpoint")
  IN
  /\ at # 0 /\ Task.do = "register" /\ Keep /\ UNCHANGED disk
  /\ IF new /\ "library" \in contracts[e].set THEN Ends /\ UNCHANGED chainVars
     ELSE /\ at' = at + 1 /\ UNCHANGED fresh /\ NoRecord
          /\ IF new THEN Writes(e, "set", contracts[e].set \cup {"library"})
             ELSE UNCHANGED chainVars

(* The route to a chain is skipped, both halves, if the first half is set. *)
Send ==
  LET e == Mine("Endpoint") IN
  /\ at # 0 /\ Task.do = "send" /\ Keep /\ UNCHANGED <<disk, fresh>> /\ NoRecord
  /\ IF contracts[e].peers[Task.to] = Mine("Library")
     THEN at' = at + 2 /\ UNCHANGED chainVars
     ELSE /\ at' = at + 1
          /\ Writes(e, "peers", [contracts[e].peers EXCEPT ![Task.to] = Mine("Library")])

Receive ==
  LET e == Mine("Endpoint") IN
  /\ Does("receive") /\ UNCHANGED disk /\ NoRecord
  /\ Writes(e, "paths", contracts[e].paths \cup {<<Task.to, Mine("Library")>>})

(* The same contract on another chain; the Solana home's relay has an      *)
(* address before it exists.                                               *)
Counterpart(d, n) ==
  IF n = "Swap" /\ d = home /\ home \in Solana THEN Fixed(home, "Swap") ELSE mem[d][n]

Peered(a, d, v) == [contracts[a].peers EXCEPT ![d] = v]

(* Mutant: a peer that is set already is left as it is.                    *)
WiresIfUnset(a, d, v) == contracts[a].peers[d] = Nil

(* A peer that points elsewhere is repointed.                              *)
Wires(a, d, v) == contracts[a].peers[d] # v

Wire ==
  LET a == Mine(Task.what)
      v == Counterpart(Task.to, Task.what)
  IN
  /\ Does("wire") /\ UNCHANGED disk /\ NoRecord
  /\ IF Wires(a, Task.to, v) THEN Writes(a, "peers", Peered(a, Task.to, v))
     ELSE UNCHANGED chainVars

(* deployPool, unless a pool is recorded and live.                         *)
Uniswap ==
  /\ Does("uniswap") /\ UNCHANGED disk
  /\ IF Reused("Pool") THEN Skips
     ELSE IF ~Given THEN Deploys("Router")
     ELSE Records("Router", Fixed(Here, "Router")) /\ UNCHANGED <<chainVars, made>>

PoolsOf == {a \in DOMAIN contracts : contracts[a].uses = Uses("Pool")}

(* createAndInitializePoolIfNecessary.                                     *)
CreatePool ==
  /\ Does("pool") /\ UNCHANGED disk /\ NoRecord
  /\ IF Reused("Pool") \/ PoolsOf # {} THEN UNCHANGED chainVars
     ELSE CreatesNew("Pool", 0)

Seed ==
  /\ Does("seed") /\ UNCHANGED disk
  /\ IF Reused("Pool") THEN Skips
     ELSE \E p \in PoolsOf :
            /\ Writes(p, "funds", contracts[p].funds + 1)
            /\ Records("Pool", p) /\ UNCHANGED made

(* The relay's native buffer: only when it is new.                         *)
Fund ==
  LET r == Mine("Swap") IN
  /\ Does("fund") /\ UNCHANGED disk /\ NoRecord
  /\ IF r \in made THEN Writes(r, "funds", contracts[r].funds + 1) ELSE UNCHANGED chainVars

(* Settings written at every run: gas, partners, and closing to others.    *)
Sets(do, v) ==
  LET a == Mine(Task.what) IN
  /\ Does(do) /\ UNCHANGED disk /\ NoRecord
  /\ Writes(a, "set", contracts[a].set \cup {v})

Gas == Sets("gas", Task.to)
SetPartners == Sets("partners", "partners")
Close == Sets("close", "closed")

(* The recovery minter of a mirror's OFT, the delegate of the home's.      *)
SetsTrusted(do) ==
  /\ Does(do) /\ UNCHANGED disk /\ NoRecord
  /\ Writes(Mine(Task.what), "trusts", Mine("Swap"))

SetTrusted == SetsTrusted("trust")
SetRecoveryMinter == SetsTrusted("minter")
SetDelegate == SetsTrusted("delegate")

SaveManifest ==
  /\ Does("save") /\ UNCHANGED chainVars /\ NoRecord
  /\ disk' = [d \in Chain |-> IF d \in Evm THEN mem[d] ELSE disk[d]]

-----------------------------------------------------------------------------
(* Solana.                                                                 *)

(* Mutant: NOTES.md, defaults set again at every run, which is refused.    *)
NeedsDefaultsAlways(d) == TRUE

NeedsDefaults(d) ==
  LET e == Fixed(Here, "Endpoint") IN ~Exists(e) \/ contracts[e].peers[d] = Nil

(* initLocalEndpoint: the endpoint, then the route to one chain, both      *)
(* halves at once.                                                         *)
Defaults ==
  LET e == Fixed(Here, "Endpoint")
      known == Exists(e) /\ contracts[e].peers[Task.to] # Nil
      old == IF Exists(e) THEN contracts[e] ELSE Contract(<<>>, 0)
      new == [old EXCEPT !.peers[Task.to] = e, !.paths = @ \cup {<<Task.to, e>>}]
  IN
  /\ at # 0 /\ Task.do = "defaults" /\ Keep /\ UNCHANGED <<disk, next>>
  /\ IF NeedsDefaults(Task.to) /\ known THEN Ends /\ UNCHANGED contracts
     ELSE /\ at' = at + 1 /\ UNCHANGED <<fresh, made>>
          /\ mem' = [mem EXCEPT ![Here]["Endpoint"] = e]
          /\ contracts' = IF NeedsDefaults(Task.to)
                          THEN [x \in DOMAIN contracts \cup {e} |-> IF x = e THEN new ELSE contracts[x]]
                          ELSE contracts

(* recordIsLive.                                                           *)
RecordIsLive ==
  \A n \in {"Base", "Quote", "Swap"} : disk[Here][n] # Nil /\ Exists(disk[Here][n])

Load ==
  /\ Does("load") /\ UNCHANGED <<disk, chainVars, made>>
  /\ mem' = [mem EXCEPT ![Here] =
       [IF RecordIsLive THEN disk[Here] ELSE Nowhere EXCEPT !["Endpoint"] = Fixed(Here, "Endpoint")]]

(* initOft: a mint, its supply on the home chain, and its OFT store.  What *)
(* a crash leaves of it is used by nothing.                                *)
InitOft ==
  /\ Does("oft") /\ UNCHANGED disk
  /\ IF Mine(Task.what) # Nil THEN Skips ELSE Deploys(Task.what)

(* init_store and init_relay: once for the life of the program.            *)
InitStore ==
  LET a == Fixed(Here, "Swap") IN
  /\ Does("store") /\ UNCHANGED <<disk, next, made>>
  /\ Records("Swap", a)
  /\ IF Exists(a) THEN UNCHANGED contracts ELSE Creates(a, Uses("Swap"), 0)

(* A peer on Solana is written each time; the relay's is with its options. *)
SetsPeer(do) ==
  LET a == Mine(Task.what) IN
  /\ Does(do) /\ UNCHANGED disk /\ NoRecord
  /\ Writes(a, "peers", Peered(a, Task.to, Counterpart(Task.to, Task.what)))

Peer == SetsPeer("peer")
SetHomeRelay == SetsPeer("homeRelay")

SetPeer ==
  LET a == Mine("Swap") IN
  /\ Does("request") /\ UNCHANGED <<disk, next>> /\ NoRecord
  /\ contracts' = [contracts EXCEPT
       ![a].peers[Task.to] = mem[Task.to]["Swap"],
       ![a].set = @ \cup {Task.to}]

TokenAccounts == Sets("accounts", "accounts")
SetTable == Sets("table", "table")

(* initOAppPath, to the counterpart; a return route, for an asset or none. *)
HasPath(a, v) ==
  /\ UNCHANGED disk /\ NoRecord
  /\ Writes(a, "paths", contracts[a].paths \cup {<<Task.to, v>>})

Path == Does("path") /\ HasPath(Mine(Task.what), Counterpart(Task.to, Task.what))
Route == Does("route") /\ HasPath(Mine("Swap"), Mine(Task.what))
NoticeRoute == Does("notice") /\ HasPath(Mine("Swap"), Nil)

(* deploySolanaPool: a pool of its own configuration, seeded.              *)
Whirlpool ==
  /\ Does("whirlpool") /\ UNCHANGED disk
  /\ CreatesNew("Pool", 1) /\ Records("Pool", Address("Pool")) /\ UNCHANGED made

WriteFile ==
  /\ Does("write") /\ UNCHANGED chainVars /\ NoRecord
  /\ disk' = [disk EXCEPT ![Here] = mem[Here]]

-----------------------------------------------------------------------------
Configured == {home} \cup {Config[home][i] : i \in 1..configured}

(* What finalizeManifest finds missing.                                    *)
Required(d) ==
  {"Endpoint", "Base", "Quote", "Swap"} \cup (IF d = home THEN {"Pool"} ELSE {})

Missing == {x \in (Configured \cap Evm) \X Name : x[2] \in Required(x[1]) /\ mem[x[1]][x[2]] = Nil}

Finish ==
  /\ at # 0 /\ Task.do = "finish" /\ Ends
  /\ disk' = [d \in Chain |-> IF d \in Evm THEN mem[d] ELSE disk[d]]
  /\ live' = IF Missing = {} THEN Configured ELSE live
  /\ UNCHANGED <<home, configured, up, chainVars, events>>

Happens == events < MaxEvents /\ events' = events + 1

(* A run is started: because one is needed, or all the same, or afresh.    *)
(* One for a Solana home replaces its assets, and so spares nothing.       *)
Start ==
  /\ at = 0 /\ at' = 1
  /\ fresh' \in BOOLEAN
  /\ IF live = Configured \/ fresh' THEN Happens ELSE UNCHANGED events
  /\ mem' = [d \in Chain |-> IF d \in Evm /\ ~fresh' THEN disk[d] ELSE Nowhere]
  /\ live' = IF fresh' \/ home \in Solana THEN {} ELSE live
  /\ UNCHANGED <<home, configured, up, chainVars, disk, made>>

AddMirror ==
  /\ at = 0 /\ Happens
  /\ configured < Len(Config[home]) /\ configured' = configured + 1
  /\ UNCHANGED <<home, up, chainVars, disk, runVars, live>>

(***************************************************************************)
(* The operator: starts all chains of a kind, empty, and stops them; loads *)
(* the programs onto a Solana chain; issues the token that is adapted.     *)
(***************************************************************************)
Local(vm) == ({home} \cup ToSet(Config[home])) \cap vm

Up(vm) ==
  /\ at = 0
  /\ Local(vm) # {} /\ Local(vm) \cap up = {}
  /\ up' = up \cup Local(vm)
  /\ UNCHANGED <<home, configured, chainVars, disk, runVars, live, events>>

ChainsUp == Up(Evm)
ValidatorsUp == Up(Solana)

Down(vm) ==
  /\ at = 0 /\ Happens
  /\ Local(vm) \cap up # {} /\ up' = up \ vm
  /\ contracts' = [a \in {a \in DOMAIN contracts : a[1] \notin vm} |-> contracts[a]]
  /\ live' = {}
  /\ UNCHANGED <<home, configured, next, disk, runVars>>

ChainsDown == Down(Evm)
ValidatorsDown == Down(Solana)

(* All Solana chains of the configuration; at what is there nothing changes*)
Loads(all, funds) ==
  LET new == all \ DOMAIN contracts IN
  /\ at = 0
  /\ new # {} /\ \A a \in all : a[1] \in up
  /\ contracts' = [x \in DOMAIN contracts \cup new |->
                    IF x \in new THEN Contract(<<>>, funds) ELSE contracts[x]]
  /\ UNCHANGED <<home, configured, up, next, disk, runVars, live, events>>

DeployPrograms == Loads({Fixed(d, "Programs") : d \in Local(Solana)}, 0)
DeployLegacy == home \in Adapting /\ Loads({Fixed(home, "Token")}, 1)

Crash ==
  /\ at # 0 /\ Happens /\ Ends
  /\ UNCHANGED <<home, configured, up, chainVars, disk, live>>

Run ==
  \/ Reachable \/ IsProgramDeployed \/ TokenExists
  \/ Deploy \/ Register \/ Send \/ Receive \/ Wire
  \/ Uniswap \/ CreatePool \/ Seed \/ Fund
  \/ Gas \/ SetPartners \/ Close \/ SetTrusted \/ SaveManifest
  \/ Defaults \/ Load \/ InitOft \/ InitStore \/ Peer \/ SetHomeRelay
  \/ SetRecoveryMinter \/ Path \/ Whirlpool
  \/ SetPeer \/ TokenAccounts \/ Route \/ NoticeRoute \/ SetDelegate \/ SetTable \/ WriteFile \/ Finish

Prepare ==
  \/ ChainsUp \/ ValidatorsUp \/ DeployPrograms \/ DeployLegacy

Next == Run \/ Start \/ AddMirror \/ Crash \/ Prepare \/ ChainsDown \/ ValidatorsDown

Spec == Init /\ [][Next]_vars

(* The operator prepares what is missing, and runs it until it is through; *)
(* a run goes on.                                                          *)
LiveSpec ==
  Spec /\ WF_vars(Run) /\ WF_vars(UNCHANGED events /\ Start) /\ SF_vars(Prepare)

-----------------------------------------------------------------------------
(* Properties.                                                             *)

Asset == {"Base", "Quote"}
On(d, n) == disk[d][n]
State(d, n) == contracts[disk[d][n]]

(* The assets of any two chains are peers, and so are a mirror's           *)
(* SwapRequest and the home's SwapRelay, both ways, with the gas set.      *)
Meshed ==
  /\ \A x, y \in live : x # y => \A n \in Asset : State(x, n).peers[y] = On(y, n)
  /\ \A m \in live \ {home} :
       /\ State(home, "Swap").peers[m] = On(m, "Swap") /\ m \in State(home, "Swap").set
       /\ State(m, "Swap").peers[home] = On(home, "Swap")
       /\ m \in Evm => home \in State(m, "Swap").set

(* A chain's SwapRequest may restore its assets, the relay kill messages   *)
(* of the home's; both are built on the assets recorded with them.         *)
Trusted ==
  \A d \in live :
    /\ \A n \in Asset : State(d, n).trusts = On(d, "Swap")
    /\ d \in Evm => State(d, "Swap").uses =
                      <<On(d, "Endpoint"), On(d, "Base"), On(d, "Quote"), On(d, "Router")>>

(* Each endpoint has a way out to each chain, a Solana one a path as well. *)
Routed ==
  \A x, y \in live : x # y =>
    /\ State(x, "Endpoint").peers[y] = On(x, IF x \in Evm THEN "Library" ELSE "Endpoint")
    /\ x \in Evm => "library" \in State(x, "Endpoint").set
    /\ x \in Solana =>
         /\ \A n \in Asset : <<y, On(y, n)>> \in State(x, n).paths
         /\ home \in {x, y} => <<y, On(y, "Swap")>> \in State(x, "Swap").paths
         /\ x = home =>
              /\ \A n \in Asset : <<y, On(x, n)>> \in State(x, "Swap").paths
              /\ <<y, Nil>> \in State(x, "Swap").paths
              /\ {"accounts", "table"} \subseteq State(x, "Swap").set

(* One genesis, or a lockbox for what exists; a pool that is seeded, and   *)
(* one buffer for an EVM relay.                                            *)
Funded ==
  live # {} =>
    /\ \A d \in live, n \in Asset :
         LET adapted == d = home /\ n = "Base" /\ home \in Adapting IN
         /\ State(d, n).funds = IF d = home /\ ~adapted THEN 1 ELSE 0
         /\ adapted => State(d, n).uses[1] = Fixed(home, "Token")
    /\ State(home, "Pool").funds > 0
    /\ home \in Evm => State(home, "Swap").funds = 1

(* No mirror is closed to plain orders before its partners exist.          *)
PartnersFirst ==
  \A a \in DOMAIN contracts : "closed" \in contracts[a].set => "partners" \in contracts[a].set

(***************************************************************************)
(* From the moment it is reported complete, whatever crashed on the way,   *)
(* a deployment is one in which every message has somewhere to go; it stays*)
(* so while mirrors are added to it, runs that crash included.             *)
(***************************************************************************)
Wired == Meshed /\ Trusted /\ Routed /\ Funded /\ PartnersFirst

(***************************************************************************)
(* What is recorded and still there is recorded for good, and not funded,  *)
(* or seeded, again; except for a Solana home, or by --fresh.              *)
(***************************************************************************)
Untouched ==
  [][\A d \in Chain, n \in Name : LET a == On(d, n) IN
       (~fresh /\ (d \in Evm \/ d # home) /\ a \in DOMAIN contracts \cap DOMAIN contracts')
         => disk'[d][n] = a /\ contracts'[a].funds = contracts[a].funds
     ]_<<disk, contracts>>

(***************************************************************************)
(* Whatever a run was cut short at, a run gets through after it.           *)
(***************************************************************************)
CompletedAtLast == []<>(live = Configured)

=============================================================================
