---------------------------- MODULE SolanaProofs ----------------------------
(***************************************************************************)
(* The programs on Solana, and the pages that show what is there.          *)
(*                                                                         *)
(* Kill, then notify, with a home on Solana: a message whose cancellation  *)
(* has been announced is dead, for every value of the constants, whatever  *)
(* the operator read before and whoever initialises, verifies or delivers  *)
(* meanwhile.                                                              *)
(*                                                                         *)
(* The endpoint program advances its nonce over verified messages, so the  *)
(* invariant says that what it has passed has no empty account left that a *)
(* later verification could fill.                                          *)
(*                                                                         *)
(* The relay's books, there: its accounts hold what it owes, in tokens.    *)
(*                                                                         *)
(* The promise: towards its mirrors this home is the one HomePromise       *)
(* states, so what is proved of a desk facing the promise holds here.      *)
(*                                                                         *)
(* The measurements: a page never goes back in time, and what a report     *)
(* adds up, call by call, while tokens move is what exists.                *)
(***************************************************************************)
EXTENDS RelayAdmin, LiveSupply, LedgerProofs, SequenceTheorems

(* The requests, whatever their amounts.                                   *)
Rows(U) ==
  [user : U, dir : U, amountIn : U, minAmountOut : U, amountOut : U, status : U,
   lzNonce : Nat]

Tabled == \E U : requests \in [Mirrors -> [Ids -> Rows(U)]]

IsPlaced(p) == p.m \in Mirrors /\ p.t \in Tokens /\ p.nonce \in Nat

PathTypes ==
  /\ outNonce \in [Mirrors -> [Tokens -> Nat]]
  /\ \A p \in orders : IsPlaced(p)
  /\ Tabled
  /\ inbound \in [Mirrors -> [Tokens -> Nat]]
  /\ initialised \in [Mirrors -> [Tokens -> SUBSET Nat]]
  /\ verified \in [Mirrors -> [Tokens -> SUBSET Nat]]

(* The operator only asks for messages some mirror has sent.               *)
CallTypes ==
  \/ call = None
  \/ \E x, d : call = [of |-> x, do |-> d] /\ (d = "init" => IsPlaced(x))

(* The account of a message that can still be verified is ahead of the     *)
(* inbound nonce, and empty.                                               *)
AccountsAhead ==
  \A m \in Mirrors, t \in Tokens : \A n \in initialised[m][t] :
    n > inbound[m][t] /\ n \notin verified[m][t]

(* No packet and no request has a nonce its path has not given out.        *)
NoncesTaken ==
  /\ \A p \in orders : p.nonce <= outNonce[p.m][p.t]
  /\ \A m \in Mirrors, i \in Ids :
       requests[m][i].status # "NONE" =>
         requests[m][i].lzNonce <= outNonce[m][TokenIn(requests[m][i].dir)]

(* A path and a nonce name one order.                                      *)
NonceNamesOrder ==
  \A p \in orders, i \in Ids :
    i \in RequestsByNonce(p.m, p.t, p.nonce) => p.id = i

PathInv ==
  /\ PathTypes
  /\ AccountsAhead
  /\ NoncesTaken
  /\ NonceNamesOrder
  /\ KilledBeforeNotice

KillInv == PathInv /\ CallTypes

-----------------------------------------------------------------------------
(***************************************************************************)
(* The inbound nonce passes over no message that is not verified: those it *)
(* counts all lie below the first that is missing.                         *)
(***************************************************************************)
LEMMA PassesOver ==
  ASSUME NEW from \in Nat, NEW done
  PROVE  /\ Advanced(from, done) \in Nat /\ Advanced(from, done) >= from
         /\ \A n \in (from + 1)..Advanced(from, done) : n \in done
<1> DEFINE U == Unbroken(from, done)
<1>1. MaxNonce \in Nat
  BY WireAssumption
<1>2. IsFiniteSet((from + 1)..MaxNonce)
  BY <1>1, FS_Interval
<1>3. U \subseteq (from + 1)..MaxNonce
  BY DEF Unbroken
<1>4. IsFiniteSet(U)
  BY <1>2, <1>3, FS_Subset
<1>5. Cardinality(U) \in Nat
  BY <1>4, FS_CardinalityType
<1>6. \A u \in U : u \in Nat /\ from + 1 <= u /\ (from + 1)..u \subseteq done
  BY <1>1 DEF Unbroken
<1> HIDE DEF U
<1>7. ASSUME NEW n \in (from + 1)..(from + Cardinality(U)), n \notin done
      PROVE  FALSE
  <2>1. n \in Nat /\ from + 1 <= n
    BY <1>5
  <2>2. U \subseteq (from + 1)..(n - 1)
    BY <1>6, <1>7, <2>1
  <2>3. PICK a \in Int, b \in Int : a = from + 1 /\ b = n - 1
    BY <2>1
  <2>4. IsFiniteSet(a..b) /\ Cardinality(a..b) = IF a > b THEN 0 ELSE b - a + 1
    BY FS_Interval
  <2>5. Cardinality(U) <= Cardinality(a..b)
    BY <2>2, <2>3, <2>4, FS_Subset
  <2>6. Cardinality(U) <= n - 1 - from
    BY <2>1, <2>3, <2>4, <2>5
  <2> QED
    BY <1>5, <1>7, <2>1, <2>6
<1> QED
  BY <1>5, <1>7 DEF Advanced, U

-----------------------------------------------------------------------------
(* Requests that change.                                                   *)

(* Typing rows over more values only widens the tables.                    *)
LEMMA RowsGrow ==
  ASSUME NEW U, NEW V, U \subseteq V
  PROVE  [Mirrors -> [Ids -> Rows(U)]] \subseteq [Mirrors -> [Ids -> Rows(V)]]
<1>1. Rows(U) \subseteq Rows(V)
  BY DEF Rows
<1> QED
  BY <1>1

(* A request takes another status, perhaps with what it received.          *)
BecomesWith(a, b, s, x) ==
  \/ requests' = [requests EXCEPT ![a][b].status = s]
  \/ requests' = [requests EXCEPT ![a][b].status = s, ![a][b].amountOut = x]

(* A request that is closed keeps its direction and its nonce.             *)
LEMMA ClosedKeeps ==
  ASSUME Tabled, NEW a, NEW b, NEW s, NEW x,
         BecomesWith(a, b, s, x)
  PROVE  /\ Tabled'
         /\ \A m \in Mirrors, i \in Ids :
              /\ requests'[m][i].dir = requests[m][i].dir
              /\ requests'[m][i].lzNonce = requests[m][i].lzNonce
              /\ IF m = a /\ i = b THEN requests'[m][i].status = s
                 ELSE requests'[m][i] = requests[m][i]
<1>1. PICK U : requests \in [Mirrors -> [Ids -> Rows(U)]]
  BY DEF Tabled
<1> DEFINE V == U \cup {s, x}
<1>2. requests \in [Mirrors -> [Ids -> Rows(V)]] /\ s \in V /\ x \in V
  BY <1>1, RowsGrow
<1> HIDE DEF V
<1>3. ASSUME NEW m \in Mirrors, NEW i \in Ids
      PROVE  LET old == requests[m][i] IN
             \/ requests'[m][i] = old /\ ~(m = a /\ i = b)
             \/ requests'[m][i] = [old EXCEPT !.status = s] /\ m = a /\ i = b
             \/ /\ requests'[m][i] = [old EXCEPT !.status = s, !.amountOut = x]
                /\ m = a /\ i = b
  <2>1. CASE requests' = [requests EXCEPT ![a][b].status = s]
    BY <1>2, <2>1
  <2>2. CASE requests' = [requests EXCEPT ![a][b].status = s, ![a][b].amountOut = x]
    BY <1>2, <2>2
  <2> QED
    BY <2>1, <2>2 DEF BecomesWith
<1>4. ASSUME NEW m \in Mirrors, NEW i \in Ids
      PROVE  /\ requests'[m][i].dir = requests[m][i].dir
             /\ requests'[m][i].lzNonce = requests[m][i].lzNonce
             /\ IF m = a /\ i = b THEN requests'[m][i].status = s
                ELSE requests'[m][i] = requests[m][i]
             /\ requests'[m][i] \in Rows(V)
  <2>1. PICK old \in Rows(V) : old = requests[m][i]
    BY <1>2
  <2> DEFINE closed == [old EXCEPT !.status = s]
             priced == [old EXCEPT !.status = s, !.amountOut = x]
  <2>2. /\ closed \in Rows(V) /\ closed.status = s
        /\ closed.dir = old.dir /\ closed.lzNonce = old.lzNonce
    BY <1>2, <2>1 DEF Rows
  <2>3. /\ priced \in Rows(V) /\ priced.status = s
        /\ priced.dir = old.dir /\ priced.lzNonce = old.lzNonce
    BY <1>2, <2>1 DEF Rows
  <2>4. \/ requests'[m][i] = old /\ ~(m = a /\ i = b)
        \/ requests'[m][i] = closed /\ m = a /\ i = b
        \/ requests'[m][i] = priced /\ m = a /\ i = b
    BY <1>3, <2>1
  <2> HIDE DEF closed, priced
  <2> QED
    BY <2>1, <2>2, <2>3, <2>4
<1>5. requests' \in [Mirrors -> [Ids -> Rows(V)]]
  <2>1. requests' = [m \in Mirrors |-> [i \in Ids |-> requests'[m][i]]]
    BY <1>2 DEF BecomesWith
  <2> QED
    BY <1>4, <2>1
<1> QED
  BY <1>4, <1>5 DEF Tabled

-----------------------------------------------------------------------------
(***************************************************************************)
(* What a step of the endpoint program keeps: accounts stay ahead of the   *)
(* inbound nonce, and what is dead stays dead.                             *)
(***************************************************************************)
EndpointKeeps ==
  /\ inbound' \in [Mirrors -> [Tokens -> Nat]]
  /\ initialised' \in [Mirrors -> [Tokens -> SUBSET Nat]]
  /\ verified' \in [Mirrors -> [Tokens -> SUBSET Nat]]
  /\ AccountsAhead'
  /\ \A m \in Mirrors, t \in Tokens, n \in Nat : Dead(m, t, n) => Dead(m, t, n)'

(* A path whose nonce does not fall, whose accounts stay ahead of it and   *)
(* which verifies nothing behind it.                                       *)
LEMMA PathKeeps ==
  ASSUME PathTypes, AccountsAhead, NEW a \in Mirrors, NEW b \in Tokens,
         NEW at \in Nat, NEW empty \in SUBSET Nat, NEW done \in SUBSET Nat,
         inbound' = [inbound EXCEPT ![a][b] = at],
         initialised' = [initialised EXCEPT ![a][b] = empty],
         verified' = [verified EXCEPT ![a][b] = done],
         at >= inbound[a][b],
         \A n \in empty : n > at /\ n \notin done,
         \A n \in done : n \in verified[a][b] \/ n > inbound[a][b]
  PROVE  EndpointKeeps
<1>1. /\ inbound \in [Mirrors -> [Tokens -> Nat]]
      /\ initialised \in [Mirrors -> [Tokens -> SUBSET Nat]]
      /\ verified \in [Mirrors -> [Tokens -> SUBSET Nat]]
  BY DEF PathTypes
<1>2. /\ inbound' \in [Mirrors -> [Tokens -> Nat]]
      /\ initialised' \in [Mirrors -> [Tokens -> SUBSET Nat]]
      /\ verified' \in [Mirrors -> [Tokens -> SUBSET Nat]]
  BY <1>1
<1>3. \A m \in Mirrors, t \in Tokens :
        IF m = a /\ t = b
        THEN inbound'[m][t] = at /\ initialised'[m][t] = empty /\ verified'[m][t] = done
        ELSE /\ inbound'[m][t] = inbound[m][t]
             /\ initialised'[m][t] = initialised[m][t]
             /\ verified'[m][t] = verified[m][t]
  BY <1>1
<1>4. AccountsAhead'
  BY <1>3 DEF AccountsAhead
<1>5. ASSUME NEW m \in Mirrors, NEW t \in Tokens, NEW n \in Nat, Dead(m, t, n)
      PROVE  Dead(m, t, n)'
  <2>1. CASE m = a /\ t = b
    <3>1. inbound[a][b] \in Nat /\ n <= inbound[a][b] /\ n \notin verified[a][b]
      BY <1>1, <1>5, <2>1 DEF Dead
    <3>2. n <= at /\ n \notin done
      BY <3>1
    <3> QED
      BY <1>3, <2>1, <3>2 DEF Dead
  <2>2. CASE ~(m = a /\ t = b)
    BY <1>3, <1>5, <2>2 DEF Dead
  <2> QED
    BY <2>1, <2>2
<1> QED
  BY <1>2, <1>4, <1>5 DEF EndpointKeeps

(* An account is created ahead of the inbound nonce.                       *)
LEMMA InitKeeps ==
  ASSUME PathTypes, AccountsAhead, NEW m \in Mirrors, NEW t \in Tokens, NEW n \in Nat,
         InitVerify(m, t, n)
  PROVE  EndpointKeeps
<1> DEFINE at    == inbound[m][t]
           empty == initialised[m][t] \cup {n}
           done  == verified[m][t]
<1>1. at \in Nat /\ empty \in SUBSET Nat /\ done \in SUBSET Nat
  BY DEF PathTypes
<1>2. /\ inbound' = [inbound EXCEPT ![m][t] = at]
      /\ initialised' = [initialised EXCEPT ![m][t] = empty]
      /\ verified' = [verified EXCEPT ![m][t] = done]
  BY DEF PathTypes, InitVerify
<1>3. \A k \in empty : k > at /\ k \notin done
  BY DEF InitVerify, IsVerifiable, AccountsAhead
<1>4. at >= inbound[m][t] /\ \A k \in done : k \in verified[m][t]
  BY <1>1
<1> HIDE DEF at, empty, done
<1> QED
  BY <1>1, <1>2, <1>3, <1>4, PathKeeps

(* A verification passes over nothing that is still empty.                 *)
LEMMA VerifyKeeps ==
  ASSUME PathTypes, AccountsAhead, NEW p \in orders, Verify(p)
  PROVE  EndpointKeeps
<1>1. PICK m \in Mirrors, t \in Tokens, n \in Nat : p.m = m /\ p.t = t /\ p.nonce = n
  BY DEF PathTypes, IsPlaced
<1> DEFINE from  == inbound[m][t]
           empty == initialised[m][t] \ {n}
           done  == verified[m][t] \cup {n}
           at    == Advanced(from, done)
<1>2. from \in Nat /\ empty \in SUBSET Nat /\ done \in SUBSET Nat
  BY DEF PathTypes
<1>3. /\ at \in Nat /\ at >= from
      /\ \A k \in (from + 1)..at : k \in done
  BY <1>2, PassesOver
<1>4. /\ inbound' = [inbound EXCEPT ![m][t] = at]
      /\ initialised' = [initialised EXCEPT ![m][t] = empty]
      /\ verified' = [verified EXCEPT ![m][t] = done]
  BY <1>1 DEF Verify, PathTypes
<1>5. n \in initialised[m][t]
  BY <1>1 DEF Verify
<1>6. \A k \in initialised[m][t] : k \in Nat /\ k > from /\ k \notin verified[m][t]
  BY DEF AccountsAhead, PathTypes
<1> HIDE DEF at
<1>7. \A k \in empty : k > at /\ k \notin done
  BY <1>2, <1>3, <1>6
<1>8. \A k \in done : k \in verified[m][t] \/ k > inbound[m][t]
  BY <1>5, <1>6
<1>9. at >= inbound[m][t]
  BY <1>3
<1> HIDE DEF empty, done
<1> QED
  BY <1>2, <1>3, <1>4, <1>7, <1>8, <1>9, PathKeeps

(* What lz_receive clears was verified, so it was not dead.                *)
LEMMA ReceiveKeeps ==
  ASSUME PathTypes, AccountsAhead, NEW p \in orders, ReceiveOrder(p)
  PROVE  EndpointKeeps /\ ~Dead(p.m, p.t, p.nonce)
<1>1. PICK m \in Mirrors, t \in Tokens, n \in Nat : p.m = m /\ p.t = t /\ p.nonce = n
  BY DEF PathTypes, IsPlaced
<1> DEFINE at    == inbound[m][t]
           empty == initialised[m][t]
           done  == verified[m][t] \ {n}
<1>2. at \in Nat /\ empty \in SUBSET Nat /\ done \in SUBSET Nat
  BY DEF PathTypes
<1>3. /\ inbound' = [inbound EXCEPT ![m][t] = at]
      /\ initialised' = [initialised EXCEPT ![m][t] = empty]
      /\ verified' = [verified EXCEPT ![m][t] = done]
  BY <1>1 DEF PathTypes, ReceiveOrder
<1>4. \A k \in empty : k > at /\ k \notin done
  BY DEF AccountsAhead
<1>5. at >= inbound[m][t] /\ \A k \in done : k \in verified[m][t]
  BY <1>2
<1>6. EndpointKeeps
  <2> HIDE DEF at, empty, done
  <2> QED
    BY <1>2, <1>3, <1>4, <1>5, PathKeeps
<1> QED
  BY <1>6 DEF ReceiveOrder, Dead

(* A skip kills: its account is gone, and the nonce has passed it.         *)
LEMMA SkipKills ==
  ASSUME PathTypes, AccountsAhead, NEW m \in Mirrors, NEW t \in Tokens, NEW n \in Nat,
         Skip(m, t, n)
  PROVE  EndpointKeeps /\ Dead(m, t, n)'
<1> DEFINE from  == inbound[m][t]
           empty == initialised[m][t] \ {n}
           done  == verified[m][t]
           at    == Advanced(n, done)
<1>1. from \in Nat /\ empty \in SUBSET Nat /\ done \in SUBSET Nat
  BY DEF PathTypes
<1>2. n = from + 1 /\ n \in initialised[m][t]
  BY DEF Skip
<1>3. /\ at \in Nat /\ at >= n
      /\ \A k \in (n + 1)..at : k \in done
  BY <1>1, PassesOver
<1>4. /\ inbound' = [inbound EXCEPT ![m][t] = at]
      /\ initialised' = [initialised EXCEPT ![m][t] = empty]
      /\ verified' = [verified EXCEPT ![m][t] = done]
  BY DEF Skip, PathTypes
<1>5. \A k \in initialised[m][t] : k \in Nat /\ k > from /\ k \notin verified[m][t]
  BY DEF AccountsAhead, PathTypes
<1> HIDE DEF at
<1>6. \A k \in empty : k > at /\ k \notin done
  BY <1>1, <1>2, <1>3, <1>5
<1>7. EndpointKeeps
  <2>1. at >= inbound[m][t] /\ \A k \in done : k \in verified[m][t]
    BY <1>1, <1>2, <1>3
  <2> HIDE DEF empty, done
  <2> QED
    BY <1>1, <1>3, <1>4, <1>6, <2>1, PathKeeps
<1>8. inbound'[m][t] = at /\ verified'[m][t] = done
  BY <1>4 DEF PathTypes
<1> QED
  BY <1>2, <1>3, <1>5, <1>7, <1>8 DEF Dead

(* A burn kills: the hash is gone, and the nonce has passed it before.     *)
LEMMA BurnKills ==
  ASSUME PathTypes, AccountsAhead, NEW m \in Mirrors, NEW t \in Tokens, NEW n \in Nat,
         BurnHash(m, t, n)
  PROVE  EndpointKeeps /\ Dead(m, t, n)'
<1> DEFINE at    == inbound[m][t]
           empty == initialised[m][t]
           done  == verified[m][t] \ {n}
<1>1. at \in Nat /\ empty \in SUBSET Nat /\ done \in SUBSET Nat
  BY DEF PathTypes
<1>2. /\ inbound' = [inbound EXCEPT ![m][t] = at]
      /\ initialised' = [initialised EXCEPT ![m][t] = empty]
      /\ verified' = [verified EXCEPT ![m][t] = done]
  BY DEF PathTypes, BurnHash
<1>3. \A k \in empty : k > at /\ k \notin done
  BY DEF AccountsAhead
<1>4. EndpointKeeps
  <2>1. at >= inbound[m][t] /\ \A k \in done : k \in verified[m][t]
    BY <1>1
  <2> HIDE DEF at, empty, done
  <2> QED
    BY <1>1, <1>2, <1>3, <2>1, PathKeeps
<1>5. inbound'[m][t] = at /\ verified'[m][t] = done
  BY <1>2 DEF PathTypes
<1> QED
  BY <1>4, <1>5 DEF Dead, BurnHash

-----------------------------------------------------------------------------
(***************************************************************************)
(* What a step does to orders, requests and notices: it sends a packet,    *)
(* perhaps with a new request (Sends); it closes a request, by a CANCELLED *)
(* notice that leads to it or otherwise, or none (Settles); or it happens  *)
(* on the home chain, where what is announced as killed has died (Carries).*)
(***************************************************************************)
Sends(p) ==
  /\ IsPlaced(p)
  /\ p.nonce = outNonce[p.m][p.t] + 1
  /\ outNonce' = [outNonce EXCEPT ![p.m][p.t] = @ + 1]
  /\ orders' = orders \cup {p}
  /\ Tabled'
  /\ \A m \in Mirrors, i \in Ids :
       \/ requests'[m][i] = requests[m][i]
       \/ /\ m = p.m /\ i = p.id
          /\ TokenIn(requests'[m][i].dir) = p.t
          /\ requests'[m][i].lzNonce = p.nonce
          /\ requests'[m][i].status = "PENDING"
  /\ UNCHANGED <<notices, nonceVars>>

Settles ==
  /\ Tabled'
  /\ \A m \in Mirrors, i \in Ids :
       /\ requests'[m][i].dir = requests[m][i].dir
       /\ requests'[m][i].lzNonce = requests[m][i].lzNonce
       /\ \/ requests'[m][i].status = requests[m][i].status
          \/ /\ requests[m][i].status # "NONE"
             /\ requests'[m][i].status = "CANCELLED" =>
                  \E n \in notices : /\ n.status = "CANCELLED" /\ n.m = m
                                     /\ i \in RequestsByNonce(n.m, n.t, n.lzNonce)
  /\ notices' \subseteq notices
  /\ UNCHANGED <<outNonce, orders, nonceVars>>

Carries ==
  /\ orders' \subseteq orders
  /\ \A p \in orders : p \in orders' \/ ~Dead(p.m, p.t, p.nonce)
  /\ EndpointKeeps
  /\ \A n \in notices' :
       \/ n \in notices \/ n.status # "CANCELLED"
       \/ \E p \in orders' : /\ n.m = p.m /\ n.t = p.t /\ n.lzNonce = p.nonce
                             /\ Dead(p.m, p.t, p.nonce)'
  /\ UNCHANGED <<outNonce, requests>>

(* An accepted order sends its packet and records it under its nonce.      *)
LEMMA SubmitSends ==
  ASSUME PathTypes, NEW m \in Mirrors, NEW trade, NEW partner, NEW bps, NEW recipient,
         Submit(m, trade, partner, bps, recipient), UNCHANGED nonceVars
  PROVE  \E p : Sends(p)
<1> DEFINE t == TokenIn(trade.dir)
           i == nextRequestId[m]
<1>1. t \in Tokens /\ i \in Ids
  BY DEF Submit, TokenIn, Tokens
<1>2. PICK sd, min, sent :
        /\ SendOrder(m, t, i, trade.user, sd, min)
        /\ requests' = [requests EXCEPT ![m][i] =
                          NewRequest(trade, sent, outNonce[m][t] + 1)]
        /\ notices' = notices
  BY DEF Submit
<1> DEFINE p == [m |-> m, t |-> t, nonce |-> outNonce[m][t] + 1, id |-> i,
                 user |-> trade.user, sd |-> sd, min |-> min]
           r == NewRequest(trade, sent, outNonce[m][t] + 1)
<1>3. outNonce' = [outNonce EXCEPT ![m][t] = @ + 1] /\ orders' = orders \cup {p}
  BY <1>2 DEF SendOrder
<1>4. p.m = m /\ p.t = t /\ p.id = i /\ p.nonce = outNonce[m][t] + 1
  OBVIOUS
<1>5. outNonce[m][t] + 1 \in Nat
  BY <1>1 DEF PathTypes
<1>6. r.dir = trade.dir /\ r.lzNonce = outNonce[m][t] + 1 /\ r.status = "PENDING"
  BY DEF NewRequest
<1>7. PICK U : requests \in [Mirrors -> [Ids -> Rows(U)]]
  BY DEF PathTypes, Tabled
<1> DEFINE V == U \cup {r.user, r.dir, r.amountIn, r.minAmountOut, r.amountOut, r.status}
<1>8. r \in Rows(V)
  BY <1>5 DEF NewRequest, Rows
<1>9. requests \in [Mirrors -> [Ids -> Rows(V)]]
  BY <1>7, RowsGrow
<1> HIDE DEF V, r, p, i
<1>10. requests' = [requests EXCEPT ![m][i] = r]
  BY <1>2 DEF r
<1>11. Tabled'
  <2>1. requests' \in [Mirrors -> [Ids -> Rows(V)]]
    BY <1>8, <1>9, <1>10
  <2> QED
    BY <2>1 DEF Tabled
<1>12. \A a \in Mirrors, b \in Ids :
         \/ requests'[a][b] = requests[a][b]
         \/ a = m /\ b = i /\ requests'[a][b] = r
  BY <1>9, <1>10
<1>13. Sends(p)
  <2>1. IsPlaced(p)
    BY <1>1, <1>4, <1>5 DEF IsPlaced
  <2>2. \A a \in Mirrors, b \in Ids :
          \/ requests'[a][b] = requests[a][b]
          \/ /\ a = p.m /\ b = p.id
             /\ TokenIn(requests'[a][b].dir) = p.t
             /\ requests'[a][b].lzNonce = p.nonce
             /\ requests'[a][b].status = "PENDING"
    BY <1>4, <1>6, <1>12
  <2> QED
    BY <1>2, <1>3, <1>4, <1>11, <2>1, <2>2 DEF Sends
<1> QED
  BY <1>13

(* A request closed otherwise than by a cancellation, or by a notice that  *)
(* leads to it.                                                            *)
LEMMA ClosingSettles ==
  ASSUME PathTypes, NEW a, NEW b, NEW s, NEW x,
         BecomesWith(a, b, s, x),
         requests[a][b].status = "PENDING",
         \/ s # "CANCELLED"
         \/ \E n \in notices : /\ n.status = "CANCELLED" /\ n.m = a
                               /\ b \in RequestsByNonce(n.m, n.t, n.lzNonce),
         notices' \subseteq notices, UNCHANGED <<outNonce, orders, nonceVars>>
  PROVE  Settles
<1>1. /\ Tabled'
      /\ \A m \in Mirrors, i \in Ids :
           /\ requests'[m][i].dir = requests[m][i].dir
           /\ requests'[m][i].lzNonce = requests[m][i].lzNonce
           /\ IF m = a /\ i = b THEN requests'[m][i].status = s
              ELSE requests'[m][i] = requests[m][i]
  <2>1. Tabled
    BY DEF PathTypes
  <2> QED
    BY <2>1, ClosedKeeps
<1> QED
  BY <1>1 DEF Settles

(* A step that leaves requests and packets alone closes nothing.           *)
LEMMA IdleSettles ==
  ASSUME PathTypes, notices' \subseteq notices,
         UNCHANGED <<requests, outNonce, orders, nonceVars>>
  PROVE  Settles
BY DEF PathTypes, Tabled, Settles

(* Every step on a mirror sends or settles.                                *)
LEMMA MirrorKinds ==
  ASSUME PathTypes, MirrorNext, UNCHANGED nonceVars
  PROVE  (\E p : Sends(p)) \/ Settles
<1>1. CASE Bridging
  <2>1. ASSUME NEW m \in Mirrors, NEW t \in Tokens, NEW u \in Users, NEW sd \in DirectAmounts,
               DirectSend(m, t, u, sd), UNCHANGED requestVars
        PROVE  \E p : Sends(p)
    <3> DEFINE p == [m |-> m, t |-> t, nonce |-> outNonce[m][t] + 1, id |-> 0,
                     user |-> u, sd |-> sd, min |-> 0]
    <3>1. /\ outNonce' = [outNonce EXCEPT ![m][t] = @ + 1] /\ orders' = orders \cup {p}
          /\ notices' = notices /\ requests' = requests
      BY <2>1 DEF DirectSend, SendOrder, requestVars
    <3>2. p.m = m /\ p.t = t /\ p.nonce = outNonce[m][t] + 1
      OBVIOUS
    <3>3. IsPlaced(p)
      BY <3>2 DEF IsPlaced, PathTypes
    <3>4. Tabled'
      BY <3>1 DEF PathTypes, Tabled
    <3> HIDE DEF p
    <3> QED
      BY <3>1, <3>2, <3>3, <3>4 DEF Sends
  <2>2. ASSUME NEW p \in returns, ReceiveReturn(p), UNCHANGED requestVars
        PROVE  Settles
    BY <2>2, IdleSettles DEF ReceiveReturn, requestVars
  <2> QED
    BY <1>1, <2>1, <2>2 DEF Bridging
<1>2. CASE Ordering
  <2>1. ASSUME NEW m \in Mirrors, NEW trade \in Trades, SubmitOpen(m, trade)
        PROVE  \E p : Sends(p)
    BY <2>1, SubmitSends DEF SubmitOpen
  <2>2. ASSUME NEW auth \in Authorizations, SubmitVia(auth)
        PROVE  \E p : Sends(p)
    <3>1. auth.m \in Mirrors
      BY RequestAssumption DEF AuthorizationType
    <3> QED
      BY <2>2, <3>1, SubmitSends DEF SubmitVia
  <2> QED
    BY <1>2, <2>1, <2>2 DEF Ordering
<1>3. ASSUME NEW p \in composing, Settle(p)
      PROVE  Settles
  <2>1. UNCHANGED <<outNonce, orders, notices>>
    BY <1>3 DEF Settle, ComposeFill, ComposeRefund, ComposeLate, Compose
  <2>2. CASE ComposeFill(p)
    <3>1. PICK x : BecomesWith(p.m, p.id, "FILLED", x)
      BY <2>2 DEF ComposeFill, BecomesWith
    <3>2. requests[p.m][p.id].status = "PENDING"
      BY <2>2 DEF ComposeFill
    <3> QED
      BY <2>1, <3>1, <3>2, ClosingSettles
  <2>3. ASSUME NEW accepted, ComposeRefund(p, accepted)
        PROVE  Settles
    <3>1. /\ BecomesWith(p.m, p.id, "REFUNDED", 0)
          /\ requests[p.m][p.id].status = "PENDING"
      BY <2>3 DEF ComposeRefund, BecomesWith
    <3> QED
      BY <2>1, <3>1, ClosingSettles
  <2>4. CASE ComposeLate(p)
    BY <2>1, <2>4, IdleSettles DEF ComposeLate
  <2> QED
    BY <1>3, <2>2, <2>3, <2>4 DEF Settle
<1>4. ASSUME NEW n \in notices, HearNotice(n)
      PROVE  Settles
  <2>1. notices' \subseteq notices /\ UNCHANGED <<outNonce, orders>>
    BY <1>4 DEF HearNotice, NoticeStranded, NoticeCancelled, NoticeIgnored, ReceiveNotice
  <2>2. ASSUME NEW i \in Ids, NEW accepted, NoticeStranded(n, i, accepted)
        PROVE  Settles
    <3>1. /\ BecomesWith(n.m, i, "STRANDED", 0)
          /\ requests[n.m][i].status = "PENDING"
      BY <2>2 DEF NoticeStranded, Concerned, BecomesWith
    <3> QED
      BY <2>1, <3>1, ClosingSettles
  <2>3. ASSUME NEW i \in Ids, NEW accepted, NoticeCancelled(n, i, accepted)
        PROVE  Settles
    <3>1. /\ BecomesWith(n.m, i, "CANCELLED", 0)
          /\ requests[n.m][i].status = "PENDING"
          /\ n.status = "CANCELLED" /\ i \in RequestsByNonce(n.m, n.t, n.lzNonce)
      BY <2>3 DEF NoticeCancelled, Concerned, BecomesWith
    <3> QED
      BY <2>1, <3>1, ClosingSettles
  <2>4. CASE NoticeIgnored(n)
    BY <2>1, <2>4, IdleSettles DEF NoticeIgnored
  <2> QED
    BY <1>4, <2>2, <2>3, <2>4 DEF HearNotice
<1>5. CASE Administering
  <2>1. UNCHANGED <<requests, outNonce, orders, notices>>
    BY <1>5 DEF Administering, ClaimFees, SetPartner, SetPartnerRequired, SetPlatformFee,
                InvalidateNonce, Sweep, SendStray, wireVars, ledgerVars, requestVars
  <2> QED
    BY <2>1, IdleSettles
<1> QED
  BY <1>1, <1>2, <1>3, <1>4, <1>5 DEF MirrorNext, Settling

-----------------------------------------------------------------------------
(* Steps on the home chain.                                                *)

(* One that leaves the paths alone, and cancels nothing.                   *)
LEMMA QuietCarries ==
  ASSUME PathTypes, AccountsAhead,
         \A n \in notices' : n \in notices \/ n.status # "CANCELLED",
         UNCHANGED <<outNonce, orders, requests, nonceVars>>
  PROVE  Carries
<1>1. EndpointKeeps
  BY DEF PathTypes, AccountsAhead, EndpointKeeps, Dead, nonceVars
<1> QED
  BY <1>1 DEF Carries

(* A cancellation kills the message it announces.                          *)
LEMMA CancelCarries ==
  ASSUME PathTypes, AccountsAhead, NEW p \in orders, NEW hash,
         CancelStuckInbound(p, hash), requests' = requests
  PROVE  Carries
<1>1. PICK m \in Mirrors, t \in Tokens, k \in Nat : p.m = m /\ p.t = t /\ p.nonce = k
  BY DEF PathTypes, IsPlaced
<1>2. EndpointKeeps /\ Dead(m, t, k)'
  <2>1. CASE hash
    BY <1>1, <2>1, BurnKills DEF CancelStuckInbound
  <2>2. CASE ~hash
    BY <1>1, <2>2, SkipKills DEF CancelStuckInbound
  <2> QED
    BY <2>1, <2>2
<1>3. orders' = orders /\ outNonce' = outNonce
  BY DEF CancelStuckInbound, RestUnchanged
<1>4. \A n \in notices' : n \in notices \/ (n.m = m /\ n.t = t /\ n.lzNonce = k)
  BY <1>1 DEF CancelStuckInbound, SendNoticeTo, SendNotice
<1> QED
  BY <1>1, <1>2, <1>3, <1>4 DEF Carries

(* A delivery announces nothing.                                           *)
LEMMA DeliveringCarries ==
  ASSUME PathTypes, AccountsAhead, Delivering, requests' = requests
  PROVE  Carries
<1>1. outNonce' = outNonce /\ notices' = notices
  BY DEF Delivering, RelayUntouched
<1>2. ASSUME NEW m \in Mirrors, NEW t \in Tokens, NEW n \in 1..MaxNonce,
             InitVerify(m, t, n), orders' = orders
      PROVE  Carries
  <2>1. n \in Nat
    BY WireAssumption
  <2> QED
    BY <1>1, <1>2, <2>1, InitKeeps DEF Carries
<1>3. ASSUME NEW p \in orders, Verify(p), orders' = orders
      PROVE  Carries
  BY <1>1, <1>3, VerifyKeeps DEF Carries
<1>4. ASSUME NEW p \in orders, ReceiveOrder(p)
      PROVE  Carries
  <2>1. EndpointKeeps /\ ~Dead(p.m, p.t, p.nonce)
    BY <1>4, ReceiveKeeps
  <2>2. orders' = orders \ {p}
    BY <1>4 DEF ReceiveOrder
  <2> QED
    BY <1>1, <2>1, <2>2 DEF Carries
<1> QED
  BY <1>2, <1>3, <1>4 DEF Delivering

(* Filling, refunding, stranding and retrying cancel nothing.              *)
LEMMA RelayCarries ==
  ASSUME PathTypes, AccountsAhead, requests' = requests,
         \/ \E p \in queue : LzCompose(p) \/ StrandCompose(p)
         \/ \E s \in strandeds : RetryReturn(s)
  PROVE  Carries
<1>1. UNCHANGED <<outNonce, orders, nonceVars>>
  BY DEF LzCompose, FillOrder, RefundOrder, StrandCompose, RetryReturn, RestUnchanged
<1>2. \A n \in notices' : n \in notices \/ n.status # "CANCELLED"
  BY DEF LzCompose, FillOrder, RefundOrder, StrandCompose, RetryReturn, SendNoticeTo,
         SendNotice
<1> QED
  BY <1>1, <1>2, QuietCarries

(* Every step of the operated system is one of the three.                  *)
LEMMA KindsOfStep ==
  ASSUME PathTypes, CallTypes, AccountsAhead, [AdminNext]_allVars
  PROVE  (\E p : Sends(p)) \/ Settles \/ Carries
<1>1. CASE MirrorNext /\ UNCHANGED <<relayVars, callVars>>
  BY <1>1, MirrorKinds DEF relayVars, endpointVars
<1>2. CASE Delivering /\ UNCHANGED <<requestVars, callVars>>
  BY <1>2, DeliveringCarries DEF requestVars
<1>3. CASE Executing \/ Retrying
  <2>1. requests' = requests
    BY <1>3 DEF Executing, Retrying, requestVars
  <2>2. \/ \E p \in queue : LzCompose(p) \/ StrandCompose(p)
        \/ \E s \in strandeds : RetryReturn(s)
    BY <1>3 DEF Executing, Retrying
  <2> QED
    BY <2>1, <2>2, RelayCarries
<1>4. CASE SendStrand \/ SendRetry
  <2>1. requests' = requests
    BY <1>4 DEF SendStrand, SendRetry, Ends, requestVars
  <2>2. \/ \E p \in queue : LzCompose(p) \/ StrandCompose(p)
        \/ \E s \in strandeds : RetryReturn(s)
    BY <1>4 DEF SendStrand, SendRetry, RetryReturn
  <2> QED
    BY <2>1, <2>2, RelayCarries
<1>5. CASE SendInit
  <2>1. IsPlaced(call.of)
    BY <1>5 DEF SendInit, CallTypes, None
  <2>2. EndpointKeeps
    BY <1>5, <2>1, InitKeeps DEF SendInit, IsPlaced
  <2>3. UNCHANGED <<outNonce, orders, requests, notices>>
    BY <1>5 DEF SendInit, RelayUntouched, requestVars
  <2> QED
    BY <2>2, <2>3 DEF Carries
<1>6. CASE SendCancel
  <2>1. requests' = requests
    BY <1>6 DEF SendCancel, Ends, requestVars
  <2>2. PICK hash : CancelStuckInbound(call.of, hash)
    BY <1>6 DEF SendCancel
  <2>3. call.of \in orders
    BY <2>2 DEF CancelStuckInbound
  <2> QED
    BY <2>1, <2>2, <2>3, CancelCarries
<1>7. CASE UNCHANGED vars
  <2>1. UNCHANGED <<outNonce, orders, requests, notices, nonceVars>>
    BY <1>7 DEF vars, mirrorVars, wireVars, requestVars, relayVars, endpointVars
  <2> QED
    BY <2>1, QuietCarries
<1>8. CASE \/ \E p \in queue : AskStrand(p)
           \/ \E s \in strandeds : AskRetry(s)
           \/ \E p \in Alive : AskCancel(p)
           \/ Throws
           \/ \E m \in Mirrors : SetMaxReturnFee(m)
  BY <1>7, <1>8 DEF AskStrand, AskRetry, AskCancel, Begins, Throws, SetMaxReturnFee
<1> QED
  BY <1>1, <1>2, <1>3, <1>4, <1>5, <1>6, <1>7, <1>8 DEF AdminNext, allVars

-----------------------------------------------------------------------------
(* The invariant, kind of step by kind of step.                            *)

(* What a request remembers, whatever its amounts.                         *)
LEMMA RowsTyped ==
  ASSUME Tabled, NEW m \in Mirrors, NEW i \in Ids
  PROVE  requests[m][i].lzNonce \in Nat /\ TokenIn(requests[m][i].dir) \in Tokens
<1>1. PICK U : requests \in [Mirrors -> [Ids -> Rows(U)]]
  BY DEF Tabled
<1>2. requests[m][i] \in Rows(U)
  BY <1>1
<1> QED
  BY <1>2 DEF Rows, TokenIn, Tokens

(* A packet that is sent takes a nonce that names nothing yet.             *)
LEMMA SendsKeeps ==
  ASSUME PathInv, NEW p, Sends(p)
  PROVE  PathInv'
<1>1. /\ IsPlaced(p) /\ outNonce \in [Mirrors -> [Tokens -> Nat]]
      /\ p.nonce = outNonce[p.m][p.t] + 1
      /\ orders' = orders \cup {p}
  BY DEF Sends, PathInv, PathTypes
<1>2. /\ outNonce' \in [Mirrors -> [Tokens -> Nat]]
      /\ outNonce'[p.m][p.t] = p.nonce
      /\ \A m \in Mirrors, t \in Tokens : outNonce[m][t] <= outNonce'[m][t]
  BY <1>1 DEF Sends, IsPlaced
<1>3. PathTypes' /\ AccountsAhead'
  <2>1. UNCHANGED <<inbound, initialised, verified>> /\ Tabled'
    BY DEF Sends, nonceVars
  <2>2. \A o \in orders' : IsPlaced(o)
    BY <1>1 DEF PathInv, PathTypes
  <2> QED
    BY <1>2, <2>1, <2>2 DEF PathInv, PathTypes, AccountsAhead
<1>4. \A m \in Mirrors, i \in Ids :
        \/ requests'[m][i] = requests[m][i]
        \/ /\ m = p.m /\ i = p.id
           /\ TokenIn(requests'[m][i].dir) = p.t
           /\ requests'[m][i].lzNonce = p.nonce
           /\ requests'[m][i].status = "PENDING"
  BY DEF Sends
<1>5. \A o \in orders : /\ o.m \in Mirrors /\ o.t \in Tokens /\ o.nonce \in Nat
                        /\ o.nonce <= outNonce[o.m][o.t]
  BY DEF PathInv, PathTypes, NoncesTaken, IsPlaced
<1>6. \A m \in Mirrors, i \in Ids :
        requests[m][i].status # "NONE" =>
          /\ requests[m][i].lzNonce \in Nat
          /\ TokenIn(requests[m][i].dir) \in Tokens
          /\ requests[m][i].lzNonce <= outNonce[m][TokenIn(requests[m][i].dir)]
  BY RowsTyped DEF PathInv, PathTypes, NoncesTaken
<1>7. \A o \in orders' : o.nonce <= outNonce'[o.m][o.t]
  <2> TAKE o \in orders'
  <2>1. CASE o = p
    BY <1>1, <1>2, <2>1 DEF IsPlaced
  <2>2. CASE o \in orders
    <3>1. PICK m \in Mirrors, t \in Tokens, n \in Nat :
            o.m = m /\ o.t = t /\ o.nonce = n /\ n <= outNonce[m][t]
      BY <1>5, <2>2
    <3>2. outNonce'[m][t] \in Nat /\ outNonce[m][t] \in Nat
      BY <1>1, <1>2
    <3> QED
      BY <1>2, <3>1, <3>2
  <2> QED
    BY <1>1, <2>1, <2>2
<1>8. ASSUME NEW m \in Mirrors, NEW i \in Ids, requests'[m][i].status # "NONE"
      PROVE  requests'[m][i].lzNonce <= outNonce'[m][TokenIn(requests'[m][i].dir)]
  <2>1. CASE requests'[m][i] = requests[m][i]
    <3>1. PICK t \in Tokens, n \in Nat :
            /\ t = TokenIn(requests[m][i].dir) /\ n = requests[m][i].lzNonce
            /\ n <= outNonce[m][t]
      BY <1>6, <1>8, <2>1
    <3>2. outNonce'[m][t] \in Nat /\ outNonce[m][t] \in Nat
      BY <1>1, <1>2
    <3>3. n <= outNonce'[m][t]
      BY <1>2, <3>1, <3>2
    <3> QED
      BY <2>1, <3>1, <3>3
  <2>2. CASE /\ m = p.m
             /\ TokenIn(requests'[m][i].dir) = p.t
             /\ requests'[m][i].lzNonce = p.nonce
    BY <1>1, <1>2, <2>2 DEF IsPlaced
  <2> QED
    BY <1>4, <2>1, <2>2
<1>9. NoncesTaken'
  BY <1>7, <1>8 DEF NoncesTaken
<1>10. ASSUME NEW o \in orders', NEW i \in Ids,
              i \in RequestsByNonce(o.m, o.t, o.nonce)'
       PROVE  o.id = i
  <2>1. /\ requests'[o.m][i].status # "NONE"
        /\ TokenIn(requests'[o.m][i].dir) = o.t
        /\ requests'[o.m][i].lzNonce = o.nonce
    BY <1>10 DEF RequestsByNonce
  <2>2. o.m \in Mirrors /\ o.t \in Tokens
    BY <1>1, <1>5, <1>10 DEF IsPlaced
  <2>3. CASE requests'[o.m][i] = requests[o.m][i]
    <3>1. i \in RequestsByNonce(o.m, o.t, o.nonce) /\ o.nonce <= outNonce[o.m][o.t]
      BY <1>6, <2>1, <2>2, <2>3 DEF RequestsByNonce
    <3>2. o # p
      BY <1>1, <3>1 DEF IsPlaced
    <3> QED
      BY <1>1, <1>10, <3>1, <3>2 DEF PathInv, NonceNamesOrder
  <2>4. CASE /\ o.m = p.m /\ i = p.id
             /\ TokenIn(requests'[o.m][i].dir) = p.t
             /\ requests'[o.m][i].lzNonce = p.nonce
    <3>1. o.t = p.t /\ o.nonce = p.nonce
      BY <2>1, <2>4
    <3>2. o \notin orders
      BY <1>1, <1>5, <2>4, <3>1 DEF IsPlaced
    <3> QED
      BY <1>1, <2>4, <3>2
  <2> QED
    BY <1>4, <2>2, <2>3, <2>4
<1>11. NonceNamesOrder'
  BY <1>10 DEF NonceNamesOrder
<1>12. KilledBeforeNotice'
  <2>1. \A n \in notices' : n.status = "CANCELLED" =>
          /\ Dead(n.m, n.t, n.lzNonce)'
          /\ ~IsVerifiable(n.m, n.t, n.lzNonce)'
          /\ n.lzNonce \notin initialised'[n.m][n.t]
          /\ \E o \in orders' : o.m = n.m /\ o.t = n.t /\ o.nonce = n.lzNonce
    BY <1>1 DEF Sends, nonceVars, PathInv, KilledBeforeNotice, Dead, IsVerifiable
  <2>2. ASSUME NEW m \in Mirrors, NEW i \in Ids, requests'[m][i].status = "CANCELLED"
        PROVE  \E o \in Holds(orders, m, i)' : Dead(m, o.t, o.nonce)'
    <3>1. requests[m][i].status = "CANCELLED"
      BY <1>4, <2>2
    <3>2. PICK o \in Holds(orders, m, i) : Dead(m, o.t, o.nonce)
      BY <3>1 DEF PathInv, KilledBeforeNotice
    <3>3. Dead(m, o.t, o.nonce)'
      BY <3>2 DEF Sends, nonceVars, Dead
    <3> QED
      BY <1>1, <3>2, <3>3 DEF Holds
  <2> QED
    BY <2>1, <2>2 DEF KilledBeforeNotice
<1> QED
  BY <1>3, <1>9, <1>11, <1>12 DEF PathInv

(* A request that is cancelled is the one whose packet the notice killed.  *)
LEMMA SettlesKeeps ==
  ASSUME PathInv, Settles
  PROVE  PathInv'
<1>1. UNCHANGED <<outNonce, orders, inbound, initialised, verified>> /\ Tabled'
      /\ notices' \subseteq notices
  BY DEF Settles, nonceVars
<1>2. PathTypes' /\ AccountsAhead'
  BY <1>1 DEF PathInv, PathTypes, AccountsAhead
<1>3. \A m \in Mirrors, i \in Ids :
        /\ requests'[m][i].dir = requests[m][i].dir
        /\ requests'[m][i].lzNonce = requests[m][i].lzNonce
        /\ requests'[m][i].status # "NONE" => requests[m][i].status # "NONE"
  BY DEF Settles
<1>4. NoncesTaken'
  BY <1>1, <1>3 DEF PathInv, NoncesTaken
<1>5. \A m \in Mirrors : \A t, n : RequestsByNonce(m, t, n)' \subseteq RequestsByNonce(m, t, n)
  BY <1>3 DEF RequestsByNonce
<1>6. NonceNamesOrder'
  BY <1>1, <1>5 DEF PathInv, PathTypes, IsPlaced, NonceNamesOrder
<1>7. \A n \in notices' : n.status = "CANCELLED" =>
        /\ Dead(n.m, n.t, n.lzNonce)'
        /\ ~IsVerifiable(n.m, n.t, n.lzNonce)'
        /\ n.lzNonce \notin initialised'[n.m][n.t]
        /\ \E o \in orders' : o.m = n.m /\ o.t = n.t /\ o.nonce = n.lzNonce
  BY <1>1 DEF PathInv, KilledBeforeNotice, Dead, IsVerifiable
<1>8. ASSUME NEW m \in Mirrors, NEW i \in Ids, requests'[m][i].status = "CANCELLED"
      PROVE  \E o \in Holds(orders, m, i)' : Dead(m, o.t, o.nonce)'
  <2>1. PICK o \in Holds(orders, m, i) : Dead(m, o.t, o.nonce)
    <3>1. CASE requests[m][i].status = "CANCELLED"
      BY <3>1 DEF PathInv, KilledBeforeNotice
    <3>2. CASE requests[m][i].status # "CANCELLED"
      <4>1. PICK n \in notices : /\ n.status = "CANCELLED" /\ n.m = m
                                 /\ i \in RequestsByNonce(n.m, n.t, n.lzNonce)
        BY <1>8, <3>2 DEF Settles
      <4>2. Dead(n.m, n.t, n.lzNonce)
        BY <4>1 DEF PathInv, KilledBeforeNotice
      <4>3. PICK o \in orders : o.m = n.m /\ o.t = n.t /\ o.nonce = n.lzNonce
        BY <4>1 DEF PathInv, KilledBeforeNotice
      <4>4. o.id = i
        BY <4>1, <4>3 DEF PathInv, NonceNamesOrder
      <4> QED
        BY <4>1, <4>2, <4>3, <4>4 DEF Holds
    <3> QED
      BY <3>1, <3>2
  <2> QED
    BY <1>1, <2>1 DEF Holds, Dead
<1>9. KilledBeforeNotice'
  BY <1>7, <1>8 DEF KilledBeforeNotice
<1> QED
  BY <1>2, <1>4, <1>6, <1>9 DEF PathInv

(* What is announced as killed is dead, and what is dead is not executed.  *)
LEMMA CarriesKeeps ==
  ASSUME PathInv, Carries
  PROVE  PathInv'
<1>1. UNCHANGED <<outNonce, requests>> /\ orders' \subseteq orders
  BY DEF Carries
<1>2. PathTypes' /\ AccountsAhead'
  BY <1>1 DEF Carries, EndpointKeeps, PathInv, PathTypes, Tabled
<1>3. NoncesTaken' /\ NonceNamesOrder'
  BY <1>1 DEF PathInv, NoncesTaken, NonceNamesOrder, RequestsByNonce
<1>4. ASSUME NEW p \in orders, Dead(p.m, p.t, p.nonce)
      PROVE  p \in orders' /\ Dead(p.m, p.t, p.nonce)'
  <2>1. p.m \in Mirrors /\ p.t \in Tokens /\ p.nonce \in Nat
    BY DEF PathInv, PathTypes, IsPlaced
  <2> QED
    BY <1>4, <2>1 DEF Carries, EndpointKeeps
<1>5. ASSUME NEW n \in notices', n.status = "CANCELLED"
      PROVE  \E p \in orders' : /\ n.m = p.m /\ n.t = p.t /\ n.lzNonce = p.nonce
                                /\ Dead(p.m, p.t, p.nonce)'
  <2>1. CASE n \in notices
    <3>1. PICK p \in orders : p.m = n.m /\ p.t = n.t /\ p.nonce = n.lzNonce
      BY <1>5, <2>1 DEF PathInv, KilledBeforeNotice
    <3>2. Dead(p.m, p.t, p.nonce)
      BY <1>5, <2>1, <3>1 DEF PathInv, KilledBeforeNotice
    <3> QED
      BY <1>4, <3>1, <3>2
  <2>2. CASE n \notin notices
    BY <1>5, <2>2 DEF Carries
  <2> QED
    BY <2>1, <2>2
<1>6. ASSUME NEW n \in notices', n.status = "CANCELLED"
      PROVE  /\ Dead(n.m, n.t, n.lzNonce)'
             /\ ~IsVerifiable(n.m, n.t, n.lzNonce)'
             /\ n.lzNonce \notin initialised'[n.m][n.t]
             /\ \E o \in orders' : o.m = n.m /\ o.t = n.t /\ o.nonce = n.lzNonce
  <2>1. PICK p \in orders' : /\ n.m = p.m /\ n.t = p.t /\ n.lzNonce = p.nonce
                             /\ Dead(p.m, p.t, p.nonce)'
    BY <1>5, <1>6
  <2>2. PICK m \in Mirrors, t \in Tokens, k \in Nat :
          n.m = m /\ n.t = t /\ n.lzNonce = k /\ Dead(m, t, k)'
    BY <1>2, <2>1 DEF PathTypes, IsPlaced
  <2>3. inbound'[m][t] \in Nat /\ k <= inbound'[m][t]
    BY <1>2, <2>2 DEF PathTypes, Dead
  <2>4. ~IsVerifiable(m, t, k)' /\ k \notin initialised'[m][t]
    BY <1>2, <2>3 DEF PathTypes, AccountsAhead, IsVerifiable
  <2> QED
    BY <2>1, <2>2, <2>4
<1>7. ASSUME NEW m \in Mirrors, NEW i \in Ids, requests'[m][i].status = "CANCELLED"
      PROVE  \E o \in Holds(orders, m, i)' : Dead(m, o.t, o.nonce)'
  <2>1. PICK o \in Holds(orders, m, i) : Dead(m, o.t, o.nonce)
    BY <1>1, <1>7 DEF PathInv, KilledBeforeNotice
  <2>2. o \in orders /\ o.m = m /\ o.id = i
    BY <2>1 DEF Holds
  <2>3. o \in orders' /\ Dead(m, o.t, o.nonce)'
    BY <1>4, <2>1, <2>2
  <2> QED
    BY <2>2, <2>3 DEF Holds
<1>8. KilledBeforeNotice'
  BY <1>6, <1>7 DEF KilledBeforeNotice
<1> QED
  BY <1>2, <1>3, <1>8 DEF PathInv

(* A call that initialises an account is for a packet some mirror sent.    *)
LEMMA CallKept ==
  ASSUME PathTypes, CallTypes, [AdminNext]_allVars
  PROVE  CallTypes'
<1>1. CASE call' = call
  BY <1>1 DEF CallTypes
<1>2. CASE call' = None
  BY <1>2 DEF CallTypes
<1>3. ASSUME NEW x, NEW d, call' = [of |-> x, do |-> d], d # "init" \/ IsPlaced(x)
      PROVE  CallTypes'
  BY <1>3 DEF CallTypes
<1>4. ASSUME NEW p, AskStrand(p)
      PROVE  CallTypes'
  BY <1>3, <1>4 DEF AskStrand, Begins
<1>5. ASSUME NEW s, AskRetry(s)
      PROVE  CallTypes'
  BY <1>3, <1>5 DEF AskRetry, Begins
<1>6. ASSUME NEW p, AskCancel(p)
      PROVE  CallTypes'
  <2>1. PICK d : call' = [of |-> p, do |-> d]
    BY <1>6 DEF AskCancel, Begins
  <2>2. IsPlaced(p)
    BY <1>6 DEF AskCancel, Alive, PathTypes
  <2> QED
    BY <1>3, <2>1, <2>2
<1>7. CASE SendInit
  <2>1. PICK x, d : call = [of |-> x, do |-> d]
    BY <1>7 DEF SendInit, None, CallTypes
  <2>2. call' = [of |-> x, do |-> "skip"]
    BY <1>7, <2>1 DEF SendInit
  <2> QED
    BY <1>3, <2>2
<1>8. \/ call' = call \/ call' = None \/ SendInit
      \/ \E p : AskStrand(p) \/ AskRetry(p) \/ AskCancel(p)
  BY DEF AdminNext, allVars, callVars, Executing, Retrying, SendStrand, SendRetry,
         SendCancel, Ends, Throws, SetMaxReturnFee
<1> QED
  BY <1>1, <1>2, <1>4, <1>5, <1>6, <1>7, <1>8

(* Nothing is sent, verified or announced at the start.                    *)
LEMMA PathInvInit == Init => PathInv
<1> SUFFICES ASSUME Init PROVE PathInv
  OBVIOUS
<1> USE DEF Init, MirrorInit, WireInit, RequestInit, SolanaRelayInit,
            SolanaEndpointInit
<1>1. Tabled
  <2>1. EmptyRequest \in Rows({NoUser, "BUY", 0, "NONE"})
    BY DEF EmptyRequest, Rows
  <2>2. requests \in [Mirrors -> [Ids -> Rows({NoUser, "BUY", 0, "NONE"})]]
    BY <2>1
  <2> QED
    BY <2>2 DEF Tabled
<1>2. \A m \in Mirrors, i \in Ids : requests[m][i].status = "NONE"
  BY DEF EmptyRequest
<1>3. PathTypes
  BY <1>1 DEF PathTypes
<1>4. AccountsAhead
  BY DEF AccountsAhead
<1>5. NoncesTaken /\ NonceNamesOrder
  BY <1>2 DEF NoncesTaken, NonceNamesOrder
<1>6. KilledBeforeNotice
  BY <1>2 DEF KilledBeforeNotice
<1> QED
  BY <1>3, <1>4, <1>5, <1>6 DEF PathInv

(***************************************************************************)
(* Kill, then notify (relay-admin.ts, cancel_stuck_inbound): whatever the  *)
(* operator, the DVNs and the users do, a message that is announced as     *)
(* cancelled, or whose order was, is neither executed nor ever executable. *)
(***************************************************************************)
THEOREM KilledFirst == AdminSpec => []KilledBeforeNotice
<1>1. AdminInit => KillInv
  BY PathInvInit DEF AdminInit, KillInv, CallTypes
<1>2. KillInv /\ [AdminNext]_allVars => KillInv'
  <2> SUFFICES ASSUME KillInv, [AdminNext]_allVars PROVE KillInv'
    OBVIOUS
  <2>1. (\E p : Sends(p)) \/ Settles \/ Carries
    BY KindsOfStep DEF KillInv, PathInv
  <2>2. PathInv'
    BY <2>1, SendsKeeps, SettlesKeeps, CarriesKeeps DEF KillInv
  <2>3. CallTypes'
    BY CallKept DEF KillInv, PathInv
  <2> QED
    BY <2>2, <2>3 DEF KillInv
<1>3. KillInv => KilledBeforeNotice
  BY DEF KillInv, PathInv
<1> QED
  BY <1>1, <1>2, <1>3, PTL DEF AdminSpec

-----------------------------------------------------------------------------
(***************************************************************************)
(* The relay's books, at a Solana home.  A set that grows adds at most the *)
(* new element's term, whether or not the element was in it before, so the *)
(* books need not know that an order is queued once.                       *)
(***************************************************************************)

(* What an order brought of asset t, and what an account holds of it.      *)
BroughtBy(p, t) == IF p.t = t THEN InputOf(p) ELSE 0
HeldBy(s, t) == IF s.mint = t THEN s.amount ELSE 0

InputsOf(packets, t) == SumFunctionOnSet([p \in packets |-> BroughtBy(p, t)], packets)
AccountsHold(accounts, t) ==
  SumFunctionOnSet([s \in accounts |-> HeldBy(s, t)], accounts)

IsWorth(p) == p.t \in Tokens /\ p.user \in Users /\ p.sd \in Nat
IsHeld(s) == s.mint \in Tokens /\ s.amount \in Nat

BookTypes ==
  /\ platformFee \in [Mirrors -> PlatformType]
  /\ \A p \in orders \cup queue : IsWorth(p)
  /\ \A s \in strandeds : IsHeld(s)
  /\ IsFiniteSet(queue) /\ IsFiniteSet(strandeds)
  /\ homeToken \in [Tokens -> Token]

(* The inputs of what is queued and the accounts' amounts are all there.   *)
Covered(k, t, packets, accounts) ==
  k.bal[Contract] >= InputsOf(packets, t) + AccountsHold(accounts, t)

BookInv ==
  /\ BookTypes
  /\ \A t \in Tokens : Covered(homeToken[t], t, queue, strandeds)

(* An input is a natural number.                                           *)
LEMMA InputsAreNat ==
  ASSUME NEW p, IsWorth(p)
  PROVE  InputOf(p) \in Nat
<1>1. HomeQuantum[p.t] \in Nat \ {0} /\ p.sd \in Nat
  BY HomeAssumption DEF IsWorth
<1> QED
  BY <1>1, AmountTypes DEF InputOf

LEMMA BroughtIsNat ==
  ASSUME NEW p, IsWorth(p), NEW t
  PROVE  BroughtBy(p, t) \in Nat
BY InputsAreNat DEF BroughtBy

(* An order joins the queue, or leaves it.                                 *)
LEMMA QueueAdds ==
  ASSUME NEW packets, IsFiniteSet(packets), \A q \in packets : IsWorth(q),
         NEW p, IsWorth(p), NEW t
  PROVE  /\ InputsOf(packets, t) \in Nat /\ InputsOf(packets \cup {p}, t) \in Nat
         /\ InputsOf(packets \cup {p}, t) <= InputsOf(packets, t) + BroughtBy(p, t)
<1> DEFINE f == [x \in packets |-> BroughtBy(x, t)]
           g == [x \in packets \cup {p} |-> BroughtBy(x, t)]
<1>1. (\A x \in packets : g[x] \in Nat /\ f[x] = g[x]) /\ g[p] \in Nat
  BY BroughtIsNat
<1>2. g[p] = BroughtBy(p, t)
  OBVIOUS
<1>3. /\ InputsOf(packets, t) = SumFunctionOnSet(f, packets)
      /\ InputsOf(packets \cup {p}, t) = SumFunctionOnSet(g, packets \cup {p})
  BY DEF InputsOf
<1> HIDE DEF f, g
<1>4. /\ SumFunctionOnSet(f, packets) \in Nat
      /\ SumFunctionOnSet(g, packets \cup {p}) \in Nat
      /\ SumFunctionOnSet(g, packets \cup {p}) <= SumFunctionOnSet(f, packets) + g[p]
  BY <1>1, SumAddsAtMost
<1> QED
  BY <1>2, <1>3, <1>4

LEMMA QueueDrops ==
  ASSUME NEW packets, IsFiniteSet(packets), \A q \in packets : IsWorth(q),
         NEW p \in packets, NEW t
  PROVE  /\ InputsOf(packets, t) \in Nat /\ InputsOf(packets \ {p}, t) \in Nat
         /\ InputsOf(packets \ {p}, t) = InputsOf(packets, t) - BroughtBy(p, t)
<1> DEFINE f == [x \in packets |-> BroughtBy(x, t)]
           g == [x \in packets \ {p} |-> BroughtBy(x, t)]
<1>1. (\A x \in packets : f[x] \in Nat) /\ \A x \in packets \ {p} : g[x] = f[x]
  BY BroughtIsNat
<1>2. f[p] = BroughtBy(p, t)
  OBVIOUS
<1>3. /\ InputsOf(packets, t) = SumFunctionOnSet(f, packets)
      /\ InputsOf(packets \ {p}, t) = SumFunctionOnSet(g, packets \ {p})
  BY DEF InputsOf
<1> HIDE DEF f, g
<1>4. /\ SumFunctionOnSet(f, packets) \in Nat
      /\ SumFunctionOnSet(g, packets \ {p}) \in Nat
      /\ SumFunctionOnSet(g, packets \ {p}) = SumFunctionOnSet(f, packets) - f[p]
  BY <1>1, SumDrops
<1> QED
  BY <1>2, <1>3, <1>4

(* A Stranded account is created, or closed.                               *)
LEMMA AccountsAdd ==
  ASSUME NEW accounts, IsFiniteSet(accounts), \A a \in accounts : IsHeld(a),
         NEW s, IsHeld(s), NEW t
  PROVE  /\ AccountsHold(accounts, t) \in Nat /\ AccountsHold(accounts \cup {s}, t) \in Nat
         /\ AccountsHold(accounts \cup {s}, t) <= AccountsHold(accounts, t) + HeldBy(s, t)
<1> DEFINE f == [x \in accounts |-> HeldBy(x, t)]
           g == [x \in accounts \cup {s} |-> HeldBy(x, t)]
<1>1. (\A x \in accounts : g[x] \in Nat /\ f[x] = g[x]) /\ g[s] \in Nat
  BY DEF IsHeld, HeldBy
<1>2. g[s] = HeldBy(s, t)
  OBVIOUS
<1>3. /\ AccountsHold(accounts, t) = SumFunctionOnSet(f, accounts)
      /\ AccountsHold(accounts \cup {s}, t) = SumFunctionOnSet(g, accounts \cup {s})
  BY DEF AccountsHold
<1> HIDE DEF f, g
<1>4. /\ SumFunctionOnSet(f, accounts) \in Nat
      /\ SumFunctionOnSet(g, accounts \cup {s}) \in Nat
      /\ SumFunctionOnSet(g, accounts \cup {s}) <= SumFunctionOnSet(f, accounts) + g[s]
  BY <1>1, SumAddsAtMost
<1> QED
  BY <1>2, <1>3, <1>4

LEMMA AccountsDrop ==
  ASSUME NEW accounts, IsFiniteSet(accounts), \A a \in accounts : IsHeld(a),
         NEW s \in accounts, NEW t
  PROVE  /\ AccountsHold(accounts, t) \in Nat /\ AccountsHold(accounts \ {s}, t) \in Nat
         /\ AccountsHold(accounts \ {s}, t) = AccountsHold(accounts, t) - HeldBy(s, t)
<1> DEFINE f == [x \in accounts |-> HeldBy(x, t)]
           g == [x \in accounts \ {s} |-> HeldBy(x, t)]
<1>1. (\A x \in accounts : f[x] \in Nat) /\ \A x \in accounts \ {s} : g[x] = f[x]
  BY DEF IsHeld, HeldBy
<1>2. f[s] = HeldBy(s, t)
  OBVIOUS
<1>3. /\ AccountsHold(accounts, t) = SumFunctionOnSet(f, accounts)
      /\ AccountsHold(accounts \ {s}, t) = SumFunctionOnSet(g, accounts \ {s})
  BY DEF AccountsHold
<1> HIDE DEF f, g
<1>4. /\ SumFunctionOnSet(f, accounts) \in Nat
      /\ SumFunctionOnSet(g, accounts \ {s}) \in Nat
      /\ SumFunctionOnSet(g, accounts \ {s}) = SumFunctionOnSet(f, accounts) - f[s]
  BY <1>1, SumDrops
<1> QED
  BY <1>2, <1>3, <1>4

(* What a queue and a table of accounts are owed are natural numbers.      *)
LEMMA OwedIsNat ==
  ASSUME BookTypes, NEW t
  PROVE  InputsOf(queue, t) \in Nat /\ AccountsHold(strandeds, t) \in Nat
<1> DEFINE f == [x \in queue |-> BroughtBy(x, t)]
           g == [x \in strandeds |-> HeldBy(x, t)]
<1>1. \A x \in queue : f[x] \in Nat
  BY BroughtIsNat DEF BookTypes
<1>2. \A x \in strandeds : g[x] \in Nat
  BY DEF BookTypes, IsHeld, HeldBy
<1>3. IsFiniteSet(queue) /\ IsFiniteSet(strandeds)
  BY DEF BookTypes
<1> HIDE DEF f, g
<1>4. SumFunctionOnSet(f, queue) \in Nat /\ SumFunctionOnSet(g, strandeds) \in Nat
  BY <1>1, <1>2, <1>3, SumIsNat
<1> QED
  BY <1>4 DEF f, g, InputsOf, AccountsHold

-----------------------------------------------------------------------------
(* What the OFTs do to the relay's accounts.                               *)

(* A token keeps its balances whatever is counted.                         *)
LEMMA CountedToken ==
  ASSUME NEW k \in Token, NEW x \in Nat
  PROVE  /\ [k EXCEPT !.out = x] \in Token /\ [k EXCEPT !.out = x].bal = k.bal
         /\ [k EXCEPT !.in = x] \in Token /\ [k EXCEPT !.in = x].bal = k.bal
BY DEF Token

LEMMA RelayDebited ==
  ASSUME NEW k \in Token, NEW t, NEW x \in Nat, CanPay(k, Contract, x)
  PROVE  /\ OftDebit(k, t, Contract, x) \in Token
         /\ OftDebit(k, t, Contract, x).bal[Contract] = k.bal[Contract] - x
<1>1. Contract \in Accounts /\ Vault \in Accounts /\ Contract # Vault
  BY DEF Accounts, Contract, Vault
<1>2. PICK h : h = HomeDebit(k, t, Contract, x)
  OBVIOUS
<1>3. h \in Token /\ h.bal[Contract] = k.bal[Contract] - x
  <2>1. CASE t \in Adapted
    BY <1>1, <1>2, <2>1, TransferType, TransferMoves DEF HomeDebit, Lock
  <2>2. CASE t \notin Adapted
    BY <1>1, <1>2, <2>2, BurnType, BurnMoves DEF HomeDebit
  <2> QED
    BY <2>1, <2>2
<1>4. k.out + x \in Nat
  BY DEF Token
<1>5. OftDebit(k, t, Contract, x) = [h EXCEPT !.out = k.out + x]
  BY <1>2 DEF OftDebit
<1> QED
  BY <1>3, <1>4, <1>5, CountedToken

LEMMA RelayCredited ==
  ASSUME NEW k \in Token, NEW t, NEW a \in Users \cup {Contract}, NEW x \in Nat,
         t \in Adapted => CanPay(k, Vault, x)
  PROVE  /\ OftCredit(k, t, a, x) \in Token
         /\ OftCredit(k, t, a, x).bal[Contract] =
              k.bal[Contract] + (IF a = Contract THEN x ELSE 0)
<1>1. /\ Contract \in Accounts /\ Vault \in Accounts /\ Contract # Vault
      /\ a \in Accounts /\ a # Vault
  BY ContractApart DEF Accounts, Contract, Vault
<1>2. PICK h : h = HomeCredit(k, t, a, x)
  OBVIOUS
<1>3. h \in Token /\ h.bal[Contract] = k.bal[Contract] + (IF a = Contract THEN x ELSE 0)
  <2>0. k.bal[Contract] \in Nat
    BY <1>1 DEF Token
  <2>1. CASE t \in Adapted
    <3>1. h = Transfer(k, Vault, a, x) /\ CanPay(k, Vault, x)
      BY <1>2, <2>1 DEF HomeCredit, Unlock
    <3>2. h \in Token
      BY <1>1, <3>1, TransferType
    <3>3. /\ h.bal[a] = k.bal[a] + x
          /\ \A c \in Accounts \ {Vault, a} : h.bal[c] = k.bal[c]
      BY <1>1, <3>1, TransferMoves
    <3> QED
      BY <1>1, <2>0, <3>2, <3>3
  <2>2. CASE t \notin Adapted
    <3>1. h = Mint(k, a, x)
      BY <1>2, <2>2 DEF HomeCredit
    <3>2. h \in Token
      BY <3>1, MintType
    <3>3. /\ h.bal[a] = k.bal[a] + x
          /\ \A c \in Accounts \ {a} : h.bal[c] = k.bal[c]
      BY <1>1, <3>1, MintMoves
    <3> QED
      BY <1>1, <2>0, <3>2, <3>3
  <2> QED
    BY <2>1, <2>2
<1>4. k.in + x \in Nat
  BY DEF Token
<1>5. OftCredit(k, t, a, x) = [h EXCEPT !.in = k.in + x]
  BY <1>2 DEF OftCredit
<1> QED
  BY <1>3, <1>4, <1>5, CountedToken

(* A return leg costs its asset at most what it was given, and no other.   *)
LEMMA SendCosts ==
  ASSUME NEW held \in [Tokens -> Token], NEW m, NEW t \in Tokens, NEW id,
         NEW amount \in Nat, NEW status, OftSend(held, m, t, id, amount, status)
  PROVE  /\ homeToken' \in [Tokens -> Token]
         /\ homeToken'[t].bal[Contract] >= held[t].bal[Contract] - amount
         /\ \A u \in Tokens : u # t => homeToken'[u] = held[u]
<1>1. PICK q \in Nat \ {0} : q = HomeQuantum[t]
  BY HomeAssumption
<1>2. PICK x : x = RemoveDust(amount, q)
  OBVIOUS
<1>3. x \in Nat /\ x <= amount
  BY <1>2, AmountTypes
<1>4. PICK k \in Token : k = held[t]
  OBVIOUS
<1>5. k.bal[Contract] \in Nat /\ CanPay(k, Contract, amount)
  BY <1>4 DEF Token, Accounts, OftSend
<1>6. CanPay(k, Contract, x)
  BY <1>3, <1>5 DEF CanPay
<1>7. PICK k2 : k2 = OftDebit(k, t, Contract, x)
  OBVIOUS
<1>8. k2 \in Token /\ k2.bal[Contract] = k.bal[Contract] - x
  BY <1>3, <1>6, <1>7, RelayDebited
<1>9. homeToken' = [held EXCEPT ![t] = k2]
  BY <1>1, <1>2, <1>4, <1>7 DEF OftSend
<1> QED
  BY <1>3, <1>4, <1>5, <1>8, <1>9

-----------------------------------------------------------------------------
(* Steps of the home chain, each with the whole of the books.              *)

BooksKept == homeToken' \in [Tokens -> Token]
             /\ IsFiniteSet(queue') /\ IsFiniteSet(strandeds')
             /\ (\A p \in orders' \cup queue' : IsWorth(p))
             /\ (\A s \in strandeds' : IsHeld(s))
             /\ (\A t \in Tokens : Covered(homeToken'[t], t, queue', strandeds'))

(* What is there is a number, and covers numbers.                          *)
LEMMA CoveredNow ==
  ASSUME BookInv, NEW t \in Tokens
  PROVE  /\ homeToken[t].bal[Contract] \in Nat
         /\ InputsOf(queue, t) \in Nat /\ AccountsHold(strandeds, t) \in Nat
         /\ homeToken[t].bal[Contract] >= InputsOf(queue, t) + AccountsHold(strandeds, t)
<1>1. homeToken[t] \in Token /\ Contract \in Accounts
  BY DEF BookInv, BookTypes, Accounts
<1>2. homeToken[t].bal[Contract] \in Nat
  BY <1>1 DEF Token
<1> QED
  BY <1>2, OwedIsNat DEF BookInv, Covered

(* A step that touches none of it.                                         *)
LEMMA QuietBooks ==
  ASSUME BookInv, UNCHANGED <<homeToken, queue, strandeds>>, orders' \subseteq orders
  PROVE  BooksKept
BY DEF BookInv, BookTypes, BooksKept

(* A delivery: an order's input comes with it, the rest goes to its user.  *)
LEMMA ReceiveBooks ==
  ASSUME BookInv, NEW p, ReceiveOrder(p), strandeds' = strandeds
  PROVE  BooksKept
<1>1. IsWorth(p) /\ p \in orders
  BY DEF ReceiveOrder, BookInv, BookTypes
<1>2. PICK t \in Tokens : t = p.t
  BY <1>1 DEF IsWorth
<1>3. PICK x \in Nat : x = InputOf(p)
  BY <1>1, InputsAreNat
<1>4. PICK a \in Users \cup {Contract} : a = IF p.id = 0 THEN p.user ELSE Contract
  BY <1>1 DEF IsWorth
<1>5. a = Contract <=> p.id # 0
  BY <1>1, <1>4, ContractApart DEF IsWorth
<1>6. homeToken \in [Tokens -> Token]
  BY DEF BookInv, BookTypes
<1>7. PICK k \in Token : k = homeToken[t]
  BY <1>6
<1>8. PICK k2 : k2 = OftCredit(k, t, a, x)
  OBVIOUS
<1>9. /\ homeToken' = [homeToken EXCEPT ![t] = k2]
      /\ t \in Adapted => CanPay(k, Vault, x)
      /\ orders' = orders \ {p}
      /\ queue' = IF p.id = 0 THEN queue ELSE queue \cup {p}
  BY <1>2, <1>3, <1>4, <1>7, <1>8 DEF ReceiveOrder, InputOf
<1>10. /\ k2 \in Token
       /\ k2.bal[Contract] = k.bal[Contract] + (IF a = Contract THEN x ELSE 0)
  BY <1>8, <1>9, RelayCredited
<1>11. homeToken' \in [Tokens -> Token]
  BY <1>6, <1>9, <1>10
<1>12. IsFiniteSet(queue')
  <2>1. IsFiniteSet(queue)
    BY DEF BookInv, BookTypes
  <2> QED
    BY <1>9, <2>1, FS_AddElement
<1>13. ASSUME NEW u \in Tokens
       PROVE  Covered(homeToken'[u], u, queue', strandeds')
  <2>1. /\ homeToken[u].bal[Contract] \in Nat
        /\ InputsOf(queue, u) \in Nat /\ AccountsHold(strandeds, u) \in Nat
        /\ homeToken[u].bal[Contract] >= InputsOf(queue, u) + AccountsHold(strandeds, u)
    BY CoveredNow
  <2>2. homeToken'[u].bal[Contract] =
          homeToken[u].bal[Contract] + (IF u = t /\ p.id # 0 THEN x ELSE 0)
    <3>1. CASE u = t
      BY <1>5, <1>6, <1>7, <1>9, <1>10, <2>1, <3>1
    <3>2. CASE u # t
      BY <1>6, <1>9, <2>1, <3>2
    <3> QED
      BY <3>1, <3>2
  <2>3. CASE p.id = 0
    <3>1. queue' = queue
      BY <1>9, <2>3
    <3> QED
      BY <2>1, <2>2, <2>3, <3>1 DEF Covered
  <2>4. CASE p.id # 0
    <3>1. queue' = queue \cup {p}
      BY <1>9, <2>4
    <3>2. IsFiniteSet(queue) /\ \A q \in queue : IsWorth(q)
      BY DEF BookInv, BookTypes
    <3>3. /\ InputsOf(queue \cup {p}, u) \in Nat
          /\ InputsOf(queue \cup {p}, u) <= InputsOf(queue, u) + BroughtBy(p, u)
      BY <1>1, <3>2, QueueAdds
    <3>4. BroughtBy(p, u) = IF u = t THEN x ELSE 0
      BY <1>2, <1>3 DEF BroughtBy
    <3>5. homeToken'[u].bal[Contract] >=
            InputsOf(queue \cup {p}, u) + AccountsHold(strandeds, u)
      BY <2>1, <2>2, <2>4, <3>3, <3>4
    <3> QED
      BY <3>1, <3>5 DEF Covered
  <2> QED
    BY <2>3, <2>4
<1> QED
  BY <1>1, <1>9, <1>11, <1>12, <1>13 DEF BooksKept, BookInv, BookTypes

(* An order leaves the queue.                                              *)
LEMMA ClearedQueue ==
  ASSUME BookInv, NEW p, ClearCompose(p), orders' = orders
  PROVE  /\ IsWorth(p) /\ p \in queue
         /\ queue' = queue \ {p} /\ IsFiniteSet(queue')
         /\ \A q \in orders' \cup queue' : IsWorth(q)
         /\ \A t : /\ InputsOf(queue', t) \in Nat /\ BroughtBy(p, t) \in Nat
                  /\ InputsOf(queue', t) = InputsOf(queue, t) - BroughtBy(p, t)
<1>1. /\ IsFiniteSet(queue) /\ \A q \in orders \cup queue : IsWorth(q)
      /\ p \in queue /\ queue' = queue \ {p}
  BY DEF BookInv, BookTypes, ClearCompose
<1>2. IsFiniteSet(queue')
  BY <1>1, FS_RemoveElement
<1>3. ASSUME NEW t
      PROVE  /\ InputsOf(queue', t) \in Nat /\ BroughtBy(p, t) \in Nat
             /\ InputsOf(queue', t) = InputsOf(queue, t) - BroughtBy(p, t)
  <2>1. /\ InputsOf(queue \ {p}, t) \in Nat
        /\ InputsOf(queue \ {p}, t) = InputsOf(queue, t) - BroughtBy(p, t)
    BY <1>1, QueueDrops
  <2>2. BroughtBy(p, t) \in Nat
    BY <1>1, BroughtIsNat
  <2> QED
    BY <1>1, <2>1, <2>2
<1> QED
  BY <1>1, <1>2, <1>3

(* Fill: the input is spent, and at most the output sent.                  *)
LEMMA FillBooks ==
  ASSUME BookInv, NEW p, NEW out \in PoolOutputs, FillOrder(p, out)
  PROVE  BooksKept
<1>1. orders' = orders /\ strandeds' = strandeds /\ ClearCompose(p)
  BY DEF FillOrder, RestUnchanged
<1>2. /\ IsWorth(p) /\ IsFiniteSet(queue')
      /\ \A q \in orders' \cup queue' : IsWorth(q)
      /\ \A t : /\ InputsOf(queue', t) \in Nat /\ BroughtBy(p, t) \in Nat
               /\ InputsOf(queue', t) = InputsOf(queue, t) - BroughtBy(p, t)
  BY <1>1, ClearedQueue
<1>3. PICK t \in Tokens, u \in Tokens : t = p.t /\ u = OtherToken(p.t) /\ t # u
  BY <1>2 DEF IsWorth, OtherToken, Tokens
<1>4. PICK x \in Nat : x = InputOf(p)
  BY <1>2, InputsAreNat
<1>5. out \in Nat
  BY SolanaRelayAssumption
<1>6. homeToken \in [Tokens -> Token] /\ Contract \in Accounts /\ World \in Accounts
      /\ Contract # World
  BY DEF BookInv, BookTypes, Accounts, Contract, World
<1>7. PICK a \in Token, b \in Token : a = homeToken[t] /\ b = homeToken[u]
  BY <1>6
<1>8. CanPay(a, Contract, x) /\ CanPay(b, World, out)
  BY <1>3, <1>4, <1>7 DEF FillOrder
<1>9. PICK a2, b2 : a2 = Transfer(a, Contract, World, x) /\ b2 = Transfer(b, World, Contract, out)
  OBVIOUS
<1>10. a2 \in Token /\ b2 \in Token
  BY <1>5, <1>6, <1>8, <1>9, TransferType
<1>11. /\ a2.bal[Contract] = a.bal[Contract] - x
       /\ b2.bal[Contract] = b.bal[Contract] + out
  BY <1>5, <1>6, <1>9, TransferMoves
<1>12. PICK held : held = SwapV2(p, out)
  OBVIOUS
<1>13. held = [[homeToken EXCEPT ![t] = a2] EXCEPT ![u] = b2]
  BY <1>3, <1>4, <1>6, <1>7, <1>9, <1>12 DEF SwapV2
<1>14. /\ held \in [Tokens -> Token]
       /\ held[t] = a2 /\ held[u] = b2
       /\ \A v \in Tokens : v # t /\ v # u => held[v] = homeToken[v]
  BY <1>3, <1>6, <1>10, <1>13
<1>15. OftSend(held, p.m, u, p.id, out, "FILLED")
  BY <1>3, <1>12 DEF FillOrder
<1>16. /\ homeToken' \in [Tokens -> Token]
       /\ homeToken'[u].bal[Contract] >= held[u].bal[Contract] - out
       /\ \A v \in Tokens : v # u => homeToken'[v] = held[v]
  BY <1>5, <1>14, <1>15, SendCosts
<1>17. ASSUME NEW v \in Tokens
       PROVE  Covered(homeToken'[v], v, queue', strandeds')
  <2>1. /\ homeToken[v].bal[Contract] \in Nat
        /\ InputsOf(queue, v) \in Nat /\ AccountsHold(strandeds, v) \in Nat
        /\ homeToken[v].bal[Contract] >= InputsOf(queue, v) + AccountsHold(strandeds, v)
    BY CoveredNow
  <2>2. BroughtBy(p, v) = IF v = t THEN x ELSE 0
    BY <1>3, <1>4 DEF BroughtBy
  <2>3. homeToken'[v].bal[Contract] \in Nat
    BY <1>6, <1>16 DEF Token
  <2>4. homeToken'[v].bal[Contract] >= homeToken[v].bal[Contract] - BroughtBy(p, v)
    <3>1. CASE v = t
      BY <1>3, <1>7, <1>11, <1>14, <1>16, <2>1, <2>2, <3>1
    <3>2. CASE v = u
      <4>1. homeToken'[u].bal[Contract] >= b2.bal[Contract] - out
        BY <1>14, <1>16
      <4>2. b2.bal[Contract] = homeToken[u].bal[Contract] + out
        BY <1>7, <1>11
      <4> QED
        BY <1>3, <1>5, <2>1, <2>2, <2>3, <3>2, <4>1, <4>2
    <3>3. CASE v # t /\ v # u
      BY <1>14, <1>16, <2>1, <2>2, <3>3
    <3> QED
      BY <3>1, <3>2, <3>3
  <2>5. /\ InputsOf(queue', v) \in Nat /\ BroughtBy(p, v) \in Nat
        /\ InputsOf(queue', v) = InputsOf(queue, v) - BroughtBy(p, v)
    BY <1>2
  <2>6. homeToken'[v].bal[Contract] >= InputsOf(queue', v) + AccountsHold(strandeds, v)
    BY <2>1, <2>3, <2>4, <2>5
  <2> QED
    BY <1>1, <2>6 DEF Covered
<1> QED
  BY <1>1, <1>2, <1>16, <1>17 DEF BooksKept, BookInv, BookTypes

(* Refund: at most the input is sent.                                      *)
LEMMA RefundBooks ==
  ASSUME BookInv, NEW p, NEW out \in PoolOutputs, RefundOrder(p, out)
  PROVE  BooksKept
<1>1. orders' = orders /\ strandeds' = strandeds /\ ClearCompose(p)
  BY DEF RefundOrder, RestUnchanged
<1>2. /\ IsWorth(p) /\ IsFiniteSet(queue')
      /\ \A q \in orders' \cup queue' : IsWorth(q)
      /\ \A t : /\ InputsOf(queue', t) \in Nat /\ BroughtBy(p, t) \in Nat
               /\ InputsOf(queue', t) = InputsOf(queue, t) - BroughtBy(p, t)
  BY <1>1, ClearedQueue
<1>3. PICK t \in Tokens : t = p.t
  BY <1>2 DEF IsWorth
<1>4. PICK x \in Nat : x = InputOf(p)
  BY <1>2, InputsAreNat
<1>5. homeToken \in [Tokens -> Token]
  BY DEF BookInv, BookTypes
<1>6. OftSend(homeToken, p.m, t, p.id, x, "REFUNDED")
  BY <1>3, <1>4 DEF RefundOrder
<1>7. /\ homeToken' \in [Tokens -> Token]
      /\ homeToken'[t].bal[Contract] >= homeToken[t].bal[Contract] - x
      /\ \A v \in Tokens : v # t => homeToken'[v] = homeToken[v]
  BY <1>5, <1>6, SendCosts
<1>8. ASSUME NEW v \in Tokens
      PROVE  Covered(homeToken'[v], v, queue', strandeds')
  <2>1. /\ homeToken[v].bal[Contract] \in Nat
        /\ InputsOf(queue, v) \in Nat /\ AccountsHold(strandeds, v) \in Nat
        /\ homeToken[v].bal[Contract] >= InputsOf(queue, v) + AccountsHold(strandeds, v)
    BY CoveredNow
  <2>2. BroughtBy(p, v) = IF v = t THEN x ELSE 0
    BY <1>3, <1>4 DEF BroughtBy
  <2>3. homeToken'[v].bal[Contract] \in Nat
    BY <1>7 DEF Token, Accounts
  <2>4. homeToken'[v].bal[Contract] >= homeToken[v].bal[Contract] - BroughtBy(p, v)
    <3>1. CASE v = t
      BY <1>7, <2>2, <3>1
    <3>2. CASE v # t
      BY <1>7, <2>1, <2>2, <3>2
    <3> QED
      BY <3>1, <3>2
  <2>5. /\ InputsOf(queue', v) \in Nat /\ BroughtBy(p, v) \in Nat
        /\ InputsOf(queue', v) = InputsOf(queue, v) - BroughtBy(p, v)
    BY <1>2
  <2>6. homeToken'[v].bal[Contract] >= InputsOf(queue', v) + AccountsHold(strandeds, v)
    BY <2>1, <2>3, <2>4, <2>5
  <2> QED
    BY <1>1, <2>6 DEF Covered
<1> QED
  BY <1>1, <1>2, <1>7, <1>8 DEF BooksKept, BookInv, BookTypes

(* Strand: what was owed to the queue is owed to the account.              *)
LEMMA StrandBooks ==
  ASSUME BookInv, NEW p, StrandCompose(p)
  PROVE  BooksKept
<1>1. /\ orders' = orders /\ homeToken' = homeToken /\ ClearCompose(p)
      /\ strandeds' = strandeds \cup {StrandedAccount(p)}
  BY DEF StrandCompose, RestUnchanged
<1>2. /\ IsWorth(p) /\ IsFiniteSet(queue')
      /\ \A q \in orders' \cup queue' : IsWorth(q)
      /\ \A t : /\ InputsOf(queue', t) \in Nat /\ BroughtBy(p, t) \in Nat
               /\ InputsOf(queue', t) = InputsOf(queue, t) - BroughtBy(p, t)
  BY <1>1, ClearedQueue
<1>3. PICK s : s = StrandedAccount(p)
  OBVIOUS
<1>4. s.mint = p.t /\ s.amount = InputOf(p)
  BY <1>3 DEF StrandedAccount
<1>5. IsHeld(s) /\ \A t : HeldBy(s, t) = BroughtBy(p, t)
  BY <1>2, <1>4, InputsAreNat DEF IsHeld, IsWorth, HeldBy, BroughtBy
<1>6. IsFiniteSet(strandeds) /\ \A a \in strandeds : IsHeld(a)
  BY DEF BookInv, BookTypes
<1>7. strandeds' = strandeds \cup {s}
  BY <1>1, <1>3
<1>8. IsFiniteSet(strandeds') /\ \A a \in strandeds' : IsHeld(a)
  BY <1>5, <1>6, <1>7, FS_AddElement
<1>9. ASSUME NEW v \in Tokens
      PROVE  Covered(homeToken'[v], v, queue', strandeds')
  <2>1. /\ homeToken[v].bal[Contract] \in Nat
        /\ InputsOf(queue, v) \in Nat /\ AccountsHold(strandeds, v) \in Nat
        /\ homeToken[v].bal[Contract] >= InputsOf(queue, v) + AccountsHold(strandeds, v)
    BY CoveredNow
  <2>2. /\ InputsOf(queue', v) \in Nat /\ BroughtBy(p, v) \in Nat
        /\ InputsOf(queue', v) = InputsOf(queue, v) - BroughtBy(p, v)
    BY <1>2
  <2>3. /\ AccountsHold(strandeds \cup {s}, v) \in Nat
        /\ AccountsHold(strandeds \cup {s}, v) <= AccountsHold(strandeds, v) + HeldBy(s, v)
    BY <1>5, <1>6, AccountsAdd
  <2>4. homeToken[v].bal[Contract] >= InputsOf(queue', v) + AccountsHold(strandeds \cup {s}, v)
    BY <1>5, <2>1, <2>2, <2>3
  <2> QED
    BY <1>1, <1>7, <2>4 DEF Covered
<1> QED
  BY <1>1, <1>2, <1>8, <1>9 DEF BooksKept, BookInv, BookTypes

(* Retry: at most what the account held is sent.                           *)
LEMMA RetryBooks ==
  ASSUME BookInv, NEW s, RetryReturn(s)
  PROVE  BooksKept
<1>1. /\ orders' = orders /\ queue' = queue /\ s \in strandeds
      /\ strandeds' = strandeds \ {s}
      /\ OftSend(homeToken, s.m, s.mint, s.id, s.amount, "REFUNDED")
  BY DEF RetryReturn, RestUnchanged, Closed
<1>2. IsFiniteSet(strandeds) /\ (\A a \in strandeds : IsHeld(a))
      /\ homeToken \in [Tokens -> Token]
  BY DEF BookInv, BookTypes
<1>3. PICK t \in Tokens, x \in Nat : t = s.mint /\ x = s.amount
  BY <1>1, <1>2 DEF IsHeld
<1>4. OftSend(homeToken, s.m, t, s.id, x, "REFUNDED")
  BY <1>1, <1>3
<1>5. /\ homeToken' \in [Tokens -> Token]
      /\ homeToken'[t].bal[Contract] >= homeToken[t].bal[Contract] - x
      /\ \A v \in Tokens : v # t => homeToken'[v] = homeToken[v]
  BY <1>2, <1>4, SendCosts
<1>6. IsFiniteSet(strandeds') /\ \A a \in strandeds' : IsHeld(a)
  BY <1>1, <1>2, FS_RemoveElement
<1>7. ASSUME NEW v \in Tokens
      PROVE  Covered(homeToken'[v], v, queue', strandeds')
  <2>1. /\ homeToken[v].bal[Contract] \in Nat
        /\ InputsOf(queue, v) \in Nat /\ AccountsHold(strandeds, v) \in Nat
        /\ homeToken[v].bal[Contract] >= InputsOf(queue, v) + AccountsHold(strandeds, v)
    BY CoveredNow
  <2>2. HeldBy(s, v) = IF v = t THEN x ELSE 0
    BY <1>3 DEF HeldBy
  <2>3. homeToken'[v].bal[Contract] \in Nat
    BY <1>5 DEF Token, Accounts
  <2>4. homeToken'[v].bal[Contract] >= homeToken[v].bal[Contract] - HeldBy(s, v)
    <3>1. CASE v = t
      BY <1>5, <2>2, <3>1
    <3>2. CASE v # t
      BY <1>5, <2>1, <2>2, <3>2
    <3> QED
      BY <3>1, <3>2
  <2>5. /\ AccountsHold(strandeds \ {s}, v) \in Nat
        /\ AccountsHold(strandeds \ {s}, v) = AccountsHold(strandeds, v) - HeldBy(s, v)
    BY <1>1, <1>2, AccountsDrop
  <2>6. homeToken'[v].bal[Contract] >= InputsOf(queue, v) + AccountsHold(strandeds \ {s}, v)
    BY <2>1, <2>2, <2>3, <2>4, <2>5
  <2> QED
    BY <1>1, <2>6 DEF Covered
<1> QED
  BY <1>1, <1>5, <1>6, <1>7 DEF BooksKept, BookInv, BookTypes

-----------------------------------------------------------------------------
(* Steps on the mirrors, and the operator's.                               *)

(* What a mirror may add to what is on the wire.                           *)
Bridges ==
  /\ platformFee' \in [Mirrors -> PlatformType]
  /\ \A p \in orders' : p \in orders \/ IsWorth(p)

(* An order crosses as what is left of its input once fees are taken.      *)
LEMMA SubmitBridges ==
  ASSUME BookTypes, NEW m \in Mirrors, NEW trade \in TradeType, NEW partner,
         NEW bps \in Nat, NEW recipient, Submit(m, trade, partner, bps, recipient)
  PROVE  Bridges
<1>1. /\ trade.gross \in Nat /\ trade.user \in Users
      /\ platformFee[m].bps \in Nat
  BY DEF TradeType, BookTypes, PlatformType
<1>2. PICK a \in Nat, b \in Nat : /\ a = FeeOf(trade.gross, bps, FeeUnit)
                                /\ b = FeeOf(trade.gross, platformFee[m].bps, FeeUnit)
  BY <1>1, FeeType, RequestAssumption
<1>3. a + b < trade.gross
  BY <1>2 DEF Submit, EscrowTotal
<1>4. PICK net \in Nat : net = trade.gross - (a + b)
  BY <1>1, <1>3
<1>5. PICK t \in Tokens : t = TokenIn(trade.dir)
  BY DEF TokenIn, Tokens
<1>6. PICK q \in Nat \ {0} : q = MirrorQuantum[m][t]
  BY WireAssumption
<1>7. PICK sd \in Nat : sd = ToShared(net, q)
  BY AmountTypes
<1>8. PICK i, min : SendOrder(m, t, i, trade.user, sd, min)
  BY <1>2, <1>4, <1>5, <1>6, <1>7 DEF Submit, EscrowTotal
<1>9. \A p \in orders' : p \in orders \/ IsWorth(p)
  BY <1>1, <1>8 DEF SendOrder, IsWorth
<1>10. platformFee' = platformFee
  BY DEF Submit, adminVars
<1> QED
  BY <1>9, <1>10 DEF Bridges, BookTypes

LEMMA MirrorBridges ==
  ASSUME BookTypes, MirrorNext
  PROVE  Bridges
<1>1. CASE Bridging
  <2>1. platformFee' = platformFee
    BY <1>1 DEF Bridging, requestVars
  <2>2. ASSUME NEW m \in Mirrors, NEW t \in Tokens, NEW u \in Users,
               NEW sd \in DirectAmounts, DirectSend(m, t, u, sd)
        PROVE  \A p \in orders' : p \in orders \/ IsWorth(p)
    <3>1. sd \in Nat
      BY WireAssumption
    <3> QED
      BY <2>2, <3>1 DEF DirectSend, SendOrder, IsWorth
  <2>3. ASSUME NEW p \in returns, ReceiveReturn(p)
        PROVE  orders' = orders
    BY <2>3 DEF ReceiveReturn
  <2> QED
    BY <1>1, <2>1, <2>2, <2>3 DEF Bridging, Bridges, BookTypes
<1>2. CASE Ordering
  <2>1. ASSUME NEW m \in Mirrors, NEW trade \in Trades, SubmitOpen(m, trade)
        PROVE  Bridges
    BY <2>1, SubmitBridges, RequestAssumption DEF SubmitOpen
  <2>2. ASSUME NEW auth \in Authorizations, SubmitVia(auth)
        PROVE  Bridges
    <3>1. auth.m \in Mirrors /\ auth.trade \in TradeType /\ auth.feeBps \in Nat
      BY RequestAssumption DEF AuthorizationType
    <3> QED
      BY <2>2, <3>1, SubmitBridges DEF SubmitVia
  <2> QED
    BY <1>2, <2>1, <2>2 DEF Ordering
<1>3. CASE Settling
  <2>1. UNCHANGED <<orders, platformFee>>
    BY <1>3 DEF Settling, Settle, ComposeFill, ComposeRefund, ComposeLate, Compose, HearNotice,
                NoticeStranded, NoticeCancelled, NoticeIgnored, ReceiveNotice, adminVars,
                requestVars
  <2> QED
    BY <2>1 DEF Bridges, BookTypes
<1>4. CASE Administering
  <2>1. orders' = orders
    BY <1>4 DEF Administering, ClaimFees, SetPartner, SetPartnerRequired, SetPlatformFee,
                InvalidateNonce, Sweep, SendStray, wireVars
  <2>2. platformFee' \in [Mirrors -> PlatformType]
    <3>1. ASSUME NEW m \in Mirrors, NEW terms \in PlatformTerms, SetPlatformFee(m, terms)
          PROVE  platformFee' \in [Mirrors -> PlatformType]
      BY <3>1, RequestAssumption DEF SetPlatformFee, BookTypes
    <3>2. \/ platformFee' = platformFee
          \/ \E m \in Mirrors, terms \in PlatformTerms : SetPlatformFee(m, terms)
      BY <1>4 DEF Administering, ClaimFees, SetPartner, SetPartnerRequired,
                  InvalidateNonce, Sweep, SendStray, adminVars, requestVars
    <3> QED
      BY <3>1, <3>2 DEF BookTypes
  <2> QED
    BY <2>1, <2>2 DEF Bridges
<1> QED
  BY <1>1, <1>2, <1>3, <1>4 DEF MirrorNext

(* Every step of the operated system keeps the books.                      *)
LEMMA EveryStepBooks ==
  ASSUME BookInv, [AdminNext]_allVars
  PROVE  BookInv'
<1>1. CASE MirrorNext /\ UNCHANGED <<relayVars, callVars>>
  <2>1. UNCHANGED <<homeToken, queue, strandeds>>
    BY <1>1 DEF relayVars, endpointVars
  <2>2. Bridges
    BY <1>1, MirrorBridges DEF BookInv
  <2> QED
    BY <2>1, <2>2 DEF Bridges, BookInv, BookTypes
<1>2. ASSUME BooksKept, platformFee' = platformFee
      PROVE  BookInv'
  BY <1>2 DEF BooksKept, BookInv, BookTypes
<1>3. CASE UNCHANGED requestVars /\ BooksKept
  BY <1>2, <1>3 DEF requestVars
<1>4. CASE Delivering /\ UNCHANGED <<requestVars, callVars>>
  <2>1. strandeds' = strandeds
    BY <1>4 DEF Delivering, RelayUntouched
  <2>2. ASSUME NEW p \in orders, ReceiveOrder(p)
        PROVE  BooksKept
    BY <2>1, <2>2, ReceiveBooks
  <2>3. ASSUME orders' = orders, UNCHANGED <<queue, homeToken>>
        PROVE  BooksKept
    <3>1. UNCHANGED <<homeToken, queue, strandeds>>
      BY <2>1, <2>3
    <3>2. orders' \subseteq orders
      BY <2>3
    <3> QED
      BY <3>1, <3>2, QuietBooks
  <2>4. \/ orders' = orders /\ UNCHANGED <<queue, homeToken>>
        \/ \E p \in orders : ReceiveOrder(p)
    BY <1>4 DEF Delivering, InitVerify, Verify
  <2> QED
    BY <1>3, <1>4, <2>2, <2>3, <2>4
<1>5. ASSUME NEW p, LzCompose(p)
      PROVE  BooksKept
  BY <1>5, FillBooks, RefundBooks DEF LzCompose
<1>6. CASE Executing \/ Retrying
  BY <1>3, <1>5, <1>6, RetryBooks DEF Executing, Retrying
<1>7. CASE SendStrand \/ SendRetry
  BY <1>3, <1>7, StrandBooks, RetryBooks DEF SendStrand, SendRetry, Ends
<1>8. CASE SendInit
  <2>1. UNCHANGED <<homeToken, queue, strandeds, orders, requestVars>>
    BY <1>8 DEF SendInit, InitVerify, RelayUntouched
  <2> QED
    BY <1>3, <2>1, QuietBooks
<1>9. CASE SendCancel
  <2>1. UNCHANGED <<homeToken, queue, strandeds, orders, requestVars>>
    BY <1>9 DEF SendCancel, Ends, CancelStuckInbound, RestUnchanged
  <2> QED
    BY <1>3, <2>1, QuietBooks
<1>10. CASE UNCHANGED vars
  <2>1. UNCHANGED <<homeToken, queue, strandeds, orders, requestVars>>
    BY <1>10 DEF vars, mirrorVars, wireVars, requestVars, relayVars, endpointVars
  <2> QED
    BY <1>3, <2>1, QuietBooks
<1>11. CASE \/ \E p \in queue : AskStrand(p)
            \/ \E s \in strandeds : AskRetry(s)
            \/ \E p \in Alive : AskCancel(p)
            \/ Throws
            \/ \E m \in Mirrors : SetMaxReturnFee(m)
  BY <1>10, <1>11 DEF AskStrand, AskRetry, AskCancel, Begins, Throws, SetMaxReturnFee
<1> QED
  BY <1>1, <1>4, <1>6, <1>7, <1>8, <1>9, <1>10, <1>11 DEF AdminNext, allVars

(* Nothing is held, and nothing owed, at the start.                        *)
LEMMA BooksAtStart ==
  ASSUME AdminInit
  PROVE  BookInv
<1>1. orders = {} /\ queue = {} /\ strandeds = {}
  BY DEF AdminInit, Init, MirrorInit, WireInit, SolanaRelayInit, SolanaEndpointInit
<1>2. platformFee \in [Mirrors -> PlatformType]
  BY RequestAssumption DEF AdminInit, Init, MirrorInit, RequestInit
<1>3. ASSUME NEW t \in Tokens
      PROVE  HomeTokenAtStart[t] \in Token /\ AbroadAtStart(t) \in Nat
  <2>1. PICK f \in Nat, q \in Nat, h \in Nat :
          f = MirrorFloat[t] /\ q = HomeQuantum[t] /\ h = HomeFloat[t]
    BY WireAssumption, HomeAssumption
  <2>2. Cardinality(Mirrors) \in Nat /\ Cardinality(Users) \in Nat
    BY WireAssumption, FS_CardinalityType
  <2>3. AbroadAtStart(t) \in Nat
    BY <2>1, <2>2, ProductNat DEF AbroadAtStart
  <2>4. PICK x \in Nat : x = AbroadAtStart(t)
    BY <2>3
  <2>5. HomeTokenAtStart[t] =
          [bal |-> [a \in Accounts |->
                      CASE a = World -> h
                        [] a = Vault /\ t \in Adapted -> x
                        [] OTHER -> 0],
           out |-> IF t \in Adapted THEN 0 ELSE x,
           in  |-> 0]
    BY <2>1, <2>4 DEF HomeTokenAtStart
  <2> QED
    BY <2>3, <2>4, <2>5 DEF Token
<1>4. homeToken = [t \in Tokens |-> [HomeTokenAtStart[t] EXCEPT !.out = AbroadAtStart(t)]]
  BY DEF AdminInit, Init, SolanaRelayInit, SolanaEndpointInit
<1>5. \A t \in Tokens : homeToken[t] \in Token
  BY <1>3, <1>4, CountedToken
<1>6. homeToken \in [Tokens -> Token]
  BY <1>4, <1>5
<1>7. ASSUME NEW t
      PROVE  InputsOf({}, t) = 0 /\ AccountsHold({}, t) = 0
  BY SumOfNone DEF InputsOf, AccountsHold
<1>8. ASSUME NEW t \in Tokens
      PROVE  homeToken[t].bal[Contract] >= 0
  BY <1>6 DEF Token, Accounts
<1>9. IsFiniteSet(queue) /\ IsFiniteSet(strandeds)
  BY <1>1, FS_EmptySet
<1>10. \A t \in Tokens : Covered(homeToken[t], t, queue, strandeds)
  BY <1>1, <1>7, <1>8 DEF Covered
<1> QED
  BY <1>1, <1>2, <1>6, <1>9, <1>10 DEF BookInv, BookTypes

(* The books are those of DebtsAreKept.                                    *)
LEMMA BooksCover ==
  ASSUME BookInv
  PROVE  DebtsAreKept
<1> SUFFICES ASSUME NEW t \in Tokens
             PROVE  Surplus(t) >= 0
  BY DEF DebtsAreKept
<1>1. /\ homeToken[t].bal[Contract] \in Nat
      /\ InputsOf(queue, t) \in Nat /\ AccountsHold(strandeds, t) \in Nat
      /\ homeToken[t].bal[Contract] >= InputsOf(queue, t) + AccountsHold(strandeds, t)
  BY CoveredNow
<1>2. QueuedInputs(t) = InputsOf(queue, t) /\ StrandedAmounts(t) = AccountsHold(strandeds, t)
  BY DEF QueuedInputs, StrandedAmounts, InputsOf, AccountsHold, BroughtBy, HeldBy, SumFunction
<1> QED
  BY <1>1, <1>2 DEF Surplus

(***************************************************************************)
(* swap_relay's token accounts hold at any time the inputs of all queued   *)
(* composes and what the Stranded accounts record, however composes are    *)
(* filled, refunded, stranded and retried, whatever the pool quotes and    *)
(* whatever the operator read before: no order is paid with another's.     *)
(***************************************************************************)
THEOREM SolanaDebtsCovered == AdminSpec => []DebtsAreKept
<1>1. AdminInit => BookInv
  BY BooksAtStart
<1>2. BookInv /\ [AdminNext]_allVars => BookInv'
  BY EveryStepBooks
<1>3. BookInv => DebtsAreKept
  BY BooksCover
<1> QED
  BY <1>1, <1>2, <1>3, PTL DEF AdminSpec

-----------------------------------------------------------------------------
(***************************************************************************)
(* A live page never goes back in time, for any chains, any number of      *)
(* measurements and any order in which they end: it awaits one answer at a *)
(* time, and what it awaits is at least as new as what it shows.           *)
(***************************************************************************)

(* The measurements, numbered from one.                                    *)
IsList(s, n) == n \in Nat /\ \E S : s \in [1..n -> S]

PageInv ==
  \E n \in Nat :
    /\ IsList(readings, n)
    /\ shown \in 0..n /\ pending \subseteq 1..n
    /\ \A r \in pending : shown <= r
    /\ \A r, q \in pending : r = q

-----------------------------------------------------------------------------
LEMMA LengthOfList ==
  ASSUME NEW s, NEW n, IsList(s, n)
  PROVE  Len(s) = n /\ s \in Seq(Range(s))
<1>1. PICK S : s \in [1..n -> S]
  BY DEF IsList
<1>2. s \in [1..n -> Range(s)] /\ n \in Nat
  BY <1>1 DEF IsList, Range
<1> QED
  BY <1>2

LEMMA ListGrows ==
  ASSUME NEW s, NEW n, IsList(s, n), NEW x
  PROVE  IsList(Append(s, x), n + 1)
<1> DEFINE S == Range(s) \cup {x}
<1>1. s \in Seq(S) /\ x \in S /\ Len(s) = n /\ n \in Nat
  BY LengthOfList, SeqMonotonic DEF IsList
<1> HIDE DEF S
<1>2. Append(s, x) \in Seq(S) /\ Len(Append(s, x)) = n + 1
  BY <1>1, AppendProperties
<1>3. DOMAIN Append(s, x) = 1..(n + 1) /\ n + 1 \in Nat
  BY <1>1, <1>2
<1>4. Append(s, x) \in [1..(n + 1) -> S]
  <2>1. \A l \in Seq(S) : l \in [1..Len(l) -> S]
    OBVIOUS
  <2> QED
    BY <1>2, <2>1
<1> QED
  BY <1>3, <1>4 DEF IsList

(* Rewriting measurements keeps their number.                              *)
LEMMA ListKept ==
  ASSUME NEW s, NEW n, IsList(s, n), NEW q, q = [r \in DOMAIN q |-> q[r]], DOMAIN q = DOMAIN s
  PROVE  IsList(q, n)
<1>1. DOMAIN q = 1..n /\ n \in Nat
  BY DEF IsList
<1>2. q \in [1..n -> Range(q)]
  BY <1>1 DEF Range
<1> QED
  BY <1>1, <1>2 DEF IsList

(* What a page shows and awaits, beside a list at least as long.           *)
LEMMA PageUndisturbed ==
  ASSUME NEW n \in Nat, NEW k \in Nat, n <= k, IsList(readings', k),
         shown \in 0..n, pending \subseteq 1..n, \A r \in pending : shown <= r,
         \A r, q \in pending : r = q,
         pending' \subseteq pending, UNCHANGED shown
  PROVE  PageInv'
<1>1. shown' \in 0..k /\ pending' \subseteq 1..k
  OBVIOUS
<1>2. (\A r \in pending' : shown' <= r) /\ (\A r, q \in pending' : r = q)
  OBVIOUS
<1> QED
  BY <1>1, <1>2 DEF PageInv

LEMMA PageInvKept ==
  ASSUME PageInv, [LiveNext]_<<vars, reportVars>>
  PROVE  PageInv'
<1>1. PICK n \in Nat : /\ IsList(readings, n)
                       /\ shown \in 0..n /\ pending \subseteq 1..n
                       /\ \A r \in pending : shown <= r
                       /\ \A r, q \in pending : r = q
  BY DEF PageInv
<1>2. CASE UNCHANGED <<vars, reportVars>>
  BY <1>1, <1>2 DEF PageInv, reportVars
<1>3. ASSUME DOMAIN readings' = DOMAIN readings, readings' = [r \in DOMAIN readings' |-> readings'[r]],
             pending' \subseteq pending, UNCHANGED shown
      PROVE  PageInv'
  <2>1. IsList(readings', n)
    BY <1>1, <1>3, ListKept
  <2> QED
    BY <1>1, <1>3, <2>1, PageUndisturbed
<1>4. CASE ChainsMove
  BY <1>3, <1>4 DEF ChainsMove
<1>5. ASSUME NEW r \in DOMAIN readings, Measure(r) \/ Sum(r) \/ Unreachable(r)
      PROVE  PageInv'
  <2>1. \E x : readings' = [readings EXCEPT ![r] = x]
    BY <1>5 DEF Measure, Sum, Unreachable
  <2>2. UNCHANGED <<pending, shown>>
    BY <1>5 DEF Measure, Sum, Unreachable
  <2>3. readings = [q \in DOMAIN readings |-> readings[q]]
    BY <1>1 DEF IsList
  <2> QED
    BY <1>3, <2>1, <2>2, <2>3
<1>6. ASSUME GetLive
      PROVE  \E k \in Nat : n <= k /\ k >= 1 /\ IsList(readings', k)
  <2>1. CASE Latest > 0 /\ UNCHANGED readings
    <3>1. Len(readings) = n
      BY <1>1, LengthOfList
    <3> QED BY <1>1, <2>1, <3>1 DEF Latest
  <2>2. CASE readings' = Append(readings, Reading)
    <3>1. IsList(readings', n + 1)
      BY <1>1, <2>2, ListGrows
    <3> QED BY <1>1, <3>1
  <2> QED
    BY <1>6, <2>1, <2>2 DEF GetLive
<1>7. CASE Visit
  BY <1>1, <1>6, <1>7, PageUndisturbed DEF Visit
<1>8. CASE Expire
  BY <1>1, <1>8, PageUndisturbed DEF Expire
<1>9. CASE Tick
  <2>1. PICK k \in Nat : n <= k /\ k >= 1 /\ IsList(readings', k)
    BY <1>6, <1>9 DEF Tick
  <2>2. pending' = {k} /\ UNCHANGED shown
    BY <1>9, <2>1, LengthOfList DEF Tick, MayAsk
  <2> QED
    BY <1>1, <2>1, <2>2 DEF PageInv
<1>10. ASSUME NEW r \in 1..MaxReadings, Answered(r)
       PROVE  PageInv'
  <2>1. r \in pending /\ pending' = {} /\ shown' = r /\ UNCHANGED readings
    BY <1>1, <1>10 DEF Answered
  <2> QED
    BY <1>1, <2>1 DEF PageInv
<1>11. ASSUME NEW r \in 1..MaxReadings, FetchFails(r)
       PROVE  PageInv'
  <2>1. pending' \subseteq pending /\ UNCHANGED <<shown, readings>>
    BY <1>11 DEF FetchFails
  <2> QED
    BY <1>1, <2>1, PageUndisturbed
<1> QED
  BY <1>2, <1>4, <1>5, <1>7, <1>8, <1>9, <1>10, <1>11 DEF LiveNext

(***************************************************************************)
(* A measurement a page shows is never replaced by one begun earlier: a    *)
(* page asks again only after its last answer came, and the server starts  *)
(* measurements in the order they are numbered in.                         *)
(***************************************************************************)
THEOREM PageNeverGoesBack ==
  ReportSpec => NeverBack
<1>1. LiveInit => PageInv
  <2> SUFFICES ASSUME LiveInit PROVE PageInv
    OBVIOUS
  <2>1. IsList(readings, 0)
    BY DEF LiveInit, IsList
  <2> QED
    BY <2>1 DEF LiveInit, PageInv
<1>2. PageInv /\ [LiveNext]_<<vars, reportVars>> => PageInv'
  BY PageInvKept
<1>3. PageInv /\ [LiveNext]_<<vars, reportVars>> => [shown' >= shown]_shown
  <2> SUFFICES ASSUME PageInv, [LiveNext]_<<vars, reportVars>>, shown' # shown
               PROVE  shown' >= shown
    OBVIOUS
  <2>1. PICK r : Answered(r)
    BY DEF LiveNext, ChainsMove, Visit, Expire, Tick, Measure, Sum, Unreachable, FetchFails,
       reportVars
  <2>2. r \in pending /\ shown' = r
    BY <2>1 DEF Answered
  <2> QED
    BY <2>2 DEF PageInv
<1> QED
  BY <1>1, <1>2, <1>3, PTL DEF ReportSpec, NeverBack

-----------------------------------------------------------------------------
(***************************************************************************)
(* Measurements.  What the calls of one add up to is what exists, for each *)
(* chain keeps to its own sum: what an asset's holders have and what left  *)
(* is what came in and what was there; a lockbox has what left and did not *)
(* return.  And what the home chain says is away is what the mirrors and   *)
(* the wire say.                                                           *)
(***************************************************************************)

(* The home chain's ledger of asset t.                                     *)
LedgerWhole(k, t) ==
  /\ k \in Token
  /\ Whole(k.out, HomeQuantum[t]) /\ Whole(k.in, HomeQuantum[t])
  /\ IF t \in Adapted THEN k.bal[Vault] + k.in = k.out
     ELSE Total(k) + k.out = k.in + (HomeFloat[t] + AbroadAtStart(t))

(* What left it and did not return, in shared units.                       *)
LedgerAway(k, t) == ToShared(k.out, HomeQuantum[t]) - ToShared(k.in, HomeQuantum[t])

(* From k to l, x units more are away.                                     *)
LedgerMoves(k, l, t, x) ==
  LedgerWhole(k, t) => LedgerWhole(l, t) /\ LedgerAway(l, t) = LedgerAway(k, t) + x

(* It is a whole number.                                                   *)
LEMMA LedgerNumbers ==
  ASSUME NEW k \in Token, NEW t \in Tokens
  PROVE  /\ k.bal[Vault] \in Nat /\ Total(k) \in Nat /\ k.out \in Nat /\ k.in \in Nat
         /\ HomeQuantum[t] \in Nat \ {0}
         /\ ToShared(k.out, HomeQuantum[t]) \in Nat /\ ToShared(k.in, HomeQuantum[t]) \in Nat
         /\ LedgerAway(k, t) \in Int
<1>1. /\ k.bal[Vault] \in Nat /\ Total(k) \in Nat /\ k.out \in Nat /\ k.in \in Nat
      /\ HomeQuantum[t] \in Nat \ {0}
  BY NamedAccounts, TotalIsNat, HomeAssumption DEF Token
<1>2. ToShared(k.out, HomeQuantum[t]) \in Nat /\ ToShared(k.in, HomeQuantum[t]) \in Nat
  BY <1>1, AmountTypes
<1> QED
  BY <1>1, <1>2 DEF LedgerAway

(* What existed before the model starts does.                              *)
LEMMA ExistedIsNat ==
  ASSUME NEW t \in Tokens
  PROVE  AbroadAtStart(t) \in Nat /\ HomeFloat[t] + AbroadAtStart(t) \in Nat
<1>1. /\ Cardinality(Mirrors) \in Nat /\ Cardinality(Users) \in Nat
      /\ MirrorFloat[t] \in Nat /\ HomeQuantum[t] \in Nat /\ HomeFloat[t] \in Nat
  BY WireAssumption, HomeAssumption, FS_CardinalityType
<1>2. Cardinality(Mirrors) * Cardinality(Users) \in Nat
  BY <1>1, ProductNat
<1>3. Cardinality(Mirrors) * Cardinality(Users) * MirrorFloat[t] \in Nat
  BY <1>1, <1>2, ProductNat
<1>4. AbroadAtStart(t) \in Nat
  BY <1>1, <1>3, ProductNat DEF AbroadAtStart
<1> QED
  BY <1>1, <1>4

(* A payment that is not the lockbox's.                                    *)
LEMMA LedgerPays ==
  ASSUME NEW k \in Token, NEW t \in Tokens, NEW a \in Accounts \ {Vault},
         NEW b \in Accounts \ {Vault}, NEW x \in Nat, CanPay(k, a, x)
  PROVE  Transfer(k, a, b, x) \in Token /\ LedgerMoves(k, Transfer(k, a, b, x), t, 0)
<1>1. PICK l : l = Transfer(k, a, b, x)
  OBVIOUS
<1>2. l \in Token /\ l.out = k.out + 0 /\ l.in = k.in + 0 /\ Total(l) + 0 = Total(k) + 0
  BY <1>1, TransferFlows DEF Flows
<1>3. l.bal[Vault] = k.bal[Vault]
  <2>1. Vault \in Accounts
    BY NamedAccounts
  <2>2. CASE a = b
    BY <1>1, <2>1, <2>2, TransferToSelf
  <2>3. CASE a # b
    BY <1>1, <2>1, <2>3, TransferMoves
  <2> QED
    BY <2>2, <2>3
<1>4. l.out = k.out /\ l.in = k.in /\ Total(l) = Total(k)
  BY <1>2, LedgerNumbers
<1>5. LedgerAway(l, t) = LedgerAway(k, t) + 0
  BY <1>4, LedgerNumbers DEF LedgerAway
<1> QED
  BY <1>1, <1>2, <1>3, <1>4, <1>5 DEF LedgerMoves, LedgerWhole

(* What the relay sends away, counted once.                                *)
LEMMA LedgerSends ==
  ASSUME NEW k \in Token, NEW t \in Tokens, NEW s \in Nat, NEW x,
         x = ToLocal(s, HomeQuantum[t]), CanPay(k, Contract, x)
  PROVE  /\ OftDebit(k, t, Contract, x) \in Token
         /\ LedgerMoves(k, OftDebit(k, t, Contract, x), t, s)
<1>1. PICK q, h, l : /\ q = HomeQuantum[t] /\ h = HomeDebit(k, t, Contract, x)
                     /\ l = OftDebit(k, t, Contract, x)
  OBVIOUS
<1>2. /\ q \in Nat \ {0} /\ x \in Nat /\ x = ToLocal(s, q)
      /\ k.bal[Vault] \in Nat /\ Total(k) \in Nat /\ k.out \in Nat /\ k.in \in Nat
      /\ ToShared(k.out, q) \in Nat /\ ToShared(k.in, q) \in Nat
  BY <1>1, LedgerNumbers, AmountTypes
<1>3. /\ Contract \in Accounts /\ Vault \in Accounts /\ Contract # Vault
  BY NamedAccounts DEF Contract, Vault
<1>4. /\ h \in Token /\ h.in = k.in
      /\ t \in Adapted => h.bal[Vault] = k.bal[Vault] + x
      /\ t \notin Adapted => Total(h) + x = Total(k)
  <2>1. CASE t \in Adapted
    <3>1. h = Transfer(k, Contract, Vault, x)
      BY <1>1, <2>1 DEF HomeDebit, Lock
    <3>2. h \in Token /\ h.bal[Vault] = k.bal[Vault] + x
      BY <1>2, <1>3, <3>1, TransferType, TransferMoves
    <3>3. h.in = k.in + 0
      BY <1>2, <1>3, <3>1, TransferFlows DEF Flows
    <3> QED
      BY <1>2, <2>1, <3>2, <3>3
  <2>2. CASE t \notin Adapted
    <3>1. h = Burn(k, Contract, x)
      BY <1>1, <2>2 DEF HomeDebit
    <3>2. h \in Token /\ h.in = k.in + 0 /\ Total(h) + x = Total(k) + 0
      BY <1>2, <1>3, <3>1, BurnFlows DEF Flows
    <3> QED
      BY <1>2, <2>2, <3>2
  <2> QED
    BY <2>1, <2>2
<1>5. /\ l \in Token /\ l.bal = h.bal /\ l.out = k.out + x /\ l.in = k.in
  <2>1. k.out + x \in Nat /\ l = [h EXCEPT !.out = k.out + x]
    BY <1>1, <1>2 DEF OftDebit
  <2> QED
    BY <1>4, <2>1 DEF Token
<1> SUFFICES ASSUME LedgerWhole(k, t)
             PROVE  LedgerWhole(l, t) /\ LedgerAway(l, t) = LedgerAway(k, t) + s
  BY <1>1, <1>5 DEF LedgerMoves
<1>6. Whole(l.out, q) /\ ToShared(l.out, q) = ToShared(k.out, q) + s
  BY <1>1, <1>2, <1>5, WholeMore DEF LedgerWhole
<1>7. LedgerAway(l, t) = LedgerAway(k, t) + s
  BY <1>1, <1>2, <1>5, <1>6 DEF LedgerAway
<1>8. CASE t \in Adapted
  <2>1. l.bal[Vault] + l.in = l.out
    BY <1>2, <1>4, <1>5, <1>8 DEF LedgerWhole
  <2> QED
    BY <1>1, <1>5, <1>6, <1>7, <1>8, <2>1 DEF LedgerWhole
<1>9. CASE t \notin Adapted
  <2>1. Total(l) = Total(h)
    BY <1>5 DEF Total
  <2>2. Total(h) \in Nat /\ HomeFloat[t] + AbroadAtStart(t) \in Nat
    BY <1>4, TotalIsNat, ExistedIsNat
  <2>3. Total(k) + k.out = k.in + (HomeFloat[t] + AbroadAtStart(t))
    BY <1>9 DEF LedgerWhole
  <2>4. Total(l) + l.out = l.in + (HomeFloat[t] + AbroadAtStart(t))
    BY <1>2, <1>4, <1>5, <1>9, <2>1, <2>2, <2>3
  <2> QED
    BY <1>1, <1>5, <1>6, <1>7, <1>9, <2>4 DEF LedgerWhole
<1> QED
  BY <1>8, <1>9

(* What arrives there, for anybody but the lockbox.                        *)
LEMMA LedgerGets ==
  ASSUME NEW k \in Token, NEW t \in Tokens, NEW a \in Accounts \ {Vault}, NEW s \in Nat, NEW x,
         x = ToLocal(s, HomeQuantum[t]), t \in Adapted => CanPay(k, Vault, x)
  PROVE  /\ OftCredit(k, t, a, x) \in Token
         /\ LedgerMoves(k, OftCredit(k, t, a, x), t, -s)
<1>1. PICK q, h, l : /\ q = HomeQuantum[t] /\ h = HomeCredit(k, t, a, x)
                     /\ l = OftCredit(k, t, a, x)
  OBVIOUS
<1>2. /\ q \in Nat \ {0} /\ x \in Nat /\ x = ToLocal(s, q)
      /\ k.bal[Vault] \in Nat /\ Total(k) \in Nat /\ k.out \in Nat /\ k.in \in Nat
      /\ ToShared(k.out, q) \in Nat /\ ToShared(k.in, q) \in Nat
  BY <1>1, LedgerNumbers, AmountTypes
<1>3. Vault \in Accounts
  BY NamedAccounts
<1>4. /\ h \in Token /\ h.out = k.out
      /\ t \in Adapted => h.bal[Vault] + x = k.bal[Vault]
      /\ t \notin Adapted => Total(h) = Total(k) + x
  <2>1. CASE t \in Adapted
    <3>1. h = Transfer(k, Vault, a, x) /\ CanPay(k, Vault, x)
      BY <1>1, <2>1 DEF HomeCredit, Unlock
    <3>2. h \in Token /\ h.bal[Vault] = k.bal[Vault] - x
      BY <1>2, <1>3, <3>1, TransferType, TransferMoves
    <3>3. h.out = k.out + 0
      BY <1>2, <1>3, <3>1, TransferFlows DEF Flows
    <3> QED
      BY <1>2, <2>1, <3>2, <3>3
  <2>2. CASE t \notin Adapted
    <3>1. h = Mint(k, a, x)
      BY <1>1, <2>2 DEF HomeCredit
    <3>2. h \in Token /\ h.out = k.out + 0 /\ Total(h) + 0 = Total(k) + x
      BY <1>2, <3>1, MintFlows DEF Flows
    <3>3. Total(h) \in Nat
      BY <3>2, TotalIsNat
    <3> QED
      BY <1>2, <2>2, <3>2, <3>3
  <2> QED
    BY <2>1, <2>2
<1>5. /\ l \in Token /\ l.bal = h.bal /\ l.in = k.in + x /\ l.out = k.out
  <2>1. k.in + x \in Nat /\ l = [h EXCEPT !.in = k.in + x]
    BY <1>1, <1>2 DEF OftCredit
  <2> QED
    BY <1>4, <2>1 DEF Token
<1> SUFFICES ASSUME LedgerWhole(k, t)
             PROVE  LedgerWhole(l, t) /\ LedgerAway(l, t) = LedgerAway(k, t) + (-s)
  BY <1>1, <1>5 DEF LedgerMoves
<1>6. Whole(l.in, q) /\ ToShared(l.in, q) = ToShared(k.in, q) + s
  BY <1>1, <1>2, <1>5, WholeMore DEF LedgerWhole
<1>7. LedgerAway(l, t) = LedgerAway(k, t) + (-s)
  BY <1>1, <1>2, <1>5, <1>6 DEF LedgerAway
<1>8. CASE t \in Adapted
  <2>1. l.bal[Vault] \in Nat
    BY <1>5, LedgerNumbers
  <2>2. l.bal[Vault] + l.in = l.out
    BY <1>2, <1>4, <1>5, <1>8, <2>1 DEF LedgerWhole
  <2> QED
    BY <1>1, <1>5, <1>6, <1>7, <1>8, <2>2 DEF LedgerWhole
<1>9. CASE t \notin Adapted
  <2>1. Total(l) = Total(h)
    BY <1>5 DEF Total
  <2>2. HomeFloat[t] + AbroadAtStart(t) \in Nat
    BY ExistedIsNat
  <2>3. Total(k) + k.out = k.in + (HomeFloat[t] + AbroadAtStart(t))
    BY <1>9 DEF LedgerWhole
  <2>4. Total(l) + l.out = l.in + (HomeFloat[t] + AbroadAtStart(t))
    BY <1>2, <1>4, <1>5, <1>9, <2>1, <2>2, <2>3
  <2> QED
    BY <1>1, <1>5, <1>6, <1>7, <1>9, <2>4 DEF LedgerWhole
<1> QED
  BY <1>8, <1>9

-----------------------------------------------------------------------------
(* A step of the home chain takes an order off the wire,                   *)
OffTheWire(p) ==
  /\ p \in orders /\ ~Dead(p.m, p.t, p.nonce)
  /\ orders' = orders \ {p}
  /\ homeToken' \in [Tokens -> Token]
  /\ \A t \in Tokens :
       LedgerMoves(homeToken[t], homeToken'[t], t, IF t = p.t THEN -p.sd ELSE 0)
  /\ UNCHANGED <<mirrorToken, requests, returns, backNonce>>

(* puts a result on it,                                                    *)
OntoTheWire(p) ==
  /\ p \in ReturnPacket /\ p.nonce = backNonce[p.m][p.t] + 1
  /\ returns' = returns \cup {p}
  /\ backNonce' = [backNonce EXCEPT ![p.m][p.t] = @ + 1]
  /\ homeToken' \in [Tokens -> Token]
  /\ \A t \in Tokens :
       LedgerMoves(homeToken[t], homeToken'[t], t, IF t = p.t THEN p.sd ELSE 0)
  /\ UNCHANGED <<mirrorToken, requests, orders>>

(* or leaves it alone.                                                     *)
NothingCrosses ==
  UNCHANGED <<homeToken, mirrorToken, requests, orders, returns, backNonce>>

(* A table of ledgers that an instruction has come to, with nothing sent.  *)
LedgerTable(held) ==
  /\ held \in [Tokens -> Token]
  /\ \A t \in Tokens : LedgerMoves(homeToken[t], held[t], t, 0)

(* A ledger that stays.                                                    *)
LEMMA LedgerStays ==
  ASSUME NEW k \in Token, NEW t \in Tokens
  PROVE  LedgerMoves(k, k, t, 0)
BY LedgerNumbers DEF LedgerMoves

LEMMA LedgersAtFirst ==
  ASSUME homeToken \in [Tokens -> Token]
  PROVE  LedgerTable(homeToken)
BY LedgerStays DEF LedgerTable

(* A payment in one asset gives another such table.                        *)
LEMMA LedgersPay ==
  ASSUME homeToken \in [Tokens -> Token], NEW held, LedgerTable(held), NEW t \in Tokens,
         NEW a \in Accounts \ {Vault}, NEW b \in Accounts \ {Vault}, NEW x \in Nat,
         CanPay(held[t], a, x)
  PROVE  LedgerTable([held EXCEPT ![t] = Transfer(held[t], a, b, x)])
<1>1. PICK k : k = Transfer(held[t], a, b, x)
  OBVIOUS
<1>2. held \in [Tokens -> Token] /\ held[t] \in Token
  BY DEF LedgerTable
<1>3. k \in Token
  BY <1>1, <1>2, TransferType
<1>4. PICK after : after = [held EXCEPT ![t] = k]
  OBVIOUS
<1>5. after \in [Tokens -> Token]
  BY <1>2, <1>3, <1>4
<1>6. ASSUME NEW tt \in Tokens
      PROVE  LedgerMoves(homeToken[tt], after[tt], tt, 0)
  <2>1. LedgerMoves(homeToken[tt], held[tt], tt, 0)
    BY DEF LedgerTable
  <2>2. CASE tt = t
    <3>1. after[tt] = k
      BY <1>2, <1>4, <2>2
    <3>2. LedgerMoves(held[tt], k, tt, 0)
      BY <1>1, <1>2, <2>2, LedgerPays
    <3>3. LedgerAway(homeToken[tt], tt) \in Int
      BY LedgerNumbers
    <3> QED
      BY <2>1, <3>1, <3>2, <3>3 DEF LedgerMoves
  <2>3. CASE tt # t
    BY <1>2, <1>4, <2>1, <2>3
  <2> QED
    BY <2>2, <2>3
<1> QED
  BY <1>1, <1>4, <1>5, <1>6 DEF LedgerTable

(* A return leg, sent from it.                                             *)
LEMMA LegOntoTheWire ==
  ASSUME WireTypeOK, homeToken \in [Tokens -> Token],
         NEW held, LedgerTable(held), NEW m \in Mirrors, NEW t \in Tokens, NEW id \in Ids,
         NEW amount \in Nat, NEW status \in {"FILLED", "REFUNDED"},
         OftSend(held, m, t, id, amount, status), UNCHANGED <<mirrorToken, requests, orders>>
  PROVE  \E p : OntoTheWire(p)
<1>1. PICK q, sd, n : q = HomeQuantum[t] /\ sd = ToShared(amount, q) /\ n = backNonce[m][t]
  OBVIOUS
<1>2. q \in Nat \ {0} /\ n \in Nat
  BY <1>1, HomeAssumption DEF WireTypeOK
<1>3. /\ sd \in Nat /\ ToLocal(sd, q) = RemoveDust(amount, q)
      /\ ToLocal(sd, q) \in Nat /\ ToLocal(sd, q) <= amount
  BY <1>1, <1>2, AmountTypes DEF RemoveDust
<1>4. PICK x : x = ToLocal(sd, q)
  OBVIOUS
<1>5. /\ CanPay(held[t], Contract, amount)
      /\ homeToken' = [held EXCEPT ![t] = OftDebit(@, t, Contract, x)]
      /\ SendReturn(m, t, id, sd, status)
  BY <1>1, <1>3, <1>4 DEF OftSend
<1>6. held \in [Tokens -> Token] /\ held[t] \in Token
  BY DEF LedgerTable
<1>7. CanPay(held[t], Contract, x)
  <2>1. held[t].bal[Contract] \in Nat
    BY <1>6, NamedAccounts DEF Token
  <2> QED
    BY <1>3, <1>4, <1>5, <2>1 DEF CanPay
<1>8. PICK k : k = OftDebit(held[t], t, Contract, x)
  OBVIOUS
<1>9. k \in Token /\ LedgerMoves(held[t], k, t, sd)
  BY <1>1, <1>3, <1>4, <1>6, <1>7, <1>8, LedgerSends
<1>10. PICK p : p = [m |-> m, t |-> t, nonce |-> n + 1, id |-> id, sd |-> sd, status |-> status]
  OBVIOUS
<1>11. /\ p.m = m /\ p.t = t /\ p.nonce = n + 1 /\ p.sd = sd
       /\ returns' = returns \cup {p}
       /\ backNonce' = [backNonce EXCEPT ![m][t] = @ + 1]
  BY <1>1, <1>5, <1>10 DEF SendReturn
<1>12. p \in ReturnPacket
  BY <1>2, <1>3, <1>10 DEF ReturnPacket
<1>13. homeToken' \in [Tokens -> Token] /\ homeToken'[t] = k
  BY <1>5, <1>6, <1>8, <1>9
<1>14. ASSUME NEW tt \in Tokens
       PROVE  LedgerMoves(homeToken[tt], homeToken'[tt], tt, IF tt = p.t THEN p.sd ELSE 0)
  <2>1. LedgerMoves(homeToken[tt], held[tt], tt, 0)
    BY DEF LedgerTable
  <2>2. CASE tt = t
    <3>1. LedgerMoves(held[tt], k, tt, sd)
      BY <1>9, <2>2
    <3>2. LedgerAway(homeToken[tt], tt) \in Int
      BY LedgerNumbers
    <3>3. LedgerMoves(homeToken[tt], k, tt, sd)
      BY <1>3, <2>1, <3>1, <3>2 DEF LedgerMoves
    <3> QED
      BY <1>11, <1>13, <2>2, <3>3
  <2>3. CASE tt # t
    BY <1>5, <1>6, <1>11, <2>1, <2>3
  <2> QED
    BY <2>2, <2>3
<1>15. OntoTheWire(p)
  BY <1>1, <1>11, <1>12, <1>13, <1>14 DEF OntoTheWire
<1> QED
  BY <1>15

(* An order arrives.                                                       *)
LEMMA ArrivalOffTheWire ==
  ASSUME WireTypeOK, PathTypes, AccountsAhead, homeToken \in [Tokens -> Token],
         NEW p \in orders, ReceiveOrder(p), UNCHANGED <<mirrorToken, requests, returns, backNonce>>
  PROVE  OffTheWire(p)
<1>1. p.t \in Tokens /\ p.sd \in Nat /\ p.user \in Users
  BY DEF WireTypeOK, OrderPacket
<1>2. PICK a, x : /\ a = (IF p.id = 0 THEN p.user ELSE Contract)
                  /\ x = ToLocal(p.sd, HomeQuantum[p.t])
  OBVIOUS
<1>3. a \in Accounts \ {Vault}
  BY <1>1, <1>2, NamesAssumption DEF Accounts, Contract, Vault
<1>4. PICK k : k = OftCredit(homeToken[p.t], p.t, a, x)
  OBVIOUS
<1>5. /\ orders' = orders \ {p}
      /\ p.t \in Adapted => CanPay(homeToken[p.t], Vault, x)
      /\ homeToken' = [homeToken EXCEPT ![p.t] = k]
  BY <1>2, <1>4 DEF ReceiveOrder
<1>6. k \in Token /\ LedgerMoves(homeToken[p.t], k, p.t, -p.sd)
  BY <1>1, <1>2, <1>3, <1>4, <1>5, LedgerGets
<1>7. homeToken' \in [Tokens -> Token]
  BY <1>1, <1>5, <1>6
<1>8. ASSUME NEW t \in Tokens
      PROVE  LedgerMoves(homeToken[t], homeToken'[t], t, IF t = p.t THEN -p.sd ELSE 0)
  <2>1. CASE t = p.t
    BY <1>5, <1>6, <2>1
  <2>2. CASE t # p.t
    BY <1>5, <2>2, LedgerStays
  <2> QED
    BY <2>1, <2>2
<1>9. ~Dead(p.m, p.t, p.nonce)
  BY ReceiveKeeps
<1> QED
  BY <1>5, <1>7, <1>8, <1>9 DEF OffTheWire

(* An order is filled: its input goes to the pool, whose output crosses.   *)
LEMMA FillOntoTheWire ==
  ASSUME WireTypeOK, SolanaRelayTypeOK, NEW p \in queue, NEW out \in PoolOutputs,
         FillOrder(p, out), requests' = requests
  PROVE  \E r : OntoTheWire(r)
<1>1. PICK input, tOut : input = InputOf(p) /\ tOut = OtherToken(p.t)
  OBVIOUS
<1>2. /\ p \in OrderPacket /\ p.id # 0 /\ homeToken \in [Tokens -> Token]
      /\ out \in Nat
  BY SolanaRelayAssumption DEF SolanaRelayTypeOK, SolanaEndpointTypeOK
<1>3. p.m \in Mirrors /\ p.t \in Tokens /\ p.sd \in Nat /\ p.id \in Ids
  BY <1>2 DEF OrderPacket
<1>4. tOut \in Tokens /\ tOut # p.t
  BY <1>1, <1>3 DEF OtherToken, Tokens
<1>5. input \in Nat
  BY <1>1, <1>3, HomeAssumption, AmountTypes DEF InputOf
<1>6. UNCHANGED <<mirrorToken, requests, orders>>
  BY DEF FillOrder, RestUnchanged
<1>7. Contract \in Accounts \ {Vault} /\ World \in Accounts \ {Vault}
  BY NamedAccounts DEF Contract, World, Vault
<1>8. PICK one : one = [homeToken EXCEPT ![p.t] = Transfer(homeToken[p.t], Contract, World, input)]
  OBVIOUS
<1>9. PICK two : two = [one EXCEPT ![tOut] = Transfer(one[tOut], World, Contract, out)]
  OBVIOUS
<1>10. one[tOut] = homeToken[tOut]
  BY <1>2, <1>4, <1>8
<1>11. SwapV2(p, out) = two
  BY <1>1, <1>2, <1>3, <1>4, <1>8, <1>9, <1>10 DEF SwapV2
<1>12. /\ CanPay(homeToken[p.t], Contract, input) /\ CanPay(one[tOut], World, out)
       /\ OftSend(two, p.m, tOut, p.id, out, "FILLED")
  BY <1>1, <1>10, <1>11 DEF FillOrder
<1>13. LedgerTable(one)
  BY <1>2, <1>3, <1>5, <1>7, <1>8, <1>12, LedgersAtFirst, LedgersPay
<1>14. LedgerTable(two)
  BY <1>2, <1>4, <1>7, <1>9, <1>12, <1>13, LedgersPay
<1> QED
  BY <1>2, <1>3, <1>4, <1>6, <1>12, <1>14, LegOntoTheWire

(* It is refunded: its input crosses.                                      *)
LEMMA RefundOntoTheWire ==
  ASSUME WireTypeOK, SolanaRelayTypeOK, NEW p \in queue, NEW out, RefundOrder(p, out),
         requests' = requests
  PROVE  \E r : OntoTheWire(r)
<1>1. p \in OrderPacket /\ p.id # 0 /\ homeToken \in [Tokens -> Token]
  BY DEF SolanaRelayTypeOK, SolanaEndpointTypeOK
<1>2. p.m \in Mirrors /\ p.t \in Tokens /\ p.sd \in Nat /\ p.id \in Ids
  BY <1>1 DEF OrderPacket
<1>3. InputOf(p) \in Nat
  BY <1>2, HomeAssumption, AmountTypes DEF InputOf
<1>4. /\ OftSend(homeToken, p.m, p.t, p.id, InputOf(p), "REFUNDED")
      /\ UNCHANGED <<mirrorToken, requests, orders>>
  BY DEF RefundOrder, RestUnchanged
<1>5. LedgerTable(homeToken)
  BY <1>1, LedgersAtFirst
<1> QED
  BY <1>1, <1>2, <1>3, <1>4, <1>5, LegOntoTheWire

(* What was stranded crosses.                                              *)
LEMMA RetryOntoTheWire ==
  ASSUME WireTypeOK, SolanaRelayTypeOK, NEW s \in strandeds, RetryReturn(s),
         requests' = requests
  PROVE  \E r : OntoTheWire(r)
<1>1. /\ s.m \in Mirrors /\ s.mint \in Tokens /\ s.id \in Ids /\ s.amount \in Nat
      /\ homeToken \in [Tokens -> Token]
  BY DEF SolanaRelayTypeOK, SolanaEndpointTypeOK, Stranded
<1>2. /\ OftSend(homeToken, s.m, s.mint, s.id, s.amount, "REFUNDED")
      /\ UNCHANGED <<mirrorToken, requests, orders>>
  BY DEF RetryReturn, RestUnchanged
<1>3. LedgerTable(homeToken)
  BY <1>1, LedgersAtFirst
<1> QED
  BY <1>1, <1>2, <1>3, LegOntoTheWire

(* Every step of the home chain is one of the three.                       *)
LEMMA SolanaCrossings ==
  ASSUME WireTypeOK, SolanaRelayTypeOK, PathTypes, AccountsAhead,
         SolanaHomeNext, requests' = requests
  PROVE  (\E p : OffTheWire(p)) \/ (\E p : OntoTheWire(p)) \/ NothingCrosses
<1>1. homeToken \in [Tokens -> Token]
  BY DEF SolanaRelayTypeOK, SolanaEndpointTypeOK
<1>2. CASE Delivering
  <2>1. UNCHANGED <<mirrorToken, returns, backNonce>>
    BY <1>2 DEF Delivering, RelayUntouched
  <2>2. ASSUME NEW m \in Mirrors, NEW t \in Tokens, NEW n \in 1..MaxNonce,
               InitVerify(m, t, n), UNCHANGED orders
        PROVE  NothingCrosses
    BY <2>1, <2>2 DEF InitVerify, NothingCrosses
  <2>3. ASSUME NEW p \in orders, Verify(p), UNCHANGED orders
        PROVE  NothingCrosses
    BY <2>1, <2>3 DEF Verify, NothingCrosses
  <2>4. ASSUME NEW p \in orders, ReceiveOrder(p)
        PROVE  OffTheWire(p)
    BY <1>1, <2>1, <2>4, ArrivalOffTheWire
  <2> QED
    BY <1>2, <2>2, <2>3, <2>4 DEF Delivering
<1>3. ASSUME NEW p \in queue, LzCompose(p)
      PROVE  \E r : OntoTheWire(r)
  BY <1>3, FillOntoTheWire, RefundOntoTheWire DEF LzCompose
<1>4. ASSUME NEW p \in queue, StrandCompose(p)
      PROVE  NothingCrosses
  BY <1>4 DEF StrandCompose, RestUnchanged, NothingCrosses
<1>5. ASSUME NEW s \in strandeds, RetryReturn(s)
      PROVE  \E r : OntoTheWire(r)
  BY <1>5, RetryOntoTheWire
<1>6. ASSUME NEW p \in orders, NEW hash \in BOOLEAN, CancelStuckInbound(p, hash)
      PROVE  NothingCrosses
  BY <1>6 DEF CancelStuckInbound, RestUnchanged, NothingCrosses
<1> QED
  BY <1>2, <1>3, <1>4, <1>5, <1>6 DEF SolanaHomeNext

(* What a home step sends, queues and holds is of its type.                *)
LEMMA SolanaStepTypes ==
  ASSUME WireTypeOK, SolanaRelayTypeOK, PathTypes, AccountsAhead,
         SolanaHomeNext, requests' = requests
  PROVE  Carries /\ WireTypeOK' /\ SolanaRelayTypeOK'
<1>0. /\ queue \subseteq {p \in OrderPacket : p.id # 0} /\ strandeds \subseteq Stranded
      /\ orders \subseteq OrderPacket
  BY DEF SolanaRelayTypeOK, SolanaEndpointTypeOK, WireTypeOK
<1>1. Carries
  BY DeliveringCarries, RelayCarries, CancelCarries DEF SolanaHomeNext
<1>2. /\ homeToken' \in [Tokens -> Token]
      /\ mirrorToken' = mirrorToken
      /\ backNonce' \in [Mirrors -> [Tokens -> Nat]] /\ returns' \subseteq ReturnPacket
  <2>1. ASSUME NEW p, OntoTheWire(p)
        PROVE  backNonce' \in [Mirrors -> [Tokens -> Nat]] /\ returns' \subseteq ReturnPacket
    BY <2>1 DEF OntoTheWire, WireTypeOK, ReturnPacket
  <2>2. \/ \E p : OntoTheWire(p)
        \/ backNonce' = backNonce /\ returns' = returns
    BY SolanaCrossings DEF OffTheWire, NothingCrosses
  <2>3. homeToken' \in [Tokens -> Token] /\ mirrorToken' = mirrorToken
    BY SolanaCrossings DEF OffTheWire, OntoTheWire, NothingCrosses, SolanaRelayTypeOK,
                           SolanaEndpointTypeOK
  <2> QED
    BY <2>1, <2>2, <2>3 DEF WireTypeOK
<1>3. noticeNonce' \in [Mirrors -> Nat] /\ notices' \subseteq Notice
  <2>1. ASSUME NEW p \in queue, StrandCompose(p)
        PROVE  noticeNonce' \in [Mirrors -> Nat] /\ notices' \subseteq Notice
    <3>1. p.m \in Mirrors /\ p.id \in Ids \cup {0} /\ "base" \in Tokens /\ 0 \in Nat
      BY <1>0 DEF OrderPacket, Tokens
    <3>2. SendNotice(p.m, "STRANDED", p.id, "base", 0)
      BY <2>1 DEF StrandCompose, SendNoticeTo
    <3> QED
      BY <3>1, <3>2, SendNoticeType
  <2>2. ASSUME NEW p \in orders, NEW hash \in BOOLEAN, CancelStuckInbound(p, hash)
        PROVE  noticeNonce' \in [Mirrors -> Nat] /\ notices' \subseteq Notice
    <3>1. p.m \in Mirrors /\ 0 \in Ids \cup {0} /\ p.t \in Tokens /\ p.nonce \in Nat
      BY <1>0 DEF OrderPacket
    <3>2. SendNotice(p.m, "CANCELLED", 0, p.t, p.nonce)
      BY <2>2 DEF CancelStuckInbound, SendNoticeTo
    <3> QED
      BY <3>1, <3>2, SendNoticeType
  <2>3. \/ \E p \in queue : StrandCompose(p)
        \/ \E p \in orders, hash \in BOOLEAN : CancelStuckInbound(p, hash)
        \/ noticeNonce' = noticeNonce /\ notices' = notices
    BY DEF SolanaHomeNext, Delivering, RelayUntouched, LzCompose, FillOrder, RefundOrder, RetryReturn
  <2> QED
    BY <2>1, <2>2, <2>3 DEF WireTypeOK
<1>4. orders' \subseteq OrderPacket
  BY <1>0, <1>1 DEF Carries
<1>5. outNonce' = outNonce /\ composing' = composing
  BY DEF SolanaHomeNext, Delivering, RelayUntouched, LzCompose, FillOrder, RefundOrder, RetryReturn,
         StrandCompose, CancelStuckInbound, RestUnchanged
<1>6. WireTypeOK'
  BY <1>2, <1>3, <1>4, <1>5 DEF WireTypeOK
<1>7. queue' \subseteq {p \in OrderPacket : p.id # 0}
  <2>1. CASE Delivering
    <3>1. queue' = queue \/ \E p \in orders : p.id # 0 /\ queue' = queue \cup {p}
      BY <2>1 DEF Delivering, InitVerify, Verify, ReceiveOrder
    <3> QED
      BY <1>0, <3>1
  <2>2. CASE ~Delivering
    BY <1>0, <2>2 DEF SolanaHomeNext, LzCompose, FillOrder, RefundOrder, RetryReturn, StrandCompose,
                      CancelStuckInbound, ClearCompose
  <2> QED
    BY <2>1, <2>2
<1>8. strandeds' \subseteq Stranded
  <2>1. ASSUME NEW p \in queue, StrandCompose(p)
        PROVE  strandeds' \subseteq Stranded
    <3>1. PICK s : s = StrandedAccount(p)
      OBVIOUS
    <3>2. /\ p.m \in Mirrors /\ p.id \in Ids /\ p.t \in Tokens /\ p.sd \in Nat /\ p.user \in Users
      BY <1>0 DEF OrderPacket
    <3>3. InputOf(p) \in Nat
      BY <3>2, HomeAssumption, AmountTypes DEF InputOf
    <3>4. s \in Stranded
      BY <3>1, <3>2, <3>3 DEF StrandedAccount, Stranded
    <3> QED
      BY <1>0, <2>1, <3>1, <3>4 DEF StrandCompose
  <2>2. \/ \E p \in queue : StrandCompose(p)
        \/ strandeds' \subseteq strandeds
    BY DEF SolanaHomeNext, Delivering, RelayUntouched, LzCompose, FillOrder, RefundOrder, RetryReturn,
           CancelStuckInbound, Closed
  <2> QED
    BY <1>0, <2>1, <2>2
<1>9. SolanaRelayTypeOK'
  BY <1>1, <1>2, <1>7, <1>8 DEF Carries, EndpointKeeps, SolanaRelayTypeOK, SolanaEndpointTypeOK
<1> QED
  BY <1>1, <1>6, <1>9

-----------------------------------------------------------------------------
(* The ledgers agree: what the home chain says is away is.                 *)
LedgersAgree ==
  \A t \in Tokens :
    LedgerWhole(homeToken[t], t) /\ LedgerAway(homeToken[t], t) = Away(t)

StockInv ==
  /\ MirrorInv
  /\ SolanaRelayTypeOK
  /\ PathInv
  /\ WireInv
  /\ LedgersAgree

(* As much more is away for the home chain as for the mirrors and the wire. *)
LEMMA LedgersMoveAlike ==
  ASSUME LedgersAgree,
         \A t \in Tokens : \E x :
           LedgerMoves(homeToken[t], homeToken'[t], t, x) /\ Away(t)' = Away(t) + x
  PROVE  LedgersAgree'
<1> SUFFICES ASSUME NEW t \in Tokens
             PROVE  LedgerWhole(homeToken'[t], t) /\ LedgerAway(homeToken'[t], t) = Away(t)'
  BY DEF LedgersAgree
<1>1. PICK x : LedgerMoves(homeToken[t], homeToken'[t], t, x) /\ Away(t)' = Away(t) + x
  OBVIOUS
<1>2. LedgerWhole(homeToken[t], t) /\ LedgerAway(homeToken[t], t) = Away(t)
  BY DEF LedgersAgree
<1> QED
  BY <1>1, <1>2 DEF LedgerMoves

(* As much as before.                                                      *)
LEMMA LedgersRest ==
  ASSUME LedgersAgree, homeToken' = homeToken, \A t \in Tokens : Away(t)' = Away(t)
  PROVE  LedgersAgree'
BY DEF LedgersAgree

(* An order that arrives was on the wire, for what was restored is dead.   *)
LEMMA ReceivedWasFlying ==
  ASSUME WireTypeOK, WireInv, KilledBeforeNotice, NEW p \in orders, ~Dead(p.m, p.t, p.nonce)
  PROVE  p \in Flying
<1>1. p.m \in Mirrors /\ p.id \in Ids \cup {0}
  BY DEF WireTypeOK, OrderPacket
<1>2. SUFFICES ASSUME Restored(p)
               PROVE  FALSE
  BY DEF Flying
<1>3. p.id \in Ids /\ p.id # 0 /\ requests[p.m][p.id].status = "CANCELLED"
  BY <1>1, <1>2 DEF Restored
<1>4. PICK o \in Holds(orders, p.m, p.id) : Dead(p.m, o.t, o.nonce)
  BY <1>1, <1>3 DEF KilledBeforeNotice
<1>5. o = p
  BY <1>3, <1>4 DEF Holds, WireInv, OnePacketEach
<1> QED
  BY <1>4, <1>5

(* A step of the home chain.                                               *)
LEMMA HomeKeepsStock ==
  ASSUME StockInv, SolanaHomeNext, UNCHANGED requestVars
  PROVE  StockInv'
<1>0. /\ WireTypeOK /\ WireInv /\ SolanaRelayTypeOK /\ LedgersAgree
      /\ PathInv /\ PathTypes /\ AccountsAhead /\ KilledBeforeNotice
  BY DEF StockInv, PathInv, MirrorInv, MirrorTypeOK
<1>1. requests' = requests
  BY DEF requestVars
<1>2. Carries /\ WireTypeOK' /\ SolanaRelayTypeOK'
  BY <1>0, <1>1, SolanaStepTypes
<1>3. PathInv'
  BY <1>0, <1>2, CarriesKeeps
<1>4. MirrorInv'
  <2>1. MirrorInv /\ UNCHANGED requestVars
    BY DEF StockInv
  <2> QED
    BY <1>2, <2>1 DEF MirrorInv, MirrorTypeOK, RequestTypeOK, requestVars,
                      TakenInOrder, EscrowsRecorded, Recorded
<1>5. WireInv' /\ LedgersAgree'
  <2>1. ASSUME NEW p, OffTheWire(p)
        PROVE  WireInv' /\ LedgersAgree'
    <3>1. p \in Flying
      BY <1>0, <2>1, ReceivedWasFlying DEF OffTheWire
    <3>2. /\ WireInv'
          /\ \A t \in Tokens : Away(t)' = Away(t) + (IF t = p.t THEN -p.sd ELSE 0)
      BY <1>0, <2>1, <3>1, TakingOffAway DEF OffTheWire
    <3>3. \A t \in Tokens :
            LedgerMoves(homeToken[t], homeToken'[t], t, IF t = p.t THEN -p.sd ELSE 0)
      BY <2>1 DEF OffTheWire
    <3> QED
      BY <1>0, <3>2, <3>3, LedgersMoveAlike
  <2>2. ASSUME NEW p, OntoTheWire(p)
        PROVE  WireInv' /\ LedgersAgree'
    <3>1. /\ WireInv'
          /\ \A t \in Tokens : Away(t)' = Away(t) + (IF t = p.t THEN p.sd ELSE 0)
      BY <1>0, <2>2, PuttingOnAway DEF OntoTheWire
    <3>2. \A t \in Tokens :
            LedgerMoves(homeToken[t], homeToken'[t], t, IF t = p.t THEN p.sd ELSE 0)
      BY <2>2 DEF OntoTheWire
    <3> QED
      BY <1>0, <3>1, <3>2, LedgersMoveAlike
  <2>3. CASE NothingCrosses
    <3>1. UNCHANGED <<homeToken, mirrorToken, requests, orders, returns, backNonce>>
      BY <2>3 DEF NothingCrosses
    <3>2. NoFlows /\ EntriesKept /\ SameCancelled
      BY <1>0, <3>1, SameAssets, SameRequests DEF EntriesKept
    <3>3. WireInv' /\ \A t \in Tokens : Away(t)' = Away(t)
      BY <1>0, <3>1, <3>2, RestingKeepsAway
    <3> QED
      BY <1>0, <3>1, <3>3, LedgersRest
  <2> QED
    BY <1>0, <1>1, <2>1, <2>2, <2>3, SolanaCrossings
<1> QED
  BY <1>2, <1>3, <1>4, <1>5 DEF StockInv

(* A step of a mirror.                                                     *)
LEMMA MirrorKeepsStock ==
  ASSUME StockInv, MirrorNext, UNCHANGED relayVars
  PROVE  StockInv'
<1>0. /\ MirrorInv /\ WireTypeOK /\ WireInv /\ SolanaRelayTypeOK /\ LedgersAgree
      /\ PathInv /\ PathTypes /\ NoncesTaken /\ NonceNamesOrder /\ KilledBeforeNotice
  BY DEF StockInv, PathInv, MirrorInv, MirrorTypeOK
<1>1. UNCHANGED nonceVars /\ homeToken' = homeToken
  BY DEF relayVars, endpointVars
<1>2. PathInv'
  BY <1>0, <1>1, MirrorKinds, SendsKeeps, SettlesKeeps
<1>3. MirrorInv' /\ EntriesKept
  BY <1>0, MirrorInvKept, MirrorKeepsEntries
<1>4. SolanaRelayTypeOK'
  BY <1>0 DEF SolanaRelayTypeOK, SolanaEndpointTypeOK, relayVars, endpointVars, nonceVars
<1>5. ASSUME NEW p, Departs(p)
      PROVE  WireInv' /\ \A t \in Tokens : Away(t)' = Away(t)
  BY <1>0, <1>3, <1>5, DepartureKeepsAway DEF NoncesTaken
<1>6. ASSUME NEW p \in returns, Arrives(p)
      PROVE  WireInv' /\ \A t \in Tokens : Away(t)' = Away(t)
  BY <1>0, <1>3, <1>6, ArrivalKeepsAway
<1>7. ASSUME NEW n \in notices, NEW i \in Ids, NEW accepted \in TokenAccepts,
             NoticeCancelled(n, i, accepted), RestoresInput(n.m, i)
      PROVE  WireInv' /\ \A t \in Tokens : Away(t)' = Away(t)
  <2>1. n.status = "CANCELLED" /\ i \in RequestsByNonce(n.m, n.t, n.lzNonce)
    BY <1>7 DEF NoticeCancelled, Concerned
  <2>2. PICK p \in orders : p.m = n.m /\ p.t = n.t /\ p.nonce = n.lzNonce
    BY <1>0, <2>1 DEF KilledBeforeNotice
  <2>3. p.id = i
    BY <1>0, <2>1, <2>2 DEF NonceNamesOrder
  <2>4. n.m \in Mirrors /\ p.t = TokenIn(requests[n.m][i].dir)
    BY <1>0, <2>1, <2>2 DEF RequestsByNonce, WireTypeOK, Notice
  <2> QED
    BY <1>0, <1>3, <1>7, <2>2, <2>3, <2>4, RestorationKeepsAway
<1>8. ASSUME Rests
      PROVE  WireInv' /\ \A t \in Tokens : Away(t)' = Away(t)
  <2>1. NoFlows /\ SameCancelled /\ UNCHANGED <<orders, returns, backNonce>>
    BY <1>8 DEF Rests
  <2> QED
    BY <1>0, <1>3, <2>1, RestingKeepsAway
<1>9. WireInv' /\ \A t \in Tokens : Away(t)' = Away(t)
  <2>1. CASE \E p : Departs(p)
    BY <1>5, <2>1
  <2>2. CASE \E p \in returns : Arrives(p)
    BY <1>6, <2>2
  <2>3. CASE \E n \in notices, i \in Ids, accepted \in TokenAccepts :
               NoticeCancelled(n, i, accepted) /\ RestoresInput(n.m, i)
    BY <1>7, <2>3
  <2>4. CASE Rests
    BY <1>8, <2>4
  <2> QED
    BY <1>0, <2>1, <2>2, <2>3, <2>4, MirrorFlowKinds
<1>10. LedgersAgree'
  BY <1>0, <1>1, <1>9, LedgersRest
<1> QED
  BY <1>2, <1>3, <1>4, <1>9, <1>10 DEF StockInv

(* Every step keeps it.                                                    *)
LEMMA StepKeepsStock ==
  ASSUME StockInv, [Next]_vars
  PROVE  StockInv'
<1>1. CASE UNCHANGED vars
  <2>1. UNCHANGED <<homeToken, mirrorToken, requests, orders, returns, backNonce>>
    BY <1>1 DEF vars, mirrorVars, wireVars, requestVars, relayVars, endpointVars
  <2>2. WireTypeOK /\ WireInv /\ PathInv /\ PathTypes /\ AccountsAhead /\ LedgersAgree
    BY DEF StockInv, PathInv, MirrorInv, MirrorTypeOK
  <2>3. NoFlows /\ EntriesKept /\ SameCancelled
    BY <2>1, <2>2, SameAssets, SameRequests DEF EntriesKept
  <2>4. WireInv' /\ \A t \in Tokens : Away(t)' = Away(t)
    BY <2>1, <2>2, <2>3, RestingKeepsAway
  <2>5. LedgersAgree'
    BY <2>1, <2>2, <2>4, LedgersRest
  <2>6. MirrorInv' /\ SolanaRelayTypeOK'
    BY <1>1 DEF StockInv, vars, mirrorVars, wireVars, requestVars, relayVars, endpointVars,
                nonceVars, MirrorInv, MirrorTypeOK, WireTypeOK, RequestTypeOK, TakenInOrder,
                EscrowsRecorded, Recorded, SolanaRelayTypeOK, SolanaEndpointTypeOK
  <2>7. PathInv'
    <3>1. Carries
      <4>1. UNCHANGED <<outNonce, orders, requests, notices, nonceVars>>
        BY <1>1 DEF vars, mirrorVars, wireVars, requestVars, relayVars, endpointVars
      <4> QED
        BY <2>2, <4>1, QuietCarries
    <3> QED
      BY <2>2, <3>1, CarriesKeeps
  <2> QED
    BY <2>4, <2>5, <2>6, <2>7 DEF StockInv
<1>2. CASE Next
  BY <1>2, MirrorKeepsStock, HomeKeepsStock DEF Next
<1> QED
  BY <1>1, <1>2

(* The home chain's ledgers at the start.                                  *)
LEMMA LedgerAtStart ==
  ASSUME Init, NEW t \in Tokens
  PROVE  /\ LedgerWhole(homeToken[t], t)
         /\ LedgerAway(homeToken[t], t) = GivenShared(t)
<1>1. PICK k, q, f, n, c : /\ k = homeToken[t] /\ q = HomeQuantum[t] /\ f = MirrorFloat[t]
                           /\ n = Cardinality(Users) /\ c = Cardinality(Mirrors)
  OBVIOUS
<1>2. q \in Nat \ {0} /\ f \in Nat /\ n \in Nat /\ c \in Nat /\ HomeFloat[t] \in Nat
  BY <1>1, WireAssumption, HomeAssumption, FS_CardinalityType
<1>3. PICK x : x = c * (n * f)
  OBVIOUS
<1>4. x \in Nat /\ c * n \in Nat /\ x = (c * n) * f
  BY <1>2, <1>3, ProductsRegroup
<1>5. AbroadAtStart(t) = ToLocal(x, q) /\ AbroadAtStart(t) \in Nat
  BY <1>1, <1>4, ExistedIsNat DEF AbroadAtStart, ToLocal
<1>6. Vault \in Accounts /\ World \in Accounts /\ Vault # World
  BY NamedAccounts DEF Vault, World
<1>7. PICK b : b = [a \in Accounts |->
                     CASE a = World -> HomeFloat[t]
                       [] a = Vault /\ t \in Adapted -> AbroadAtStart(t)
                       [] OTHER -> 0]
  OBVIOUS
<1>8. b \in [Accounts -> Nat]
  BY <1>2, <1>5, <1>7
<1>9. k.bal = b /\ k.out = AbroadAtStart(t) /\ k.in = 0 /\ k \in Token
  <2>1. k = [HomeTokenAtStart[t] EXCEPT !.out = AbroadAtStart(t)]
    BY <1>1 DEF Init, SolanaRelayInit, SolanaEndpointInit
  <2>2. PICK o : o = IF t \in Adapted THEN 0 ELSE AbroadAtStart(t)
    OBVIOUS
  <2>3. HomeTokenAtStart[t] = [bal |-> b, out |-> o, in |-> 0]
    BY <1>7, <2>2 DEF HomeTokenAtStart
  <2>4. k = [bal |-> b, out |-> AbroadAtStart(t), in |-> 0]
    BY <2>1, <2>3
  <2> QED
    BY <1>5, <1>8, <2>4 DEF Token
<1>10. ToShared(k.out, q) = x /\ ToShared(k.in, q) = 0 /\ ToLocal(0, q) = 0
  <2>1. ToLocal(0, q) = 0
    BY <1>2 DEF ToLocal
  <2>2. ToShared(ToLocal(x, q), q) = x /\ ToShared(ToLocal(0, q), q) = 0
    BY <1>2, <1>4, UnitsExact
  <2> QED
    BY <1>5, <1>9, <2>1, <2>2
<1>11. Whole(k.out, q) /\ Whole(k.in, q)
  BY <1>5, <1>9, <1>10 DEF Whole
<1>12. LedgerAway(k, t) = x
  BY <1>1, <1>4, <1>10 DEF LedgerAway
<1>13. t \in Adapted => k.bal[Vault] = AbroadAtStart(t)
  BY <1>6, <1>7, <1>9
<1>14. t \notin Adapted => Total(k) = HomeFloat[t]
  <2> SUFFICES ASSUME t \notin Adapted
               PROVE  Total(k) = HomeFloat[t]
    OBVIOUS
  <2>1. \A a \in Accounts : b[a] = IF a \in {World} THEN HomeFloat[t] ELSE 0
    BY <1>7
  <2>2. SumFunctionOnSet(b, Accounts) = Cardinality({World}) * HomeFloat[t]
    BY <1>2, <1>6, <2>1, AccountsFinite, SumOfEqual
  <2>3. Cardinality({World}) = 1
    BY FS_Singleton
  <2> QED
    BY <1>2, <1>8, <1>9, <2>2, <2>3 DEF Total, SumFunction
<1>15. LedgerWhole(k, t)
  <2>1. CASE t \in Adapted
    BY <1>1, <1>5, <1>9, <1>11, <1>13, <2>1 DEF LedgerWhole
  <2>2. CASE t \notin Adapted
    <3>1. Total(k) + k.out = k.in + (HomeFloat[t] + AbroadAtStart(t))
      BY <1>2, <1>5, <1>9, <1>14, <2>2
    <3> QED
      BY <1>1, <1>9, <1>11, <2>2, <3>1 DEF LedgerWhole
  <2> QED
    BY <2>1, <2>2
<1> QED
  BY <1>1, <1>3, <1>12, <1>15 DEF GivenShared

(* The invariant at the start.                                             *)
LEMMA StockAtStart ==
  ASSUME Init
  PROVE  StockInv
<1>1. MirrorInit /\ SolanaRelayInit
  BY DEF Init
<1>2. MirrorInv /\ WireInv /\ \A t \in Tokens : Away(t) = GivenShared(t)
  BY <1>1, ReserveAtStart, WireAtStart
<1>3. PathInv
  BY PathInvInit
<1>4. LedgersAgree
  BY <1>2, LedgerAtStart DEF LedgersAgree
<1>5. homeToken \in [Tokens -> Token]
  <2>1. DOMAIN homeToken = Tokens /\ homeToken = [t \in Tokens |-> homeToken[t]]
    BY <1>1 DEF SolanaRelayInit, SolanaEndpointInit
  <2> QED
    BY <1>4, <2>1 DEF LedgersAgree, LedgerWhole
<1>6. SolanaRelayTypeOK
  BY <1>1, <1>5 DEF SolanaRelayInit, SolanaEndpointInit, SolanaRelayTypeOK, SolanaEndpointTypeOK
<1> QED
  BY <1>2, <1>3, <1>4, <1>6 DEF StockInv

-----------------------------------------------------------------------------
(* The calls of a measurement, in their order.                             *)

(* The EVM chains before the nth.                                          *)
Passed(n) == {EvmOrder[j] : j \in 1..(n - 1)}

(* Each EVM chain comes once, and after the last one all are passed.       *)
LEMMA ChainsPassed ==
  /\ Len(EvmOrder) \in Nat
  /\ \A n \in 1..Len(EvmOrder) : EvmOrder[n] \in Mirrors
  /\ Passed(1) = {} /\ Passed(Len(EvmOrder) + 1) = Mirrors
  /\ \A n \in 1..Len(EvmOrder) :
       /\ Passed(n) \subseteq Mirrors /\ EvmOrder[n] \notin Passed(n)
       /\ Passed(n + 1) = Passed(n) \cup {EvmOrder[n]}
<1>1. PICK e, n : e = EvmOrder /\ n = Len(EvmOrder)
  OBVIOUS
<1>2. n \in Nat /\ e \in [1..n -> Mirrors] /\ DOMAIN e = 1..n
  BY <1>1, LiveSupplyAssumption
<1>3. Mirrors = {e[j] : j \in 1..n}
  BY <1>1, <1>2, LiveSupplyAssumption DEF ToSet
<1>4. \A i, j \in 1..n : e[i] = e[j] => i = j
  BY <1>1, <1>2, LiveSupplyAssumption DEF IsInjective
<1>5. Passed(1) = {}
  BY DEF Passed
<1>6. Passed(n + 1) = Mirrors
  <2>1. 1..((n + 1) - 1) = 1..n
    BY <1>2
  <2> QED
    BY <1>1, <1>3, <2>1 DEF Passed
<1>7. ASSUME NEW i \in 1..n
      PROVE  /\ Passed(i) \subseteq Mirrors /\ e[i] \notin Passed(i)
             /\ Passed(i + 1) = Passed(i) \cup {e[i]}
  <2>1. /\ Passed(i) = {e[j] : j \in 1..(i - 1)}
        /\ Passed(i + 1) = {e[j] : j \in 1..((i + 1) - 1)}
    BY <1>1 DEF Passed
  <2>2. (\A j \in 1..(i - 1) : j \in 1..n /\ j # i) /\ 1..((i + 1) - 1) = 1..(i - 1) \cup {i}
    BY <1>2
  <2> QED
    BY <1>2, <1>4, <2>1, <2>2
<1> QED
  BY <1>1, <1>2, <1>5, <1>6, <1>7

EvmAsks == {"supply", "out", "in"}
SolanaAsks == {"supply", "locked", "flow", "sum"}

IsCall(c) ==
  /\ c \in [token : Tokens, nth : 1..(Len(EvmOrder) + 1), what : EvmAsks \cup SolanaAsks]
  /\ c.what \in IF c.nth <= Len(EvmOrder) THEN EvmAsks ELSE SolanaAsks
  /\ c.what = "locked" => c.token \in Adapted

(* The chain a call is made to.                                            *)
LEMMA ChainOfCall ==
  ASSUME NEW c, IsCall(c)
  PROVE  /\ c.token \in Tokens /\ c.nth \in 1..(Len(EvmOrder) + 1) /\ Len(EvmOrder) \in Nat
         /\ \/ /\ c.nth \in 1..Len(EvmOrder) /\ c.what \in EvmAsks
               /\ ChainOf(c) = EvmOrder[c.nth] /\ ChainOf(c) \in Mirrors /\ ChainOf(c) # Home
            \/ /\ c.nth = Len(EvmOrder) + 1 /\ c.what \in SolanaAsks /\ ChainOf(c) = Home
<1>1. /\ Len(EvmOrder) \in Nat /\ Home \notin Mirrors
      /\ \A n \in 1..Len(EvmOrder) : EvmOrder[n] \in Mirrors
  BY ChainsPassed, LiveSupplyAssumption
<1>2. /\ c.token \in Tokens /\ c.nth \in 1..(Len(EvmOrder) + 1)
      /\ c.what \in IF c.nth <= Len(EvmOrder) THEN EvmAsks ELSE SolanaAsks
  BY DEF IsCall
<1>3. CASE c.nth <= Len(EvmOrder)
  BY <1>1, <1>2, <1>3 DEF ChainOf
<1>4. CASE ~(c.nth <= Len(EvmOrder))
  BY <1>1, <1>2, <1>4 DEF ChainOf
<1> QED
  BY <1>3, <1>4

(* The first call of an asset's.                                           *)
LEMMA FirstIsCall ==
  ASSUME NEW t \in Tokens
  PROVE  /\ IsCall(FirstCall(t)) /\ FirstCall(t).token = t
         /\ FirstCall(t).nth = 1 /\ FirstCall(t).what = "supply"
<1>1. Len(EvmOrder) \in Nat
  BY ChainsPassed
<1> QED
  BY <1>1 DEF FirstCall, IsCall, EvmAsks, SolanaAsks

(* What is asked after a call, and where.                                  *)
LEMMA NextIsCall ==
  ASSUME NEW c, IsCall(c), c.what # "sum"
  PROVE  /\ IsCall(CallAfter(c)) /\ CallAfter(c).token = c.token
         /\ \/ /\ c.what = "supply" /\ ChainOf(c) # Home /\ CallAfter(c).what = "out"
               /\ CallAfter(c).nth = c.nth /\ ChainOf(CallAfter(c)) = ChainOf(c)
            \/ /\ c.what = "out" /\ ChainOf(c) # Home /\ CallAfter(c).what = "in"
               /\ CallAfter(c).nth = c.nth /\ ChainOf(CallAfter(c)) = ChainOf(c)
            \/ /\ c.what = "in" /\ ChainOf(c) # Home /\ CallAfter(c).what = "supply"
               /\ CallAfter(c).nth = c.nth + 1
            \/ /\ c.what = "supply" /\ ChainOf(c) = Home
               /\ CallAfter(c).what = IF c.token \in Adapted THEN "locked" ELSE "flow"
               /\ CallAfter(c).nth = c.nth /\ ChainOf(CallAfter(c)) = ChainOf(c)
            \/ /\ c.what = "locked" /\ ChainOf(c) = Home /\ CallAfter(c).what = "flow"
               /\ CallAfter(c).nth = c.nth /\ ChainOf(CallAfter(c)) = ChainOf(c)
               /\ c.token \in Adapted
            \/ /\ c.what = "flow" /\ ChainOf(c) = Home /\ CallAfter(c).what = "sum"
               /\ CallAfter(c).nth = c.nth /\ ChainOf(CallAfter(c)) = ChainOf(c)
<1>1. PICK d, n : d = CallAfter(c) /\ n = Len(EvmOrder)
  OBVIOUS
<1>2. /\ c \in [token : Tokens, nth : 1..(n + 1), what : EvmAsks \cup SolanaAsks] /\ n \in Nat
      /\ c.what = "locked" => c.token \in Adapted
      /\ \/ c.nth \in 1..n /\ c.what \in EvmAsks /\ ChainOf(c) # Home
         \/ c.nth = n + 1 /\ c.what \in SolanaAsks /\ ChainOf(c) = Home
  BY <1>1, ChainOfCall DEF IsCall
<1>3. ASSUME NEW w \in EvmAsks \cup SolanaAsks, d = [c EXCEPT !.what = w],
             w \in (IF c.nth <= n THEN EvmAsks ELSE SolanaAsks), w = "locked" => c.token \in Adapted
      PROVE  /\ IsCall(d) /\ d.token = c.token /\ d.what = w /\ d.nth = c.nth
             /\ ChainOf(d) = ChainOf(c)
  <2>1. /\ d \in [token : Tokens, nth : 1..(n + 1), what : EvmAsks \cup SolanaAsks]
        /\ d.token = c.token /\ d.nth = c.nth /\ d.what = w
    BY <1>2, <1>3
  <2> QED
    BY <1>1, <1>3, <2>1 DEF IsCall, ChainOf
<1>4. CASE ChainOf(c) # Home
  <2>1. c.nth \in 1..n /\ c.nth <= n /\ c.what \in EvmAsks /\ d = AfterEvm(c)
    BY <1>1, <1>2, <1>4 DEF CallAfter
  <2>2. CASE c.what = "supply"
    <3>1. d = [c EXCEPT !.what = "out"]
      BY <2>1, <2>2 DEF AfterEvm
    <3> QED
      BY <1>1, <1>3, <1>4, <2>1, <2>2, <3>1 DEF EvmAsks
  <2>3. CASE c.what = "out"
    <3>1. d = [c EXCEPT !.what = "in"]
      BY <2>1, <2>3 DEF AfterEvm
    <3> QED
      BY <1>1, <1>3, <1>4, <2>1, <2>3, <3>1 DEF EvmAsks
  <2>4. CASE c.what = "in"
    <3>1. d = [token |-> c.token, nth |-> c.nth + 1, what |-> "supply"]
      BY <2>1, <2>4 DEF AfterEvm, FirstCall
    <3>2. c.nth + 1 \in 1..(n + 1) /\ c.token \in Tokens
      BY <1>2, <2>1
    <3>3. IsCall(d)
      BY <1>1, <3>1, <3>2 DEF IsCall, EvmAsks, SolanaAsks
    <3> QED
      BY <1>1, <1>4, <2>4, <3>1, <3>3
  <2> QED
    BY <2>1, <2>2, <2>3, <2>4 DEF EvmAsks
<1>5. CASE ChainOf(c) = Home
  <2>1. c.nth = n + 1 /\ ~(c.nth <= n) /\ c.what \in SolanaAsks /\ d = AfterSolana(c)
    BY <1>1, <1>2, <1>5 DEF CallAfter
  <2>2. CASE c.what = "supply"
    <3>1. PICK w : w = IF c.token \in Adapted THEN "locked" ELSE "flow"
      OBVIOUS
    <3>2. d = [c EXCEPT !.what = w] /\ w \in SolanaAsks /\ (w = "locked" => c.token \in Adapted)
      BY <2>1, <2>2, <3>1 DEF AfterSolana, SolanaAsks
    <3> QED
      BY <1>1, <1>3, <1>5, <2>1, <2>2, <3>1, <3>2
  <2>3. CASE c.what = "locked"
    <3>1. d = [c EXCEPT !.what = "flow"]
      BY <2>1, <2>3 DEF AfterSolana
    <3> QED
      BY <1>1, <1>2, <1>3, <1>5, <2>1, <2>3, <3>1 DEF SolanaAsks
  <2>4. CASE c.what = "flow"
    <3>1. d = [c EXCEPT !.what = "sum"]
      BY <2>1, <2>4 DEF AfterSolana
    <3> QED
      BY <1>1, <1>3, <1>5, <2>1, <2>4, <3>1 DEF SolanaAsks
  <2> QED
    BY <2>1, <2>2, <2>3, <2>4 DEF SolanaAsks
<1> QED
  BY <1>4, <1>5

-----------------------------------------------------------------------------
(* What a call adds.                                                       *)

(* Rescaling multiplies, by what a local unit is worth of the finest ones. *)
LEMMA UpIsProduct ==
  ASSUME NEW h \in Mirrors \cup {Home}, NEW t \in Tokens
  PROVE  /\ Quantum(h, t) \in Nat \ {0}
         /\ \E w \in Nat : Quantum(h, t) * w = Finest[t] /\ \A v \in Int : Up(v, h, t) = v * w
<1>1. PICK q, f : q = Quantum(h, t) /\ f = Finest[t]
  OBVIOUS
<1>2. q \in Nat \ {0}
  <2>1. CASE h = Home
    BY <1>1, <2>1, HomeAssumption DEF Quantum
  <2>2. CASE h # Home
    BY <1>1, <2>2, WireAssumption DEF Quantum
  <2> QED
    BY <2>1, <2>2
<1>3. f \in Nat /\ f % q = 0
  BY <1>1, LiveSupplyAssumption
<1>4. f = (q * (f \div q)) + (f % q) /\ f \div q \in Nat
  BY <1>2, <1>3, DivBelow
<1>5. PICK w \in Nat : w = f \div q /\ f = (q * w) + (f % q)
  BY <1>4
<1>6. q * w = f
  <2>1. q * w \in Nat
    BY <1>2, ProductNat
  <2> QED
    BY <1>3, <1>5, <2>1
<1>7. \A v \in Int : Up(v, h, t) = v * w
  BY <1>1, <1>5 DEF Up
<1> QED
  BY <1>1, <1>2, <1>6, <1>7

(* So sums are rescaled term by term,                                      *)
LEMMA UpAdds ==
  ASSUME NEW h \in Mirrors \cup {Home}, NEW t \in Tokens, NEW u \in Nat, NEW v \in Nat
  PROVE  Up(u, h, t) \in Nat /\ Up(v, h, t) \in Nat /\ Up(u + v, h, t) = Up(u, h, t) + Up(v, h, t)
<1>1. PICK w \in Nat : \A x \in Int : Up(x, h, t) = x * w
  BY UpIsProduct
<1>2. Up(u, h, t) = u * w /\ Up(v, h, t) = v * w /\ Up(u + v, h, t) = (u + v) * w
  BY <1>1
<1>3. u * w \in Nat /\ v * w \in Nat /\ (u + v) * w = u * w + v * w
  OBVIOUS
<1> QED
  BY <1>2, <1>3

(* and whole units become as many of the finest.                           *)
LEMMA UpOfWhole ==
  ASSUME NEW h \in Mirrors \cup {Home}, NEW t \in Tokens, NEW v \in Nat,
         Whole(v, Quantum(h, t))
  PROVE  /\ ToShared(v, Quantum(h, t)) \in Nat
         /\ Up(v, h, t) = ToShared(v, Quantum(h, t)) * Finest[t]
<1>1. PICK q : q = Quantum(h, t)
  OBVIOUS
<1>2. PICK w \in Nat : q * w = Finest[t] /\ \A x \in Int : Up(x, h, t) = x * w
  BY <1>1, UpIsProduct
<1>3. q \in Nat \ {0}
  BY <1>1, UpIsProduct
<1>4. PICK s : s = ToShared(v, q)
  OBVIOUS
<1>5. s \in Nat /\ v = s * q
  BY <1>1, <1>3, <1>4, AmountTypes DEF Whole, ToLocal
<1>6. (s * q) * w = s * (q * w)
  BY <1>3, <1>5
<1>7. Up(v, h, t) = v * w
  BY <1>2
<1> QED
  BY <1>1, <1>2, <1>4, <1>5, <1>6, <1>7

(* A ledger as a measurement finds it, on chain h.                         *)
LedgerFits(h, t, k) ==
  /\ k \in Token
  /\ Whole(k.out, Quantum(h, t)) /\ Whole(k.in, Quantum(h, t))
  /\ IF h = Home THEN LedgerWhole(k, t) ELSE Total(k) + k.out = k.in

(* Every ledger fits.                                                      *)
LEMMA LedgersFit ==
  ASSUME StockInv, NEW h \in Mirrors \cup {Home}, NEW t \in Tokens
  PROVE  LedgerFits(h, t, Ledger(h, t))
<1>1. CASE h = Home
  <2>1. LedgerWhole(homeToken[t], t)
    BY DEF StockInv, LedgersAgree
  <2> QED
    BY <1>1, <2>1 DEF LedgerFits, LedgerWhole, Ledger, Quantum
<1>2. CASE h # Home
  <2>1. h \in Mirrors /\ mirrorToken[h][t] \in Token
    BY <1>2 DEF StockInv, MirrorInv, MirrorTypeOK, WireTypeOK
  <2>2. MirrorWhole(mirrorToken[h][t], MirrorQuantum[h][t])
    BY <2>1 DEF StockInv, WireInv, MirrorFlow
  <2> QED
    BY <1>2, <2>1, <2>2 DEF LedgerFits, MirrorWhole, Ledger, Quantum
<1> QED
  BY <1>1, <1>2

(* What it shows, rescaled.                                                *)
LEMMA LedgerShows ==
  ASSUME NEW h \in Mirrors \cup {Home}, NEW t \in Tokens, NEW k, LedgerFits(h, t, k)
  PROVE  /\ TotalSupply(k) = Total(k)
         /\ Up(Total(k), h, t) \in Nat /\ Up(k.out, h, t) \in Nat /\ Up(k.in, h, t) \in Nat
         /\ Up(k.bal[Vault], h, t) \in Nat
         /\ h # Home => Up(Total(k), h, t) + Up(k.out, h, t) = Up(k.in, h, t)
         /\ h = Home /\ t \notin Adapted =>
              Up(Total(k), h, t) + Up(k.out, h, t) = Up(k.in, h, t) + Genesis(t)
         /\ h = Home /\ t \in Adapted =>
              Up(k.bal[Vault], h, t) + Up(k.in, h, t) = Up(k.out, h, t)
         /\ Genesis(t) \in Nat
<1>1. k \in Token
  BY DEF LedgerFits
<1>2. k.bal[Vault] \in Nat /\ Total(k) \in Nat /\ k.out \in Nat /\ k.in \in Nat
  BY <1>1, LedgerNumbers
<1>3. TotalSupply(k) = Total(k)
  BY <1>1 DEF TotalSupply, Total, SumFunction, Token
<1>4. PICK g : g = HomeFloat[t] + AbroadAtStart(t)
  OBVIOUS
<1>5. g \in Nat
  BY <1>4, ExistedIsNat
<1>6. /\ Up(Total(k), h, t) \in Nat /\ Up(k.out, h, t) \in Nat /\ Up(k.in, h, t) \in Nat
      /\ Up(k.bal[Vault], h, t) \in Nat
      /\ Up(Total(k) + k.out, h, t) = Up(Total(k), h, t) + Up(k.out, h, t)
      /\ Up(k.bal[Vault] + k.in, h, t) = Up(k.bal[Vault], h, t) + Up(k.in, h, t)
      /\ Up(k.in + g, h, t) = Up(k.in, h, t) + Up(g, h, t)
      /\ Up(g, h, t) \in Nat
  <2>1. /\ Up(Total(k), h, t) \in Nat /\ Up(k.out, h, t) \in Nat
        /\ Up(Total(k) + k.out, h, t) = Up(Total(k), h, t) + Up(k.out, h, t)
    BY <1>2, UpAdds
  <2>2. /\ Up(k.bal[Vault], h, t) \in Nat /\ Up(k.in, h, t) \in Nat
        /\ Up(k.bal[Vault] + k.in, h, t) = Up(k.bal[Vault], h, t) + Up(k.in, h, t)
    BY <1>2, UpAdds
  <2>3. Up(g, h, t) \in Nat /\ Up(k.in + g, h, t) = Up(k.in, h, t) + Up(g, h, t)
    BY <1>2, <1>5, UpAdds
  <2> QED
    BY <2>1, <2>2, <2>3
<1>7. Genesis(t) = Up(g, Home, t) /\ Genesis(t) \in Nat
  BY <1>4, <1>5, UpAdds DEF Genesis
<1>8. CASE h # Home
  <2>1. Total(k) + k.out = k.in
    BY <1>8 DEF LedgerFits
  <2> QED
    BY <1>3, <1>6, <1>7, <1>8, <2>1
<1>9. CASE h = Home
  <2>1. IF t \in Adapted THEN k.bal[Vault] + k.in = k.out ELSE Total(k) + k.out = k.in + g
    BY <1>4, <1>9 DEF LedgerFits, LedgerWhole
  <2>2. CASE t \in Adapted
    BY <1>3, <1>6, <1>7, <1>9, <2>1, <2>2
  <2>3. CASE t \notin Adapted
    BY <1>3, <1>6, <1>7, <1>9, <2>1, <2>3
  <2> QED
    BY <2>2, <2>3
<1> QED
  BY <1>8, <1>9

Figures == [total : Int, flow : Int, expected : Int, moved : {"no", "under", "elsewhere"}]

(* The sums before call c, on a ledger k that did not move meanwhile.      *)
SumsFit(f, c, k) ==
  LET up(v) == Up(v, ChainOf(c), c.token)
      all == up(Total(k))
  IN
  /\ c.what = "supply" => Issued(f) = 0
  /\ c.what = "out" => Issued(f) = all
  /\ c.what = "in" => Issued(f) = all + up(k.out)
  /\ c.what = "locked" => Issued(f) = all /\ f.expected = all
  /\ c.what = "flow" =>
       IF c.token \in Adapted THEN Issued(f) = all - up(k.bal[Vault]) /\ f.expected = all
       ELSE Issued(f) = all /\ f.expected = Genesis(c.token)
  /\ c.what = "sum" => Issued(f) = f.expected

(* Where a chain was passed, or the sums are complete, no ledger matters.  *)
LEMMA SumsStand ==
  ASSUME NEW f, NEW c, NEW k, NEW l, SumsFit(f, c, k), c.what \in {"supply", "sum"}
  PROVE  SumsFit(f, c, l)
BY DEF SumsFit

(* After the call the sums still fit.                                      *)
LEMMA CallsAddUp ==
  ASSUME NEW f \in Figures, NEW c, IsCall(c), c.what # "sum",
         NEW k, k = Ledger(ChainOf(c), c.token), LedgerFits(ChainOf(c), c.token, k)
  PROVE  /\ Adds(f, c) \in Figures /\ Adds(f, c).moved = f.moved
         /\ SumsFit(f, c, k) => SumsFit(Adds(f, c), CallAfter(c), k)
<1>1. PICK h, t, g, d : h = ChainOf(c) /\ t = c.token /\ g = Adds(f, c) /\ d = CallAfter(c)
  OBVIOUS
<1>2. t \in Tokens /\ h \in Mirrors \cup {Home} /\ c.what \in EvmAsks \cup SolanaAsks
  BY <1>1, ChainOfCall
<1>3. PICK all, out, in, vault :
        /\ all = Up(Total(k), h, t) /\ out = Up(k.out, h, t) /\ in = Up(k.in, h, t)
        /\ vault = Up(k.bal[Vault], h, t)
  OBVIOUS
<1>4. /\ TotalSupply(k) = Total(k)
      /\ all \in Nat /\ out \in Nat /\ in \in Nat /\ vault \in Nat /\ Genesis(t) \in Nat
      /\ h # Home => all + out = in
      /\ h = Home /\ t \notin Adapted => all + out = in + Genesis(t)
      /\ h = Home /\ t \in Adapted => vault + in = out
  BY <1>1, <1>2, <1>3, LedgerShows
<1>5. /\ f.total \in Int /\ f.flow \in Int /\ f.expected \in Int
      /\ f = [total |-> f.total, flow |-> f.flow, expected |-> f.expected, moved |-> f.moved]
      /\ f.moved \in {"no", "under", "elsewhere"}
  BY DEF Figures
<1>6. PICK e : e = IF t \notin Adapted THEN Genesis(t) ELSE IF h = Home THEN all ELSE f.expected
  OBVIOUS
<1>7. e \in Int
  BY <1>4, <1>5, <1>6
<1>8. /\ c.what = "supply" => g = [f EXCEPT !.total = f.total + all, !.expected = e]
      /\ c.what = "locked" => g = [f EXCEPT !.total = f.total - vault]
      /\ c.what = "out" => g = [f EXCEPT !.flow = f.flow + out]
      /\ c.what = "in" => g = [f EXCEPT !.flow = f.flow - in]
      /\ c.what = "flow" => g = [f EXCEPT !.flow = f.flow + out - in]
  <2>1. /\ h = ChainOf(c) /\ k = Ledger(h, c.token) /\ Genesis(c.token) \in Nat
        /\ all = Up(Total(k), h, c.token) /\ out = Up(k.out, h, c.token)
        /\ in = Up(k.in, h, c.token) /\ vault = Up(k.bal[Vault], h, c.token)
        /\ e = IF c.token \notin Adapted THEN Genesis(c.token)
                ELSE IF h = Home THEN all ELSE f.expected
    BY <1>1, <1>3, <1>4, <1>6
  <2>2. Adds(f, c) = g
    BY <1>1
  <2> QED
    BY <1>4, <2>1, <2>2 DEF Adds
<1>9. /\ g \in Figures /\ g.moved = f.moved
      /\ c.what = "supply" => g.total = f.total + all /\ g.flow = f.flow /\ g.expected = e
      /\ c.what = "locked" => g.total = f.total - vault /\ g.flow = f.flow /\ g.expected = f.expected
      /\ c.what = "out" => g.total = f.total /\ g.flow = f.flow + out /\ g.expected = f.expected
      /\ c.what = "in" => g.total = f.total /\ g.flow = f.flow - in /\ g.expected = f.expected
      /\ c.what = "flow" =>
           g.total = f.total /\ g.flow = f.flow + out - in /\ g.expected = f.expected
  <2>1. CASE c.what = "supply"
    <3>1. PICK a \in Int : a = f.total + all
      BY <1>4, <1>5
    <3>2. g = [total |-> a, flow |-> f.flow, expected |-> e, moved |-> f.moved]
      BY <1>5, <1>8, <2>1, <3>1
    <3> QED
      BY <1>5, <1>7, <2>1, <3>1, <3>2 DEF Figures
  <2>2. CASE c.what = "locked"
    BY <1>4, <1>5, <1>8, <2>2 DEF Figures
  <2>3. CASE c.what = "out"
    BY <1>4, <1>5, <1>8, <2>3 DEF Figures
  <2>4. CASE c.what = "in"
    BY <1>4, <1>5, <1>8, <2>4 DEF Figures
  <2>5. CASE c.what = "flow"
    BY <1>4, <1>5, <1>8, <2>5 DEF Figures
  <2> QED
    BY <1>2, <2>1, <2>2, <2>3, <2>4, <2>5 DEF EvmAsks, SolanaAsks
<1> SUFFICES ASSUME SumsFit(f, c, k)
             PROVE  SumsFit(g, d, k)
  BY <1>1, <1>9
<1>10. /\ c.what = "supply" => f.total + f.flow = 0
       /\ c.what = "out" => f.total + f.flow = all
       /\ c.what = "in" => f.total + f.flow = all + out
       /\ c.what = "locked" => f.total + f.flow = all /\ f.expected = all
       /\ c.what = "flow" =>
            IF t \in Adapted THEN f.total + f.flow = all - vault /\ f.expected = all
            ELSE f.total + f.flow = all /\ f.expected = Genesis(t)
  BY <1>1, <1>3 DEF SumsFit, Issued
<1>11. ASSUME ChainOf(d) = h, d.token = t,
              d.what = "out" => g.total + g.flow = all,
              d.what = "in" => g.total + g.flow = all + out,
              d.what = "locked" => g.total + g.flow = all /\ g.expected = all,
              d.what = "flow" =>
                IF t \in Adapted THEN g.total + g.flow = all - vault /\ g.expected = all
                ELSE g.total + g.flow = all /\ g.expected = Genesis(t),
              d.what = "sum" => g.total + g.flow = g.expected,
              d.what # "supply"
       PROVE  SumsFit(g, d, k)
  BY <1>3, <1>11 DEF SumsFit, Issued
<1>12. d.token = t
  BY <1>1, NextIsCall
<1>13. CASE c.what = "supply" /\ h # Home /\ d.what = "out" /\ ChainOf(d) = h
  BY <1>4, <1>5, <1>9, <1>10, <1>11, <1>12, <1>13
<1>14. CASE c.what = "out" /\ h # Home /\ d.what = "in" /\ ChainOf(d) = h
  BY <1>4, <1>5, <1>9, <1>10, <1>11, <1>12, <1>14
<1>15. CASE c.what = "in" /\ h # Home /\ d.what = "supply"
  <2>1. g.total + g.flow = 0
    BY <1>4, <1>5, <1>9, <1>10, <1>15
  <2> QED
    BY <1>15, <2>1 DEF SumsFit, Issued
<1>16. CASE /\ c.what = "supply" /\ h = Home /\ ChainOf(d) = h
            /\ d.what = IF t \in Adapted THEN "locked" ELSE "flow"
  <2>1. g.total + g.flow = all
    BY <1>4, <1>5, <1>9, <1>10, <1>16
  <2>2. CASE t \in Adapted
    BY <1>6, <1>9, <1>11, <1>12, <1>16, <2>1, <2>2
  <2>3. CASE t \notin Adapted
    BY <1>6, <1>9, <1>11, <1>12, <1>16, <2>1, <2>3
  <2> QED
    BY <2>2, <2>3
<1>17. CASE c.what = "locked" /\ t \in Adapted /\ d.what = "flow" /\ ChainOf(d) = h
  <2>1. g.total + g.flow = all - vault
    BY <1>4, <1>5, <1>9, <1>10, <1>17
  <2> QED
    BY <1>9, <1>10, <1>11, <1>12, <1>17, <2>1
<1>18. CASE c.what = "flow" /\ h = Home /\ d.what = "sum" /\ ChainOf(d) = h
  <2>1. g.total + g.flow = g.expected
    <3>1. CASE t \in Adapted
      BY <1>4, <1>5, <1>9, <1>10, <1>18, <3>1
    <3>2. CASE t \notin Adapted
      BY <1>4, <1>5, <1>9, <1>10, <1>18, <3>2
    <3> QED
      BY <3>1, <3>2
  <2> QED
    BY <1>11, <1>12, <1>18, <2>1
<1> QED
  BY <1>1, <1>13, <1>14, <1>15, <1>16, <1>17, <1>18, NextIsCall

-----------------------------------------------------------------------------
(* What is in flight, as far as a measurement has read.                    *)

(* What a set of mirrors has counted, in shared units.                     *)
OutBy(t, S) ==
  SumFunctionOnSet([m \in Mirrors |-> ToShared(mirrorToken[m][t].out, MirrorQuantum[m][t])], S)

InBy(t, S) ==
  SumFunctionOnSet([m \in Mirrors |-> ToShared(mirrorToken[m][t].in, MirrorQuantum[m][t])], S)

(* One mirror more.                                                        *)
LEMMA CountedAdd ==
  ASSUME WireTypeOK, NEW t \in Tokens, NEW S, S \subseteq Mirrors, NEW m \in Mirrors, m \notin S
  PROVE  /\ OutBy(t, S) \in Nat /\ InBy(t, S) \in Nat
         /\ OutBy(t, S \cup {m}) =
              OutBy(t, S) + ToShared(mirrorToken[m][t].out, MirrorQuantum[m][t])
         /\ InBy(t, S \cup {m}) =
              InBy(t, S) + ToShared(mirrorToken[m][t].in, MirrorQuantum[m][t])
<1>1. PICK f, g :
        /\ f = [x \in Mirrors |-> ToShared(mirrorToken[x][t].out, MirrorQuantum[x][t])]
        /\ g = [x \in Mirrors |-> ToShared(mirrorToken[x][t].in, MirrorQuantum[x][t])]
  OBVIOUS
<1>2. ASSUME NEW x \in Mirrors
      PROVE  f[x] \in Nat /\ g[x] \in Nat
  <2>1. mirrorToken[x][t] \in Token /\ MirrorQuantum[x][t] \in Nat \ {0}
    BY WireAssumption DEF WireTypeOK
  <2>2. mirrorToken[x][t].out \in Nat /\ mirrorToken[x][t].in \in Nat
    BY <2>1 DEF Token
  <2> QED
    BY <1>1, <2>1, <2>2, AmountTypes
<1>3. IsFiniteSet(S)
  BY WireAssumption, FS_Subset
<1>4. \A x \in S \cup {m} : f[x] \in Nat /\ g[x] \in Nat
  BY <1>2
<1>5. SumFunctionOnSet(f, S) \in Nat /\ SumFunctionOnSet(g, S) \in Nat
  BY <1>3, <1>4, SumIsNat
<1>6. /\ SumFunctionOnSet(f, S \cup {m}) = SumFunctionOnSet(f, S) + f[m]
      /\ SumFunctionOnSet(g, S \cup {m}) = SumFunctionOnSet(g, S) + g[m]
  BY <1>3, <1>4, SumAdds
<1> QED
  BY <1>1, <1>5, <1>6 DEF OutBy, InBy

(* None, and all of them.                                                  *)
LEMMA CountedEnds ==
  ASSUME NEW t
  PROVE  /\ OutBy(t, {}) = 0 /\ InBy(t, {}) = 0
         /\ OutBy(t, Mirrors) = OutShared(t) /\ InBy(t, Mirrors) = InShared(t)
BY SumOfNone DEF OutBy, InBy, OutShared, InShared, SumFunction

(* What has passed of the chain that is being read.                        *)
HalfRead(c, k) ==
  IF c.what = "in" THEN ToShared(k.out, Quantum(ChainOf(c), c.token))
  ELSE IF c.what = "sum" THEN LedgerAway(k, c.token) ELSE 0

Net(c) ==
  OutBy(c.token, Passed(c.nth)) - InBy(c.token, Passed(c.nth))
    + HalfRead(c, Ledger(ChainOf(c), c.token))

FlowFits(f, c) == f.flow = Net(c) * Finest[c.token]

(* What mirrors have counted is a whole number.                            *)
LEMMA PassedTypes ==
  ASSUME WireTypeOK, NEW c, IsCall(c)
  PROVE  OutBy(c.token, Passed(c.nth)) \in Nat /\ InBy(c.token, Passed(c.nth)) \in Nat
<1>1. c.token \in Tokens /\ c.nth \in 1..(Len(EvmOrder) + 1) /\ Len(EvmOrder) \in Nat
  BY ChainOfCall
<1>2. CASE c.nth \in 1..Len(EvmOrder)
  <2>1. /\ EvmOrder[c.nth] \in Mirrors /\ Passed(c.nth) \subseteq Mirrors
        /\ EvmOrder[c.nth] \notin Passed(c.nth)
    BY <1>2, ChainsPassed
  <2> QED
    BY <1>1, <2>1, CountedAdd
<1>3. CASE c.nth = Len(EvmOrder) + 1
  BY <1>1, <1>3, ChainsPassed, CountedEnds, CountedTypes
<1> QED
  BY <1>1, <1>2, <1>3

(* Nothing is read at first.                                               *)
LEMMA FirstFlow ==
  ASSUME NEW t \in Tokens, NEW f, f.flow = 0
  PROVE  FlowFits(f, FirstCall(t))
<1>1. FirstCall(t).token = t /\ FirstCall(t).nth = 1 /\ FirstCall(t).what = "supply"
  BY FirstIsCall
<1>2. OutBy(t, Passed(1)) = 0 /\ InBy(t, Passed(1)) = 0
  BY ChainsPassed, CountedEnds
<1>3. HalfRead(FirstCall(t), Ledger(ChainOf(FirstCall(t)), t)) = 0
  BY <1>1 DEF HalfRead
<1>4. Net(FirstCall(t)) = 0
  BY <1>1, <1>2, <1>3 DEF Net
<1>5. Finest[t] \in Nat
  BY LiveSupplyAssumption
<1> QED
  BY <1>1, <1>4, <1>5 DEF FlowFits

(* In the end, what is in flight.                                          *)
LEMMA LastFlow ==
  ASSUME StockInv, NEW c, IsCall(c), c.what = "sum", NEW f, FlowFits(f, c)
  PROVE  f.flow = InFlight(c.token) * Finest[c.token]
<1>1. PICK t : t = c.token
  OBVIOUS
<1>2. t \in Tokens /\ c.nth = Len(EvmOrder) + 1 /\ ChainOf(c) = Home
  BY <1>1, ChainOfCall DEF EvmAsks
<1>3. /\ OutBy(t, Passed(c.nth)) = OutShared(t) /\ InBy(t, Passed(c.nth)) = InShared(t)
  BY <1>2, ChainsPassed, CountedEnds
<1>4. HalfRead(c, Ledger(ChainOf(c), t)) = Away(t)
  BY <1>1, <1>2 DEF HalfRead, Ledger, StockInv, LedgersAgree
<1>5. /\ InShared(t) \in Nat /\ InFlight(t) \in Nat /\ OutShared(t) \in Nat
      /\ Away(t) = InShared(t) + InFlight(t) - OutShared(t)
  BY <1>2, AwayTypes DEF StockInv, MirrorInv, MirrorTypeOK, Away
<1>6. Net(c) = InFlight(t)
  BY <1>1, <1>3, <1>4, <1>5 DEF Net
<1> QED
  BY <1>1, <1>6 DEF FlowFits

(* A call adds to the flow what its chain counted.                         *)
LEMMA CallsCount ==
  ASSUME StockInv, NEW f \in Figures, NEW c, IsCall(c), c.what # "sum", FlowFits(f, c)
  PROVE  FlowFits(Adds(f, c), CallAfter(c))
<1>1. PICK h, t, g, d, k, q, F :
        /\ h = ChainOf(c) /\ t = c.token /\ g = Adds(f, c) /\ d = CallAfter(c)
        /\ k = Ledger(h, t) /\ q = Quantum(h, t) /\ F = Finest[t]
  OBVIOUS
<1>2. /\ t \in Tokens /\ h \in Mirrors \cup {Home} /\ c.what \in EvmAsks \cup SolanaAsks
      /\ F \in Nat /\ WireTypeOK
  BY <1>1, ChainOfCall, LiveSupplyAssumption DEF StockInv, MirrorInv, MirrorTypeOK
<1>3. k \in Token /\ Whole(k.out, q) /\ Whole(k.in, q)
  BY <1>1, <1>2, LedgersFit DEF LedgerFits
<1>4. k.out \in Nat /\ k.in \in Nat
  BY <1>3 DEF Token
<1>5. PICK os, is : os = ToShared(k.out, q) /\ is = ToShared(k.in, q)
  OBVIOUS
<1>6. /\ os \in Nat /\ Up(k.out, h, t) = os * F
      /\ is \in Nat /\ Up(k.in, h, t) = is * F
  BY <1>1, <1>2, <1>3, <1>4, <1>5, UpOfWhole
<1>7. PICK o, i, r, net :
        /\ o = OutBy(t, Passed(c.nth)) /\ i = InBy(t, Passed(c.nth))
        /\ r = HalfRead(c, k) /\ net = o - i + r
  OBVIOUS
<1>8. o \in Nat /\ i \in Nat /\ Net(c) = net
  BY <1>1, <1>2, <1>7, PassedTypes DEF Net
<1>9. f.flow = net * F /\ f.flow \in Int
  BY <1>1, <1>8 DEF FlowFits, Figures
<1>10. /\ c.what \in {"supply", "locked"} => g.flow = f.flow
       /\ c.what = "out" => g.flow = f.flow + os * F
       /\ c.what = "in" => g.flow = f.flow - is * F
       /\ c.what = "flow" => g.flow = f.flow + os * F - is * F
  BY <1>1, <1>6 DEF Adds, Figures
<1>11. d.token = t
  BY <1>1, NextIsCall
<1>12. ASSUME d.nth = c.nth, ChainOf(d) = h
       PROVE  Net(d) = o - i + HalfRead(d, k)
  BY <1>1, <1>7, <1>11, <1>12 DEF Net
<1>13. CASE c.what \in {"supply", "locked"}
  <2>1. d.nth = c.nth /\ ChainOf(d) = h /\ d.what \in {"out", "locked", "flow"}
    BY <1>1, <1>13, NextIsCall
  <2>2. r = 0 /\ HalfRead(d, k) = 0
    BY <1>7, <1>13, <2>1 DEF HalfRead
  <2>3. Net(d) = net
    BY <1>7, <1>8, <1>12, <2>1, <2>2
  <2> QED
    BY <1>1, <1>9, <1>10, <1>11, <1>13, <2>3 DEF FlowFits
<1>14. CASE c.what = "out"
  <2>1. d.nth = c.nth /\ ChainOf(d) = h /\ d.what = "in"
    BY <1>1, <1>14, NextIsCall
  <2>2. r = 0 /\ HalfRead(d, k) = os
    BY <1>1, <1>5, <1>7, <1>11, <1>14, <2>1 DEF HalfRead
  <2>3. Net(d) = net + os
    BY <1>6, <1>7, <1>8, <1>12, <2>1, <2>2
  <2>4. (net + os) * F = net * F + os * F
    BY <1>2, <1>6, <1>7, <1>8, <2>2
  <2> QED
    BY <1>1, <1>9, <1>10, <1>11, <1>14, <2>3, <2>4 DEF FlowFits
<1>15. CASE c.what = "in"
  <2>1. d.nth = c.nth + 1 /\ d.what = "supply" /\ h # Home
    BY <1>1, <1>15, NextIsCall
  <2>2. c.nth \in 1..Len(EvmOrder) /\ h = EvmOrder[c.nth] /\ h \in Mirrors
    BY <1>1, <2>1, ChainOfCall
  <2>3. /\ Passed(c.nth) \subseteq Mirrors /\ h \notin Passed(c.nth)
        /\ Passed(d.nth) = Passed(c.nth) \cup {h}
    BY <2>1, <2>2, ChainsPassed
  <2>4. k = mirrorToken[h][t] /\ q = MirrorQuantum[h][t]
    BY <1>1, <2>1 DEF Ledger, Quantum
  <2>5. PICK S : S = Passed(c.nth)
    OBVIOUS
  <2>51. /\ OutBy(t, S \cup {h}) = OutBy(t, S) + ToShared(mirrorToken[h][t].out, MirrorQuantum[h][t])
         /\ InBy(t, S \cup {h}) = InBy(t, S) + ToShared(mirrorToken[h][t].in, MirrorQuantum[h][t])
    BY <1>2, <2>2, <2>3, <2>5, CountedAdd
  <2>52. OutBy(t, Passed(d.nth)) = o + os /\ InBy(t, Passed(d.nth)) = i + is
    BY <1>5, <1>7, <2>3, <2>4, <2>5, <2>51
  <2>6. r = os /\ HalfRead(d, Ledger(ChainOf(d), t)) = 0
    BY <1>1, <1>5, <1>7, <1>15, <2>1 DEF HalfRead
  <2>7. Net(d) = (o + os) - (i + is) + 0
    BY <1>11, <2>52, <2>6 DEF Net
  <2>8. Net(d) = net - is
    BY <1>6, <1>7, <1>8, <2>6, <2>7
  <2>9. (net - is) * F = net * F - is * F
    BY <1>2, <1>6, <1>7, <1>8, <2>6
  <2> QED
    BY <1>1, <1>9, <1>10, <1>11, <1>15, <2>8, <2>9 DEF FlowFits
<1>16. CASE c.what = "flow"
  <2>1. d.nth = c.nth /\ ChainOf(d) = h /\ d.what = "sum" /\ h = Home
    BY <1>1, <1>16, NextIsCall
  <2>2. q = HomeQuantum[t]
    BY <1>1, <2>1 DEF Quantum
  <2>3. r = 0 /\ HalfRead(d, k) = os - is
    BY <1>5, <1>7, <1>11, <1>16, <2>1, <2>2 DEF HalfRead, LedgerAway
  <2>4. Net(d) = net + (os - is)
    BY <1>6, <1>7, <1>8, <1>12, <2>1, <2>3
  <2>5. (net + (os - is)) * F = net * F + os * F - is * F
    BY <1>2, <1>6, <1>7, <1>8, <2>3
  <2> QED
    BY <1>1, <1>6, <1>9, <1>10, <1>11, <1>16, <2>4, <2>5 DEF FlowFits
<1>17. CASE c.what \notin {"supply", "locked", "out", "in", "flow"}
  BY <1>2, <1>17 DEF EvmAsks, SolanaAsks
<1> QED
  BY <1>13, <1>14, <1>15, <1>16, <1>17

-----------------------------------------------------------------------------
(* A measurement that is under way.                                        *)

Calls ==
  {c \in [token : Tokens, nth : 1..(Len(EvmOrder) + 1), what : EvmAsks \cup SolanaAsks] : IsCall(c)}

Readings ==
  [state : {"running", "live", "unreachable"}, next : Calls, figures : Figures,
   broken : BOOLEAN, torn : BOOLEAN]

(***************************************************************************)
(* What has been added up fits the chain that is being read, unless that   *)
(* chain moved below the calls; and its flow fits what the mirrors have    *)
(* counted, unless anything moved.                                         *)
(***************************************************************************)
ReadingFits(d) ==
  /\ d \in Readings
  /\ d.broken => d.torn
  /\ d.state = "running" /\ d.figures.moved # "under" =>
       SumsFit(d.figures, d.next, Ledger(ChainOf(d.next), d.next.token))
  /\ d.state = "running" /\ d.figures.moved = "no" => FlowFits(d.figures, d.next)

ReportInv == \A d \in Range(readings) : ReadingFits(d)

(* What a measurement has read stays what it is, if its asset does not move. *)
LEMMA RestingNet ==
  ASSUME NEW c, IsCall(c),
         \A h \in Mirrors \cup {Home} : Ledger(h, c.token)' = Ledger(h, c.token)
  PROVE  Net(c)' = Net(c)
<1>1. PICK t, S, h : t = c.token /\ S = Passed(c.nth) /\ h = ChainOf(c)
  OBVIOUS
<1>2. h \in Mirrors \cup {Home} /\ Home \notin Mirrors
  BY <1>1, ChainOfCall, LiveSupplyAssumption
<1>3. \A m \in Mirrors : mirrorToken'[m][t] = mirrorToken[m][t]
  <2> SUFFICES ASSUME NEW m \in Mirrors
               PROVE  mirrorToken'[m][t] = mirrorToken[m][t]
    OBVIOUS
  <2>1. Ledger(m, t)' = Ledger(m, t) /\ m # Home
    BY <1>1, <1>2
  <2> QED
    BY <2>1 DEF Ledger
<1>4. OutBy(t, S)' = OutBy(t, S) /\ InBy(t, S)' = InBy(t, S)
  BY <1>3 DEF OutBy, InBy
<1>5. HalfRead(c, Ledger(h, t))' = HalfRead(c, Ledger(h, t))
  <2>1. Ledger(h, t)' = Ledger(h, t)
    BY <1>1, <1>2
  <2> QED
    BY <2>1 DEF HalfRead
<1> QED
  BY <1>1, <1>4, <1>5 DEF Net

LEMMA RestingReading ==
  ASSUME NEW d, ReadingFits(d),
         \A h \in Mirrors \cup {Home} : Ledger(h, d.next.token)' = Ledger(h, d.next.token)
  PROVE  ReadingFits(d)'
<1>1. PICK c : c = d.next /\ IsCall(c)
  BY DEF ReadingFits, Readings, Calls
<1>2. Net(c)' = Net(c)
  BY <1>1, RestingNet
<1>3. Ledger(ChainOf(c), c.token)' = Ledger(ChainOf(c), c.token)
  BY <1>1, ChainOfCall
<1> QED
  BY <1>1, <1>2, <1>3 DEF ReadingFits, FlowFits

(* Nothing read is nothing in flight, before a step and after it.          *)
LEMMA FirstNet ==
  ASSUME NEW t \in Tokens
  PROVE  Net(FirstCall(t)) = 0 /\ Net(FirstCall(t))' = 0
<1>1. PICK c : c = FirstCall(t)
  OBVIOUS
<1>2. c.token = t /\ c.nth = 1 /\ c.what = "supply" /\ Passed(1) = {}
  BY <1>1, FirstIsCall, ChainsPassed
<1>3. HalfRead(c, Ledger(ChainOf(c), t)) = 0 /\ HalfRead(c, Ledger(ChainOf(c), t))' = 0
  BY <1>2 DEF HalfRead
<1>4. /\ OutBy(t, {}) = 0 /\ InBy(t, {}) = 0
      /\ OutBy(t, {})' = 0 /\ InBy(t, {})' = 0
  BY SumOfNone DEF OutBy, InBy
<1>5. Net(c) = 0 /\ Net(c)' = 0
  BY <1>2, <1>3, <1>4 DEF Net
<1> QED
  BY <1>1, <1>5

(* An asset that is about to be read, or a measurement that was given up.  *)
LEMMA FreshFits ==
  ASSUME NEW d \in Readings, d.figures = NoFigures, d.broken => d.torn,
         d.state = "running" => \E t \in Tokens : d.next = FirstCall(t)
  PROVE  ReadingFits(d)
<1>1. SUFFICES ASSUME NEW t \in Tokens, d.next = FirstCall(t)
               PROVE  /\ SumsFit(d.figures, d.next, Ledger(ChainOf(d.next), d.next.token))
                      /\ FlowFits(d.figures, d.next)
  BY DEF ReadingFits
<1>2. NoFigures.total = 0 /\ NoFigures.flow = 0
  BY DEF NoFigures
<1>3. FlowFits(d.figures, d.next)
  BY <1>1, <1>2, FirstFlow
<1>4. Issued(NoFigures) = 0 /\ d.next.what = "supply"
  BY <1>1, <1>2, FirstIsCall DEF Issued
<1>5. SumsFit(d.figures, d.next, Ledger(ChainOf(d.next), d.next.token))
  BY <1>4 DEF SumsFit
<1> QED
  BY <1>3, <1>5

-----------------------------------------------------------------------------
(* The steps of a measurement.                                             *)

LEMMA NoFiguresTypes ==
  NoFigures \in Figures
BY DEF NoFigures, Figures

LEMMA MeasureFits ==
  ASSUME StockInv, NEW r, Measure(r), ReadingFits(readings[r]), r \in DOMAIN readings
  PROVE  ReadingFits(readings'[r])
<1>1. PICK d, c, f, e, k :
        /\ d = readings[r] /\ c = d.next /\ f = d.figures /\ e = readings'[r]
        /\ k = Ledger(ChainOf(c), c.token)
  OBVIOUS
<1>2. /\ d \in Readings /\ (d.broken => d.torn) /\ IsCall(c) /\ f \in Figures
      /\ d.state = "running" /\ c.what # "sum"
  BY <1>1 DEF ReadingFits, Readings, Calls, Measure, Running, NextCall
<1>3. e = [d EXCEPT !.next = CallAfter(c), !.figures = Adds(f, c)]
  BY <1>1 DEF Measure, NextCall
<1>4. c.token \in Tokens /\ ChainOf(c) \in Mirrors \cup {Home}
  BY <1>2, ChainOfCall
<1>5. LedgerFits(ChainOf(c), c.token, k)
  BY <1>1, <1>4, LedgersFit
<1>6. PICK g, n : g = Adds(f, c) /\ n = CallAfter(c)
  OBVIOUS
<1>7. g \in Figures /\ g.moved = f.moved /\ (SumsFit(f, c, k) => SumsFit(g, n, k))
  BY <1>1, <1>2, <1>5, <1>6, CallsAddUp
<1>8. /\ IsCall(n) /\ n.token = c.token
      /\ n.what # "supply" => ChainOf(n) = ChainOf(c)
  BY <1>2, <1>6, NextIsCall
<1>9. n \in Calls
  BY <1>8 DEF Calls, IsCall
<1>10. /\ e \in Readings /\ e.next = n /\ e.figures = g /\ e.state = "running"
       /\ e.broken => e.torn
  BY <1>2, <1>3, <1>6, <1>7, <1>9 DEF Readings
<1>11. ASSUME g.moved # "under"
       PROVE  SumsFit(g, n, Ledger(ChainOf(n), n.token))
  <2>1. SumsFit(g, n, k)
    BY <1>1, <1>2, <1>7, <1>11 DEF ReadingFits
  <2>2. CASE n.what = "supply"
    BY <2>1, <2>2, SumsStand
  <2>3. CASE n.what # "supply"
    BY <1>1, <1>8, <2>1, <2>3
  <2> QED
    BY <2>2, <2>3
<1>12. ASSUME g.moved = "no"
       PROVE  FlowFits(g, n)
  <2>1. FlowFits(f, c)
    BY <1>1, <1>2, <1>7, <1>12 DEF ReadingFits
  <2> QED
    BY <1>2, <1>6, <2>1, CallsCount
<1>13. ReadingFits(e)
  BY <1>10, <1>11, <1>12 DEF ReadingFits
<1> QED
  BY <1>1, <1>13

LEMMA SumFits ==
  ASSUME NEW r, Sum(r), ReadingFits(readings[r]), r \in DOMAIN readings
  PROVE  ReadingFits(readings'[r])
<1>1. PICK d, c, f, e :
        d = readings[r] /\ c = d.next /\ f = d.figures /\ e = readings'[r]
  OBVIOUS
<1>2. /\ d \in Readings /\ (d.broken => d.torn) /\ IsCall(c) /\ f \in Figures
      /\ d.state = "running" /\ c.what = "sum"
  BY <1>1 DEF ReadingFits, Readings, Calls, Sum, Summed, Running, NextCall
<1>3. PICK s, n, b, u :
        /\ s = IF c.token = "quote" THEN "live" ELSE "running"
        /\ n = IF c.token = "quote" THEN c ELSE FirstCall("quote")
        /\ b = (d.broken \/ NotConserved(f)) /\ u = (d.torn \/ f.moved = "under")
  OBVIOUS
<1>4. e = [d EXCEPT !.state = s, !.next = n, !.figures = NoFigures, !.broken = b, !.torn = u]
  BY <1>1, <1>2, <1>3 DEF Sum, NextCall
<1>5. "quote" \in Tokens
  BY DEF Tokens
<1>6. n \in Calls /\ s \in {"running", "live", "unreachable"} /\ (s = "running" => n = FirstCall("quote"))
  BY <1>2, <1>3, <1>5, FirstIsCall DEF Calls, IsCall
<1>7. b \in BOOLEAN /\ u \in BOOLEAN
  BY <1>3
<1>8. /\ e \in Readings /\ e.state = s /\ e.next = n /\ e.figures = NoFigures
      /\ e.broken = b /\ e.torn = u
  BY <1>2, <1>4, <1>6, <1>7, NoFiguresTypes DEF Readings
<1>9. f.moved # "under" => Conserved(f)
  BY <1>1, <1>2 DEF ReadingFits, SumsFit, Conserved
<1>10. b => u
  BY <1>2, <1>3, <1>9 DEF NotConserved
<1>11. ReadingFits(e)
  BY <1>5, <1>6, <1>8, <1>10, FreshFits
<1> QED
  BY <1>1, <1>11

LEMMA NewReading ==
  ASSUME NEW s \in {"running", "live", "unreachable"}
  PROVE  ReadingFits(Reading) /\ ReadingFits([Reading EXCEPT !.state = s])
<1>1. PICK e, d : e = Reading /\ d = [e EXCEPT !.state = s]
  OBVIOUS
<1>2. "base" \in Tokens
  BY DEF Tokens
<1>3. e = [state |-> "running", next |-> FirstCall("base"), figures |-> NoFigures,
           broken |-> FALSE, torn |-> FALSE]
  BY <1>1 DEF Reading
<1>4. FirstCall("base") \in Calls
  BY <1>2, FirstIsCall DEF Calls, IsCall
<1>5. /\ e \in Readings /\ e.next = FirstCall("base") /\ e.figures = NoFigures
      /\ ~e.broken
  BY <1>3, <1>4, NoFiguresTypes DEF Readings
<1>6. /\ d \in Readings /\ d.next = FirstCall("base") /\ d.figures = NoFigures
      /\ ~d.broken
  BY <1>1, <1>5 DEF Readings
<1>7. ReadingFits(e) /\ ReadingFits(d)
  BY <1>2, <1>5, <1>6, FreshFits
<1> QED
  BY <1>1, <1>7

(* What a reading notices of a step below it, and keeps to.                *)
LEMMA NoticedFits ==
  ASSUME NEW r, ReadingFits(readings[r]), Running(r), NEW e,
         e = [readings[r] EXCEPT !.figures.moved = Noticed(r)]
  PROVE  ReadingFits(e)'
<1>1. PICK d, c, f, t, h, m, g :
        /\ d = readings[r] /\ c = d.next /\ f = d.figures /\ t = c.token /\ h = ChainOf(c)
        /\ m = Noticed(r) /\ g = e.figures
  OBVIOUS
<1>2. /\ d \in Readings /\ (d.broken => d.torn) /\ IsCall(c) /\ f \in Figures
      /\ d.state = "running" /\ t \in Tokens /\ h \in Mirrors \cup {Home}
  BY <1>1, ChainOfCall DEF ReadingFits, Readings, Calls, Running
<1>3. PICK moving : moving = {l \in Moving : l[2] = t}
  OBVIOUS
<1>4. m = IF c = FirstCall(t) \/ moving = {} \/ f.moved = "under" THEN f.moved
          ELSE IF \E l \in moving : Under(r, l[1], l[2]) THEN "under" ELSE "elsewhere"
  BY <1>1, <1>3 DEF Noticed, NextCall, Begun
<1>5. m \in {"no", "under", "elsewhere"}
  BY <1>2, <1>4 DEF Figures
<1>6. g = [f EXCEPT !.moved = m] /\ e = [d EXCEPT !.figures = g]
  BY <1>1, <1>2 DEF Readings
<1>7. /\ g \in Figures /\ g.moved = m /\ g.total = f.total /\ g.flow = f.flow
      /\ g.expected = f.expected
  BY <1>2, <1>5, <1>6 DEF Figures
<1>8. /\ e \in Readings /\ e.figures = g /\ e.next = c /\ e.state = "running"
      /\ e.broken => e.torn
  BY <1>1, <1>2, <1>6, <1>7 DEF Readings
<1>9. ASSUME NEW k, SumsFit(f, c, k)
      PROVE  SumsFit(g, c, k)
  BY <1>7, <1>9 DEF SumsFit, Issued
<1>10. SUFFICES ASSUME m # "under"
                PROVE  /\ SumsFit(g, c, Ledger(h, t)')
                       /\ m = "no" => g.flow = Net(c)' * Finest[t]
  BY <1>1, <1>7, <1>8 DEF ReadingFits, FlowFits
<1>11. CASE moving = {}
  <2>1. m = f.moved
    BY <1>4, <1>11
  <2>2. \A i \in Mirrors \cup {Home} : Ledger(i, t)' = Ledger(i, t)
    <3> SUFFICES ASSUME NEW i \in Mirrors \cup {Home}
                 PROVE  Ledger(i, t)' = Ledger(i, t)
      OBVIOUS
    <3>1. <<i, t>> \notin moving
      BY <1>11
    <3> QED
      BY <1>2, <1>3, <3>1 DEF Moving
  <2>3. Net(c)' = Net(c) /\ Ledger(h, t)' = Ledger(h, t)
    BY <1>1, <1>2, <2>2, RestingNet
  <2>4. SumsFit(f, c, Ledger(h, t)) /\ (m = "no" => f.flow = Net(c) * Finest[t])
    BY <1>1, <1>2, <1>10, <2>1 DEF ReadingFits, FlowFits
  <2> QED
    BY <1>7, <1>9, <2>3, <2>4
<1>12. CASE moving # {} /\ c = FirstCall(t)
  <2>1. m = f.moved /\ c.what = "supply"
    BY <1>2, <1>4, <1>12, FirstIsCall
  <2>2. SumsFit(f, c, Ledger(h, t)) /\ (m = "no" => f.flow = Net(c) * Finest[t])
    BY <1>1, <1>2, <1>10, <2>1 DEF ReadingFits, FlowFits
  <2>3. Net(c) = 0 /\ Net(c)' = 0
    BY <1>2, <1>12, FirstNet
  <2>4. SumsFit(f, c, Ledger(h, t)')
    BY <2>1, <2>2, SumsStand
  <2> QED
    BY <1>7, <1>9, <2>2, <2>3, <2>4
<1>13. CASE moving # {} /\ c # FirstCall(t)
  <2>1. f.moved # "under" /\ m = "elsewhere" /\ ~\E l \in moving : Under(r, l[1], l[2])
    BY <1>4, <1>10, <1>13
  <2>2. SumsFit(f, c, Ledger(h, t))
    BY <1>1, <1>2, <2>1 DEF ReadingFits
  <2>3. SumsFit(f, c, Ledger(h, t)')
    <3>1. CASE c.what \in {"supply", "sum"}
      BY <2>2, <3>1, SumsStand
    <3>2. CASE c.what \notin {"supply", "sum"}
      <4>1. Under(r, h, t)
        BY <1>1, <3>2 DEF Under, NextCall
      <4>2. <<h, t>> \notin moving
        BY <2>1, <4>1
      <4>3. Ledger(h, t)' = Ledger(h, t)
        BY <1>2, <1>3, <4>2 DEF Moving
      <4> QED
        BY <2>2, <4>3
    <3> QED
      BY <3>1, <3>2
  <2> QED
    BY <1>9, <2>1, <2>3
<1> QED
  BY <1>11, <1>12, <1>13

-----------------------------------------------------------------------------
(* An appended element is the only new one.                                *)
LEMMA RangeGrows ==
  ASSUME NEW s, NEW n, IsList(s, n), NEW x
  PROVE  \A d \in Range(Append(s, x)) : d \in Range(s) \/ d = x
<1> DEFINE S == Range(s) \cup {x}
<1>1. s \in Seq(S) /\ x \in S /\ Len(s) = n /\ n \in Nat
  BY LengthOfList, SeqMonotonic DEF IsList
<1> HIDE DEF S
<1>2. /\ Append(s, x) \in Seq(S) /\ Len(Append(s, x)) = n + 1
      /\ \A i \in 1..n : Append(s, x)[i] = s[i]
      /\ Append(s, x)[n + 1] = x
  BY <1>1, AppendProperties
<1>3. DOMAIN Append(s, x) = 1..(n + 1) /\ DOMAIN s = 1..n
  BY <1>1, <1>2
<1>4. \A i \in 1..(n + 1) : i \in 1..n \/ i = n + 1
  BY <1>1
<1> QED
  BY <1>2, <1>3, <1>4 DEF Range

(* The chains do not move while a server or a page does something.         *)
LEMMA ReadingsRest ==
  ASSUME UNCHANGED vars, \A d \in Range(readings)' : ReadingFits(d)
  PROVE  ReportInv'
<1>1. \A h \in Mirrors \cup {Home}, t \in Tokens : Ledger(h, t)' = Ledger(h, t)
  <2>1. UNCHANGED <<homeToken, mirrorToken>>
    BY DEF vars, mirrorVars, wireVars, requestVars, relayVars, endpointVars
  <2> QED
    BY <2>1 DEF Ledger
<1>2. ASSUME NEW d, ReadingFits(d)
      PROVE  d.next.token \in Tokens
  BY <1>2 DEF ReadingFits, Readings, Calls
<1>3. \A d \in Range(readings)' : ReadingFits(d)'
  BY <1>1, <1>2, RestingReading
<1> QED
  BY <1>3 DEF ReportInv

LEMMA ReportInvKept ==
  ASSUME StockInv, PageInv, ReportInv, [LiveNext]_<<vars, reportVars>>
  PROVE  ReportInv'
<1>1. PICK n : IsList(readings, n)
  BY DEF PageInv
<1>2. DOMAIN readings = 1..n /\ \A r \in DOMAIN readings : ReadingFits(readings[r])
  BY <1>1 DEF IsList, ReportInv, Range
<1>3. CASE UNCHANGED <<vars, readings>>
  BY <1>3, ReadingsRest DEF ReportInv
<1>4. ASSUME UNCHANGED vars, GetLive
      PROVE  ReportInv'
  <2>1. CASE UNCHANGED readings
    BY <1>3, <1>4, <2>1
  <2>2. CASE readings' = Append(readings, Reading)
    <3>1. \A d \in Range(readings)' : d \in Range(readings) \/ d = Reading
      BY <1>1, <2>2, RangeGrows
    <3> QED
      BY <1>4, <3>1, NewReading, ReadingsRest DEF ReportInv
  <2> QED
    BY <1>4, <2>1, <2>2 DEF GetLive
<1>5. ASSUME NEW r \in DOMAIN readings, Measure(r) \/ Sum(r) \/ Unreachable(r)
      PROVE  ReportInv'
  <2>1. UNCHANGED vars /\ \E x : readings' = [readings EXCEPT ![r] = x]
    BY <1>5 DEF Measure, Sum, Unreachable
  <2>2. ReadingFits(readings[r])
    BY <1>2
  <2>3. ReadingFits(readings'[r])
    <3>1. CASE Measure(r)
      BY <1>5, <2>2, <3>1, MeasureFits
    <3>2. CASE Sum(r)
      BY <1>5, <2>2, <3>2, SumFits
    <3>3. CASE Unreachable(r)
      <4>1. readings'[r] = [Reading EXCEPT !.state = "unreachable"]
        BY <1>2, <3>3 DEF Unreachable
      <4> QED
        BY <4>1, NewReading
    <3> QED
      BY <1>5, <3>1, <3>2, <3>3
  <2>4. \A d \in Range(readings)' : d \in Range(readings) \/ d = readings'[r]
    BY <2>1 DEF Range
  <2> QED
    BY <2>1, <2>3, <2>4, ReadingsRest DEF ReportInv
<1>6. CASE ChainsMove
  <2>1. ASSUME NEW r \in DOMAIN readings, NEW e, e = readings'[r]
        PROVE  ReadingFits(e)'
    <3>1. CASE Running(r)
      <4>1. e = [readings[r] EXCEPT !.figures.moved = Noticed(r)]
        BY <1>6, <2>1, <3>1 DEF ChainsMove
      <4> QED
        BY <1>2, <3>1, <4>1, NoticedFits
    <3>2. CASE ~Running(r)
      <4>1. e = readings[r] /\ e.state # "running"
        BY <1>6, <2>1, <3>2 DEF ChainsMove, Running
      <4>2. ReadingFits(e)
        BY <1>2, <4>1
      <4> QED
        BY <4>1, <4>2 DEF ReadingFits
    <3> QED
      BY <3>1, <3>2
  <2>2. DOMAIN readings' = DOMAIN readings
    BY <1>6 DEF ChainsMove
  <2> QED
    BY <2>1, <2>2 DEF ReportInv, Range
<1>7. CASE Visit
  BY <1>4, <1>7 DEF Visit
<1>8. CASE Tick
  BY <1>4, <1>8 DEF Tick
<1>9. CASE Expire
  BY <1>3, <1>9 DEF Expire
<1>10. ASSUME NEW r, Answered(r) \/ FetchFails(r)
       PROVE  ReportInv'
  BY <1>3, <1>10 DEF Answered, FetchFails
<1>11. CASE UNCHANGED <<vars, reportVars>>
  BY <1>3, <1>11 DEF reportVars
<1> QED
  BY <1>5, <1>6, <1>7, <1>8, <1>9, <1>10, <1>11 DEF LiveNext

(***************************************************************************)
(* No measurement that a chain does not move below denies what exists, and *)
(* what it says is in flight is what is in flight if nothing moves: for    *)
(* any chains in any order, any amounts and decimals, adapted assets or    *)
(* launched ones, and whatever the swaps do between a measurement's calls. *)
(***************************************************************************)
THEOREM ReportsAddUp ==
  ReportSpec => []MeasuredWhole
<1> DEFINE Inv == StockInv /\ PageInv /\ ReportInv
<1>1. LiveInit => Inv
  <2> SUFFICES ASSUME LiveInit
               PROVE  Inv
    OBVIOUS
  <2>1. StockInv
    BY StockAtStart DEF LiveInit
  <2>2. IsList(readings, 0)
    BY DEF LiveInit, IsList
  <2>3. PageInv
    BY <2>2 DEF LiveInit, PageInv
  <2>4. ReportInv
    BY DEF LiveInit, ReportInv, Range
  <2> QED
    BY <2>1, <2>3, <2>4
<1>2. Inv /\ [LiveNext]_<<vars, reportVars>> => Inv'
  <2> SUFFICES ASSUME Inv, [LiveNext]_<<vars, reportVars>>
               PROVE  Inv'
    OBVIOUS
  <2>1. [Next]_vars
    <3>1. CASE UNCHANGED <<vars, reportVars>>
      BY <3>1
    <3>2. CASE ChainsMove
      BY <3>2 DEF ChainsMove
    <3>3. CASE Visit \/ Expire \/ Tick
      BY <3>3 DEF Visit, Expire, Tick
    <3>4. CASE \E r \in DOMAIN readings : Measure(r) \/ Sum(r) \/ Unreachable(r)
      BY <3>4 DEF Measure, Sum, Unreachable
    <3>5. CASE \E r \in 1..MaxReadings : Answered(r) \/ FetchFails(r)
      BY <3>5 DEF Answered, FetchFails
    <3> QED
      BY <3>1, <3>2, <3>3, <3>4, <3>5 DEF LiveNext
  <2>2. StockInv'
    BY <2>1, StepKeepsStock
  <2>3. PageInv'
    BY PageInvKept
  <2>4. ReportInv'
    BY ReportInvKept
  <2> QED
    BY <2>2, <2>3, <2>4
<1>3. Inv => MeasuredWhole
  <2> SUFFICES ASSUME Inv
               PROVE  MeasuredWhole
    OBVIOUS
  <2>1. \A r \in DOMAIN readings : ReadingFits(readings[r])
    BY DEF ReportInv, Range
  <2>2. NeverDenied
    BY <2>1 DEF NeverDenied, ReadingFits
  <2>3. ASSUME NEW r \in DOMAIN readings, Summed(r), readings[r].figures.moved = "no"
        PROVE  readings[r].figures.flow = InFlight(NextCall(r).token) * Finest[NextCall(r).token]
    <3>1. PICK d, c, f : d = readings[r] /\ c = d.next /\ f = d.figures
      OBVIOUS
    <3>2. /\ IsCall(c) /\ c.what = "sum" /\ FlowFits(f, c)
      BY <2>1, <2>3, <3>1 DEF ReadingFits, Readings, Calls, Summed, Running, NextCall
    <3>3. f.flow = InFlight(c.token) * Finest[c.token]
      BY <3>2, LastFlow
    <3> QED
      BY <3>1, <3>3 DEF NextCall
  <2> QED
    BY <2>2, <2>3 DEF MeasuredWhole, FlightIsSeen
<1> QED
  BY <1>1, <1>2, <1>3, PTL DEF ReportSpec

-----------------------------------------------------------------------------
(***************************************************************************)
(* The home chain, as the mirrors see it.  An order is owed an answer      *)
(* while its packet may still be executed, waits in a compose or is held   *)
(* by a Stranded account (StillOwed); a step of the home chain answers one *)
(* of them, announces a strand, kills one, pays a transfer out, or does    *)
(* nothing a mirror could tell.  That takes an invariant: a nonce of a     *)
(* path is used once, what is queued or held is dead for the endpoint and  *)
(* held once, and every notice has used up one message.                    *)
(***************************************************************************)

(* A path and a nonce name one packet, of those its path has given out,    *)
(* and the endpoint has gone and verified none beyond.                     *)
NoncesOrdered ==
  /\ \A p \in orders \cup queue : p.nonce \in 1..outNonce[p.m][p.t]
  /\ \A p, q \in orders \cup queue :
       p.m = q.m /\ p.t = q.t /\ p.nonce = q.nonce => p = q
  /\ \A m \in Mirrors, t \in Tokens :
       inbound[m][t] <= outNonce[m][t] /\ outNonce[m][t] <= MaxNonce
  /\ \A m \in Mirrors, t \in Tokens : \A n \in verified[m][t] : n <= outNonce[m][t]

(* What waits in a compose will not be executed by the endpoint again.     *)
QueuedDead == \A p \in queue : Dead(p.m, p.t, p.nonce)

(* What an order sent says what its request says.                          *)
PacketsMatch ==
  \A p \in orders \cup queue : p.id # 0 =>
    requests[p.m][p.id].status # "NONE" /\ p = OrderOf(p.m, p.id)

(* A Stranded account holds the input of an order that is nowhere else.    *)
HoldsOrder(s) ==
  /\ requests[s.m][s.id].status # "NONE"
  /\ PacketOf(s) = OrderOf(s.m, s.id)
  /\ Dead(s.m, s.mint, PacketOf(s).nonce)
  /\ s.amount = ToLocal(s.amountSd, HomeQuantum[s.mint])

StrandsMatch ==
  /\ \A s \in strandeds : HoldsOrder(s)
  /\ \A s \in strandeds, p \in queue : p.m # s.m \/ p.id # s.id
  /\ \A s, r \in strandeds : s.m = r.m /\ s.id = r.id => s = r

(* The messages of mirror m's paths that wait for nothing any more.        *)
Handled(m) ==
  {k \in Tokens \X (1..MaxNonce) :
     /\ k[2] <= outNonce[m][k[1]]
     /\ \A p \in Alive \cup queue : ~(p.m = m /\ p.t = k[1] /\ p.nonce = k[2])}

(* Each of them had one notice at most.                                    *)
NoticesCounted == \A m \in Mirrors : noticeNonce[m] <= Cardinality(Handled(m))

OrdersOwed ==
  NoncesOrdered /\ QueuedDead /\ PacketsMatch /\ StrandsMatch /\ NoticesCounted

OwedInv == StockInv /\ OrdersOwed

(* What the invariant says of types.                                       *)
LEMMA OwedTypes ==
  ASSUME OwedInv
  PROVE  /\ MirrorInv /\ MirrorTypeOK /\ WireTypeOK /\ SolanaRelayTypeOK
         /\ PathTypes /\ AccountsAhead
         /\ NoncesOrdered /\ QueuedDead /\ PacketsMatch /\ StrandsMatch /\ NoticesCounted
         /\ outNonce \in [Mirrors -> [Tokens -> Nat]]
         /\ noticeNonce \in [Mirrors -> Nat]
         /\ inbound \in [Mirrors -> [Tokens -> Nat]]
         /\ verified \in [Mirrors -> [Tokens -> SUBSET Nat]]
BY DEF OwedInv, OrdersOwed, StockInv, PathInv, PathTypes, MirrorInv, MirrorTypeOK, WireTypeOK

(* Orders and what is queued name mirrors, assets and requests;            *)
LEMMA PacketFields ==
  ASSUME OwedInv, NEW p \in orders \cup queue
  PROVE  /\ p \in OrderPacket
         /\ p.m \in Mirrors /\ p.t \in Tokens /\ p.nonce \in Nat /\ p.id \in Ids \cup {0}
         /\ p.sd \in Nat /\ p.min \in Nat
         /\ p \in queue => p.id # 0
<1>1. p \in OrderPacket /\ (p \in queue => p.id # 0)
  BY OwedTypes DEF WireTypeOK, SolanaRelayTypeOK, SolanaEndpointTypeOK
<1> QED
  BY <1>1 DEF OrderPacket

(* and so do the Stranded accounts.                                        *)
LEMMA StrandFields ==
  ASSUME OwedInv, NEW s \in strandeds
  PROVE  /\ s.m \in Mirrors /\ s.id \in Ids /\ s.id # 0 /\ s.mint \in Tokens
         /\ s.amountSd \in Nat
         /\ PacketOf(s).m = s.m /\ PacketOf(s).t = s.mint /\ PacketOf(s).id = s.id
         /\ PacketOf(s).sd = s.amountSd /\ PacketOf(s).nonce = requests[s.m][s.id].lzNonce
         /\ PacketOf(s).nonce \in Nat /\ PacketOf(s).min \in Nat
<1>1. s \in Stranded
  BY OwedTypes DEF SolanaRelayTypeOK
<1>2. /\ s.m \in Mirrors /\ s.id \in Ids /\ s.mint \in Tokens /\ s.amountSd \in Nat
      /\ s.id # 0
  BY <1>1 DEF Stranded, Ids
<1>3. requests[s.m][s.id] \in Request
  BY <1>2, OwedTypes DEF MirrorTypeOK, RequestTypeOK
<1>4. PICK a, q : /\ a = requests[s.m][s.id].minAmountOut
                  /\ q = MirrorQuantum[s.m][TokenOut(requests[s.m][s.id].dir)]
  OBVIOUS
<1>5. a \in Nat /\ q \in Nat \ {0} /\ requests[s.m][s.id].lzNonce \in Nat
  <2>1. TokenOut(requests[s.m][s.id].dir) \in Tokens
    BY DEF TokenOut, Tokens
  <2> QED
    BY <1>2, <1>3, <1>4, <2>1, WireAssumption DEF Request
<1>6. FloorToShared(a, q) \in Nat
  <2>1. a \div q \in Nat
    BY <1>5
  <2> QED
    BY <2>1 DEF FloorToShared
<1> QED
  BY <1>2, <1>4, <1>5, <1>6 DEF PacketOf

-----------------------------------------------------------------------------
(* What is owed, one by one.                                               *)
LEMMA OwedOnes ==
  ASSUME NEW p
  PROVE  p \in StillOwed <=>
           p \in Alive \/ p \in queue \/ \E s \in strandeds : p = PacketOf(s)
BY DEF StillOwed

(* And after a step that keeps the requests.                               *)
LEMMA OwedAfter ==
  ASSUME \A s \in strandeds' : PacketOf(s)' = PacketOf(s), NEW p
  PROVE  p \in StillOwed' <=>
           p \in Alive' \/ p \in queue' \/ \E s \in strandeds' : p = PacketOf(s)
<1>1. StillOwed' = Alive' \cup queue' \cup {PacketOf(s)' : s \in strandeds'}
  BY DEF StillOwed
<1> QED
  BY <1>1

(* What can still be executed neither waits in a compose nor is held.      *)
LEMMA AliveAlone ==
  ASSUME OwedInv, NEW p \in Alive
  PROVE  /\ p \notin queue
         /\ \A s \in strandeds : p # PacketOf(s)
BY OwedTypes, StrandFields DEF Alive, QueuedDead, StrandsMatch, HoldsOrder

(* What waits in a compose is in one, and not held.                        *)
LEMMA QueuedOnce ==
  ASSUME OwedInv, NEW p \in queue
  PROVE  /\ p \notin Alive
         /\ p = OrderOf(p.m, p.id) /\ requests[p.m][p.id].status # "NONE"
         /\ \A q \in queue : q.m = p.m /\ q.id = p.id => q = p
         /\ \A s \in strandeds : p # PacketOf(s)
<1>1. p \notin Alive
  BY AliveAlone
<1>2. \A q \in queue : q = OrderOf(q.m, q.id) /\ requests[q.m][q.id].status # "NONE"
  BY OwedTypes, PacketFields DEF PacketsMatch
<1>3. \A s \in strandeds : p # PacketOf(s)
  BY OwedTypes, StrandFields DEF StrandsMatch
<1> QED
  BY <1>1, <1>2, <1>3

(* A message that waits has a place of its own among those of its mirror.  *)
LEMMA PlaceOf ==
  ASSUME OwedInv, NEW p \in Alive \cup queue
  PROVE  /\ <<p.t, p.nonce>> \in Tokens \X (1..MaxNonce)
         /\ p.nonce <= outNonce[p.m][p.t]
         /\ <<p.t, p.nonce>> \notin Handled(p.m)
<1>1. p \in orders \cup queue
  BY DEF Alive
<1>2. /\ p.m \in Mirrors /\ p.t \in Tokens /\ p.nonce \in 1..outNonce[p.m][p.t]
      /\ outNonce[p.m][p.t] \in Nat /\ outNonce[p.m][p.t] <= MaxNonce /\ MaxNonce \in Nat
  BY <1>1, PacketFields, OwedTypes, WireAssumption DEF NoncesOrdered
<1>3. p.nonce \in 1..MaxNonce /\ p.nonce <= outNonce[p.m][p.t]
  BY <1>2
<1>4. <<p.t, p.nonce>>[1] = p.t /\ <<p.t, p.nonce>>[2] = p.nonce
  OBVIOUS
<1>5. <<p.t, p.nonce>> \notin Handled(p.m)
  BY <1>4 DEF Handled
<1> QED
  BY <1>2, <1>3, <1>5

(* What is handled on two moments, counted.                                *)
LEMMA HandledCounts ==
  ASSUME NEW m
  PROVE  /\ Cardinality(Handled(m)) \in Nat /\ Cardinality(Handled(m)') \in Nat
         /\ Handled(m) \subseteq Handled(m)' => Cardinality(Handled(m)) <= Cardinality(Handled(m)')
<1>1. /\ Handled(m) \subseteq Tokens \X (1..MaxNonce)
      /\ Handled(m)' \subseteq Tokens \X (1..MaxNonce)
  BY DEF Handled
<1>2. PICK S, T : S = Handled(m) /\ T = Handled(m)'
  OBVIOUS
<1>3. /\ IsFiniteSet(S) /\ IsFiniteSet(T) /\ Cardinality(S) \in Nat /\ Cardinality(T) \in Nat
  BY <1>1, <1>2, PathSlots
<1>4. S \subseteq T => Cardinality(S) <= Cardinality(T)
  BY <1>3, FS_Subset
<1> QED
  BY <1>2, <1>3, <1>4

(* While a message waits, the mirror may have a notice of it.              *)
LEMMA NoticeToSpare ==
  ASSUME OwedInv, NEW p \in Alive \cup queue
  PROVE  noticeNonce[p.m] < NoticeLimit
<1>1. p.m \in Mirrors /\ noticeNonce[p.m] \in Nat /\ MaxNonce \in Nat /\ NoticeLimit \in Nat
  BY PacketFields, OwedTypes, WireAssumption, PromiseAssumption DEF Alive
<1>2. PICK k, S : k = <<p.t, p.nonce>> /\ S = Handled(p.m)
  OBVIOUS
<1>3. /\ S \subseteq Tokens \X (1..MaxNonce) /\ S \cup {k} \subseteq Tokens \X (1..MaxNonce)
      /\ k \notin S
  BY <1>2, PlaceOf DEF Handled
<1>4. IsFiniteSet(S) /\ Cardinality(S) \in Nat
  BY <1>3, PathSlots
<1>5. Cardinality(S \cup {k}) = Cardinality(S) + 1
  BY <1>3, <1>4, FS_AddElement
<1>6. Cardinality(S \cup {k}) <= 2 * MaxNonce
  BY <1>3, PathSlots
<1>7. noticeNonce[p.m] <= Cardinality(S)
  BY <1>1, <1>2, OwedTypes DEF NoticesCounted
<1>8. 2 * MaxNonce <= NoticeLimit
  BY SolanaBoundsAssumption
<1> QED
  BY <1>1, <1>4, <1>5, <1>6, <1>7, <1>8

-----------------------------------------------------------------------------
(***************************************************************************)
(* What a step of the endpoint program may kill: only messages of one path *)
(* with a nonce of a set; and it stays among those the path has given out. *)
(***************************************************************************)
KillsOnly(a, b, gone) ==
  /\ \A m \in Mirrors, t \in Tokens, k \in Nat :
       Dead(m, t, k)' => Dead(m, t, k) \/ (m = a /\ t = b /\ k \in gone)
  /\ \A m \in Mirrors, t \in Tokens :
       /\ inbound'[m][t] <= outNonce[m][t]
       /\ \A n \in verified'[m][t] : n <= outNonce[m][t]

(* A nonce that goes over what is verified or gone, and verified hashes    *)
(* that stay unless they are gone.                                         *)
LEMMA PathKillsOnly ==
  ASSUME PathTypes, NoncesOrdered, NEW a \in Mirrors, NEW b \in Tokens,
         NEW at \in Nat, NEW done \in SUBSET Nat, NEW gone \in SUBSET Nat,
         inbound' = [inbound EXCEPT ![a][b] = at],
         verified' = [verified EXCEPT ![a][b] = done],
         \A k \in (inbound[a][b] + 1)..at : k \in done \cup gone,
         \A k \in verified[a][b] : k \in done \cup gone,
         \A k \in done \cup gone : k <= outNonce[a][b]
  PROVE  KillsOnly(a, b, gone)
<1>1. /\ inbound \in [Mirrors -> [Tokens -> Nat]]
      /\ verified \in [Mirrors -> [Tokens -> SUBSET Nat]]
      /\ outNonce \in [Mirrors -> [Tokens -> Nat]]
  BY DEF PathTypes
<1>2. \A m \in Mirrors, t \in Tokens :
        IF m = a /\ t = b
        THEN inbound'[m][t] = at /\ verified'[m][t] = done
        ELSE inbound'[m][t] = inbound[m][t] /\ verified'[m][t] = verified[m][t]
  BY <1>1
<1>3. PICK from \in Nat, out \in Nat : from = inbound[a][b] /\ out = outNonce[a][b] /\ from <= out
  BY <1>1 DEF NoncesOrdered
<1>4. at <= out
  <2>1. CASE at <= from
    BY <1>3, <2>1
  <2>2. CASE at > from
    <3>1. at \in (from + 1)..at
      BY <2>2
    <3> QED
      BY <1>3, <3>1
  <2> QED
    BY <1>3, <2>1, <2>2
<1>5. ASSUME NEW m \in Mirrors, NEW t \in Tokens
      PROVE  /\ inbound'[m][t] <= outNonce[m][t]
             /\ \A n \in verified'[m][t] : n <= outNonce[m][t]
  <2>1. CASE m = a /\ t = b
    BY <1>2, <1>3, <1>4, <2>1
  <2>2. CASE ~(m = a /\ t = b)
    BY <1>2, <2>2 DEF NoncesOrdered
  <2> QED
    BY <2>1, <2>2
<1>6. ASSUME NEW m \in Mirrors, NEW t \in Tokens, NEW k \in Nat, Dead(m, t, k)'
      PROVE  Dead(m, t, k) \/ (m = a /\ t = b /\ k \in gone)
  <2>1. CASE m = a /\ t = b
    <3>1. k <= at /\ k \notin done
      BY <1>2, <1>6, <2>1 DEF Dead
    <3>2. CASE k <= from
      BY <1>3, <2>1, <3>1, <3>2 DEF Dead
    <3>3. CASE k > from
      <4>1. k \in (from + 1)..at
        BY <3>1, <3>3
      <4> QED
        BY <1>3, <2>1, <3>1, <4>1
    <3> QED
      BY <1>3, <3>2, <3>3
  <2>2. CASE ~(m = a /\ t = b)
    BY <1>2, <1>6, <2>2 DEF Dead
  <2> QED
    BY <2>1, <2>2
<1> QED
  BY <1>5, <1>6 DEF KillsOnly

(* An account for a message to come kills nothing.                         *)
LEMMA InitKillsNothing ==
  ASSUME OwedInv, NEW m \in Mirrors, NEW t \in Tokens, NEW n \in Nat, InitVerify(m, t, n)
  PROVE  EndpointKeeps /\ KillsOnly(m, t, {})
<1>1. EndpointKeeps
  BY OwedTypes, InitKeeps
<1>2. inbound' = inbound /\ verified' = verified
  BY DEF InitVerify
<1>3. KillsOnly(m, t, {})
  BY <1>2, OwedTypes DEF KillsOnly, Dead, NoncesOrdered
<1> QED
  BY <1>1, <1>3

(* A verification kills nothing: what the nonce goes over is verified.     *)
LEMMA VerifyKillsNothing ==
  ASSUME OwedInv, NEW p \in orders, Verify(p)
  PROVE  EndpointKeeps /\ KillsOnly(p.m, p.t, {})
<1>0. EndpointKeeps
  BY OwedTypes, VerifyKeeps
<1>1. PICK m \in Mirrors, t \in Tokens, n \in Nat :
        p.m = m /\ p.t = t /\ p.nonce = n /\ n <= outNonce[m][t]
  BY OwedTypes, PacketFields DEF NoncesOrdered
<1> DEFINE from == inbound[m][t]
           done == verified[m][t] \cup {n}
           at   == Advanced(from, done)
<1>2. from \in Nat /\ done \in SUBSET Nat /\ \A k \in done : k <= outNonce[m][t]
  BY <1>1, OwedTypes DEF NoncesOrdered
<1>3. at \in Nat /\ \A k \in (from + 1)..at : k \in done
  BY <1>2, PassesOver
<1>4. /\ inbound' = [inbound EXCEPT ![m][t] = at]
      /\ verified' = [verified EXCEPT ![m][t] = done]
  BY <1>1, OwedTypes DEF Verify
<1>5. \A k \in verified[m][t] : k \in done
  OBVIOUS
<1> HIDE DEF at, done
<1>6. {} \in SUBSET Nat /\ done \cup {} = done
  OBVIOUS
<1>7. KillsOnly(m, t, {})
  BY <1>2, <1>3, <1>4, <1>5, <1>6, OwedTypes, PathKillsOnly
<1> QED
  BY <1>0, <1>1, <1>7

(* What is executed was alive, and nothing else dies.                      *)
LEMMA ReceiveKillsOne ==
  ASSUME OwedInv, NEW p \in orders, ReceiveOrder(p)
  PROVE  /\ EndpointKeeps /\ KillsOnly(p.m, p.t, {p.nonce})
         /\ p \in Alive /\ Dead(p.m, p.t, p.nonce)'
<1>0. EndpointKeeps /\ p \in Alive
  BY OwedTypes, ReceiveKeeps DEF Alive
<1>1. PICK m \in Mirrors, t \in Tokens, n \in Nat :
        p.m = m /\ p.t = t /\ p.nonce = n /\ n <= outNonce[m][t]
  BY OwedTypes, PacketFields DEF NoncesOrdered
<1> DEFINE at   == inbound[m][t]
           done == verified[m][t] \ {n}
           gone == {n}
<1>2. at \in Nat /\ done \in SUBSET Nat /\ gone \in SUBSET Nat
  BY <1>1, OwedTypes
<1>3. /\ inbound' = [inbound EXCEPT ![m][t] = at]
      /\ verified' = [verified EXCEPT ![m][t] = done]
      /\ n <= at
  BY <1>1, OwedTypes DEF ReceiveOrder
<1>4. /\ \A k \in (inbound[m][t] + 1)..at : k \in done \cup gone
      /\ \A k \in verified[m][t] : k \in done \cup gone
      /\ \A k \in done \cup gone : k <= outNonce[m][t]
  BY <1>1, <1>2, OwedTypes DEF NoncesOrdered
<1>5. Dead(m, t, n)'
  BY <1>1, <1>3, OwedTypes DEF Dead
<1> HIDE DEF at, done, gone
<1>6. KillsOnly(m, t, gone)
  BY <1>2, <1>3, <1>4, OwedTypes, PathKillsOnly
<1> QED
  BY <1>0, <1>1, <1>5, <1>6 DEF gone

(* A skip kills the next message to come, and nothing else.                *)
LEMMA SkipKillsOne ==
  ASSUME OwedInv, NEW m \in Mirrors, NEW t \in Tokens, NEW n \in Nat, Skip(m, t, n),
         n <= outNonce[m][t]
  PROVE  /\ EndpointKeeps /\ KillsOnly(m, t, {n})
         /\ ~Dead(m, t, n) /\ Dead(m, t, n)'
<1>0. EndpointKeeps /\ Dead(m, t, n)'
  BY OwedTypes, SkipKills
<1> DEFINE done == verified[m][t]
           at   == Advanced(n, done)
           gone == {n}
<1>1. /\ n = inbound[m][t] + 1 /\ inbound[m][t] \in Nat
      /\ done \in SUBSET Nat /\ gone \in SUBSET Nat
  BY OwedTypes DEF Skip
<1>2. at \in Nat /\ \A k \in (n + 1)..at : k \in done
  BY <1>1, PassesOver
<1>3. /\ inbound' = [inbound EXCEPT ![m][t] = at]
      /\ verified' = [verified EXCEPT ![m][t] = done]
  BY OwedTypes DEF Skip
<1> HIDE DEF at
<1>4. /\ \A k \in (inbound[m][t] + 1)..at : k \in done \cup gone
      /\ \A k \in verified[m][t] : k \in done \cup gone
      /\ \A k \in done \cup gone : k <= outNonce[m][t]
  BY <1>1, <1>2, OwedTypes DEF NoncesOrdered
<1>5. ~Dead(m, t, n)
  BY <1>1 DEF Dead
<1> HIDE DEF done, gone
<1>6. KillsOnly(m, t, gone)
  BY <1>1, <1>2, <1>3, <1>4, OwedTypes, PathKillsOnly
<1> QED
  BY <1>0, <1>5, <1>6 DEF gone

(* A burn kills a verified message, and nothing else.                      *)
LEMMA BurnKillsOne ==
  ASSUME OwedInv, NEW m \in Mirrors, NEW t \in Tokens, NEW n \in Nat, BurnHash(m, t, n),
         n <= outNonce[m][t]
  PROVE  /\ EndpointKeeps /\ KillsOnly(m, t, {n})
         /\ ~Dead(m, t, n) /\ Dead(m, t, n)'
<1>0. EndpointKeeps /\ Dead(m, t, n)'
  BY OwedTypes, BurnKills
<1> DEFINE at   == inbound[m][t]
           done == verified[m][t] \ {n}
           gone == {n}
<1>1. at \in Nat /\ done \in SUBSET Nat /\ gone \in SUBSET Nat
  BY OwedTypes
<1>2. /\ inbound' = [inbound EXCEPT ![m][t] = at]
      /\ verified' = [verified EXCEPT ![m][t] = done]
  BY OwedTypes DEF BurnHash
<1>3. /\ \A k \in (inbound[m][t] + 1)..at : k \in done \cup gone
      /\ \A k \in verified[m][t] : k \in done \cup gone
      /\ \A k \in done \cup gone : k <= outNonce[m][t]
  BY <1>1, OwedTypes DEF NoncesOrdered
<1>4. ~Dead(m, t, n)
  BY DEF Dead, BurnHash
<1> HIDE DEF at, done, gone
<1>5. KillsOnly(m, t, gone)
  BY <1>1, <1>2, <1>3, OwedTypes, PathKillsOnly
<1> QED
  BY <1>0, <1>4, <1>5 DEF gone

(* So what is alive stays so,                                              *)
LEMMA AllStayAlive ==
  ASSUME OwedInv, EndpointKeeps, NEW a, NEW b, KillsOnly(a, b, {}), orders' = orders
  PROVE  Alive' = Alive
<1>1. \A p \in orders : Dead(p.m, p.t, p.nonce)' <=> Dead(p.m, p.t, p.nonce)
  BY PacketFields DEF EndpointKeeps, KillsOnly
<1> QED
  BY <1>1 DEF Alive

(* or all but one.                                                         *)
LEMMA OneDies ==
  ASSUME OwedInv, EndpointKeeps, NEW p \in Alive, KillsOnly(p.m, p.t, {p.nonce}),
         Dead(p.m, p.t, p.nonce)', orders' = orders \/ orders' = orders \ {p}
  PROVE  Alive' = Alive \ {p}
<1>1. p \in orders
  BY DEF Alive
<1>2. \A q \in orders : q # p =>
        (Dead(q.m, q.t, q.nonce)' <=> Dead(q.m, q.t, q.nonce))
  BY <1>1, PacketFields, OwedTypes DEF EndpointKeeps, KillsOnly, NoncesOrdered
<1>3. p \notin Alive'
  BY DEF Alive
<1> QED
  BY <1>2, <1>3 DEF Alive

-----------------------------------------------------------------------------
(***************************************************************************)
(* A step of the home chain, as the invariant sees it: it sends no order   *)
(* and revives none, queues what can no longer be executed, opens accounts *)
(* for composes it consumes, and a notice costs a message that waited.     *)
(***************************************************************************)
Opens(p) ==
  /\ p \in queue /\ p \notin queue'
  /\ \A s \in strandeds : s.m # p.m \/ s.id # p.id
  /\ strandeds' = strandeds \cup {StrandedAccount(p)}

HomeFits ==
  /\ UNCHANGED <<requests, outNonce>>
  /\ EndpointKeeps
  /\ \A m \in Mirrors, t \in Tokens :
       /\ inbound'[m][t] <= outNonce[m][t]
       /\ \A n \in verified'[m][t] : n <= outNonce[m][t]
  /\ orders' \subseteq orders /\ Alive' \subseteq Alive
  /\ \A p \in queue' : p \in queue \/ (p \in Alive /\ Dead(p.m, p.t, p.nonce)')
  /\ strandeds' \subseteq strandeds \/ \E p : Opens(p) /\ queue' \subseteq queue
  /\ \A m \in Mirrors :
       \/ noticeNonce'[m] = noticeNonce[m]
       \/ /\ noticeNonce'[m] = noticeNonce[m] + 1
          /\ \E p \in Alive \cup queue : p.m = m /\ p \notin Alive' \cup queue'

(* What the home chain has handled stays handled, and a message that waits *)
(* no more is handled now.                                                 *)
LEMMA HandledGrows ==
  ASSUME OwedInv, HomeFits, NEW m
  PROVE  /\ Handled(m) \subseteq Handled(m)'
         /\ \A p \in Alive \cup queue : p.m = m /\ p \notin Alive' \cup queue' =>
              Cardinality(Handled(m)) + 1 <= Cardinality(Handled(m)')
<1>0. Alive' \cup queue' \subseteq Alive \cup queue /\ outNonce' = outNonce
  BY DEF HomeFits
<1>1. Handled(m) \subseteq Handled(m)'
  BY <1>0 DEF Handled
<1>2. ASSUME NEW p \in Alive \cup queue, p.m = m, p \notin Alive' \cup queue'
      PROVE  Cardinality(Handled(m)) + 1 <= Cardinality(Handled(m)')
  <2>1. PICK k : k = <<p.t, p.nonce>>
    OBVIOUS
  <2>2. /\ k \in Tokens \X (1..MaxNonce) /\ k[1] = p.t /\ k[2] = p.nonce
        /\ k[2] <= outNonce[m][k[1]] /\ k \notin Handled(m)
    BY <1>2, <2>1, PlaceOf
  <2>3. \A q \in Alive' \cup queue' : ~(q.m = m /\ q.t = k[1] /\ q.nonce = k[2])
    <3> SUFFICES ASSUME NEW q \in Alive' \cup queue', q.m = m, q.t = k[1], q.nonce = k[2]
                 PROVE  FALSE
      OBVIOUS
    <3>1. q \in orders \cup queue /\ p \in orders \cup queue
      BY <1>0 DEF Alive
    <3>2. q = p
      BY <1>2, <2>2, <3>1, OwedTypes DEF NoncesOrdered
    <3> QED
      BY <1>2, <3>2
  <2>4. k \in Handled(m)'
    BY <1>0, <2>2, <2>3 DEF Handled
  <2>5. PICK S, T : S = Handled(m) /\ T = Handled(m)'
    OBVIOUS
  <2>6. S \cup {k} \subseteq T /\ k \notin S
    BY <1>1, <2>2, <2>4, <2>5
  <2>7. S \subseteq Tokens \X (1..MaxNonce) /\ T \subseteq Tokens \X (1..MaxNonce)
    BY <2>5 DEF Handled
  <2>8. IsFiniteSet(S) /\ IsFiniteSet(T) /\ Cardinality(S) \in Nat
    BY <2>7, PathSlots
  <2>9. Cardinality(S \cup {k}) = Cardinality(S) + 1
    BY <2>6, <2>8, FS_AddElement
  <2>10. Cardinality(S \cup {k}) <= Cardinality(T)
    BY <2>6, <2>8, FS_Subset
  <2> QED
    BY <2>5, <2>9, <2>10
<1> QED
  BY <1>1, <1>2

(* The account opened for a compose says what its order said.              *)
LEMMA AccountOfOrder ==
  ASSUME OwedInv, NEW p \in queue
  PROVE  /\ PacketOf(StrandedAccount(p)) = p
         /\ HoldsOrder(StrandedAccount(p))
         /\ StrandedAccount(p).m = p.m /\ StrandedAccount(p).id = p.id
<1>1. PICK s : s = StrandedAccount(p)
  OBVIOUS
<1>2. /\ s.m = p.m /\ s.id = p.id /\ s.mint = p.t /\ s.amount = InputOf(p)
      /\ s.amountSd = p.sd /\ s.recipient = p.user
  BY <1>1 DEF StrandedAccount
<1>3. PICK r : r = requests[p.m][p.id]
  OBVIOUS
<1>4. p = OrderOf(p.m, p.id) /\ r.status # "NONE"
  BY <1>3, QueuedOnce
<1>5. /\ p.t = TokenIn(r.dir) /\ p.nonce = r.lzNonce /\ p.user = r.user
      /\ p.sd = ToShared(r.amountIn, MirrorQuantum[p.m][TokenIn(r.dir)])
  BY <1>3, <1>4 DEF OrderOf
<1>6. PacketOf(s) = OrderOf(p.m, p.id)
  BY <1>2, <1>3, <1>5 DEF PacketOf, OrderOf
<1>7. Dead(s.m, s.mint, PacketOf(s).nonce)
  BY <1>2, <1>4, <1>6, OwedTypes DEF QueuedDead
<1>8. HoldsOrder(s)
  BY <1>2, <1>3, <1>4, <1>6, <1>7 DEF HoldsOrder, InputOf
<1> QED
  BY <1>1, <1>2, <1>4, <1>6, <1>8

(* A step of that kind keeps the invariant.                                *)
LEMMA FittingKeeps ==
  ASSUME OwedInv, WireTypeOK', HomeFits
  PROVE  OrdersOwed'
<1>0. /\ requests' = requests /\ outNonce' = outNonce
      /\ orders' \cup queue' \subseteq orders \cup queue
      /\ \A m, i : OrderOf(m, i)' = OrderOf(m, i)
      /\ \A s : PacketOf(s)' = PacketOf(s)
  BY DEF HomeFits, OrderOf, PacketOf, Alive
<1>1. NoncesOrdered'
  BY <1>0, OwedTypes DEF HomeFits, NoncesOrdered
<1>2. QueuedDead'
  BY PacketFields, OwedTypes DEF HomeFits, EndpointKeeps, QueuedDead
<1>3. PacketsMatch'
  BY <1>0, OwedTypes DEF PacketsMatch
<1>4. \A s : HoldsOrder(s) /\ s.m \in Mirrors /\ s.mint \in Tokens /\ PacketOf(s).nonce \in Nat
               => HoldsOrder(s)'
  BY <1>0 DEF HoldsOrder, HomeFits, EndpointKeeps
<1>5. \A s \in strandeds : HoldsOrder(s)'
  BY <1>4, OwedTypes, StrandFields DEF StrandsMatch
<1>6. \A s \in strandeds, p \in queue' : p.m # s.m \/ p.id # s.id
  <2> SUFFICES ASSUME NEW s \in strandeds, NEW p \in queue', p.m = s.m, p.id = s.id
               PROVE  FALSE
    OBVIOUS
  <2>1. p \notin queue
    BY OwedTypes DEF StrandsMatch
  <2>2. p \in Alive
    BY <2>1 DEF HomeFits
  <2>3. p.id # 0 /\ p \in orders
    BY <2>2, StrandFields DEF Alive
  <2>4. p = OrderOf(s.m, s.id)
    BY <2>3, OwedTypes DEF PacketsMatch
  <2>5. p = PacketOf(s)
    BY <2>4, OwedTypes DEF StrandsMatch, HoldsOrder
  <2> QED
    BY <2>2, <2>5, AliveAlone
<1>7. StrandsMatch'
  <2>1. CASE strandeds' \subseteq strandeds
    BY <1>5, <1>6, <2>1, OwedTypes DEF StrandsMatch
  <2>2. ASSUME NEW p, Opens(p), queue' \subseteq queue
        PROVE  StrandsMatch'
    <3>1. PICK o : o = StrandedAccount(p)
      OBVIOUS
    <3>2. p \in queue /\ p \notin queue' /\ strandeds' = strandeds \cup {o}
      BY <2>2, <3>1 DEF Opens
    <3>3. HoldsOrder(o) /\ o.m = p.m /\ o.id = p.id /\ o.mint = p.t /\ PacketOf(o) = p
      BY <3>1, <3>2, AccountOfOrder DEF StrandedAccount
    <3>4. HoldsOrder(o)'
      BY <1>4, <3>2, <3>3, PacketFields
    <3>5. \A q \in queue' : q.m # o.m \/ q.id # o.id
      BY <2>2, <3>2, <3>3, QueuedOnce
    <3>6. \A s \in strandeds : s.m # o.m \/ s.id # o.id
      BY <2>2, <3>3 DEF Opens
    <3>7. \A s, r \in strandeds' : s.m = r.m /\ s.id = r.id => s = r
      BY <3>2, <3>6, OwedTypes DEF StrandsMatch
    <3> QED
      BY <1>5, <1>6, <3>2, <3>4, <3>5, <3>7 DEF StrandsMatch
  <2> QED
    BY <2>1, <2>2 DEF HomeFits
<1>8. NoticesCounted'
  <2> SUFFICES ASSUME NEW m \in Mirrors
               PROVE  noticeNonce'[m] <= Cardinality(Handled(m)')
    BY DEF NoticesCounted
  <2>1. /\ noticeNonce[m] \in Nat /\ noticeNonce'[m] \in Nat
        /\ Cardinality(Handled(m)) \in Nat /\ Cardinality(Handled(m)') \in Nat
        /\ noticeNonce[m] <= Cardinality(Handled(m))
    BY OwedTypes, HandledCounts DEF WireTypeOK, NoticesCounted
  <2>2. Cardinality(Handled(m)) <= Cardinality(Handled(m)')
    BY HandledGrows, HandledCounts
  <2>3. CASE noticeNonce'[m] = noticeNonce[m]
    BY <2>1, <2>2, <2>3
  <2>4. CASE /\ noticeNonce'[m] = noticeNonce[m] + 1
             /\ \E p \in Alive \cup queue : p.m = m /\ p \notin Alive' \cup queue'
    <3>1. Cardinality(Handled(m)) + 1 <= Cardinality(Handled(m)')
      BY <2>4, HandledGrows
    <3> QED
      BY <2>1, <2>4, <3>1
  <2> QED
    BY <2>3, <2>4 DEF HomeFits
<1> QED
  BY <1>1, <1>2, <1>3, <1>7, <1>8 DEF OrdersOwed

-----------------------------------------------------------------------------
(* The home chain, step by step: each fits, and is an answer or no step.   *)
Kept == HomeFits /\ (Promise!HomeAnswers \/ UNCHANGED Promise!wireVars)

(* What is owed after a step that keeps the requests, one by one.          *)
LEMMA OwedThen ==
  ASSUME requests' = requests, NEW p
  PROVE  p \in StillOwed' <=>
           p \in Alive' \/ p \in queue' \/ \E s \in strandeds' : p = PacketOf(s)
<1>1. \A s : PacketOf(s)' = PacketOf(s)
  BY DEF PacketOf
<1> QED
  BY <1>1, OwedAfter

(* The steps of the endpoint program that kill nothing are no step to a    *)
(* mirror.                                                                 *)
LEMMA QuietIsKept ==
  ASSUME OwedInv, requests' = requests, RelayUntouched, EndpointKeeps, NEW a, NEW b,
         KillsOnly(a, b, {}), UNCHANGED <<orders, queue>>
  PROVE  Kept
<1>1. /\ Alive' = Alive /\ queue' = queue /\ strandeds' = strandeds /\ orders' = orders
      /\ noticeNonce' = noticeNonce /\ outNonce' = outNonce
  BY AllStayAlive DEF RelayUntouched
<1>2. \A p : p \in StillOwed' <=> p \in StillOwed
  BY <1>1, OwedOnes, OwedThen
<1>3. StillOwed' = StillOwed
  BY <1>2
<1>4. UNCHANGED Promise!wireVars
  BY <1>1, <1>3 DEF RelayUntouched, Promise!wireVars
<1>5. HomeFits
  BY <1>1 DEF HomeFits, KillsOnly
<1> QED
  BY <1>4, <1>5 DEF Kept

(* An order that arrives waits in a compose; a transfer is its owner's.    *)
LEMMA ArrivalIsKept ==
  ASSUME OwedInv, requests' = requests, RelayUntouched, NEW p \in orders, ReceiveOrder(p)
  PROVE  Kept
<1>1. /\ EndpointKeeps /\ KillsOnly(p.m, p.t, {p.nonce})
      /\ p \in Alive /\ Dead(p.m, p.t, p.nonce)'
  BY ReceiveKillsOne
<1>2. /\ orders' = orders \ {p}
      /\ queue' = IF p.id = 0 THEN queue ELSE queue \cup {p}
      /\ strandeds' = strandeds /\ noticeNonce' = noticeNonce /\ outNonce' = outNonce
  BY DEF ReceiveOrder, RelayUntouched
<1>3. Alive' = Alive \ {p}
  BY <1>1, <1>2, OneDies
<1>4. HomeFits
  BY <1>1, <1>2, <1>3 DEF HomeFits, KillsOnly
<1>5. p \in StillOwed
  BY <1>1, OwedOnes
<1>6. CASE p.id # 0
  <2>1. \A q : q \in StillOwed' <=> q \in StillOwed
    BY <1>1, <1>2, <1>3, <1>6, OwedOnes, OwedThen
  <2>2. StillOwed' = StillOwed
    BY <2>1
  <2> QED
    BY <1>4, <2>2 DEF Kept, RelayUntouched, Promise!wireVars
<1>7. CASE p.id = 0
  <2>1. \A q : q \in StillOwed' <=> q \in StillOwed /\ q # p
    BY <1>1, <1>2, <1>3, <1>7, AliveAlone, OwedOnes, OwedThen
  <2>2. StillOwed' = StillOwed \ {p}
    BY <2>1
  <2>3. Promise!Consume(p)
    BY <2>2 DEF RelayUntouched, Promise!Consume
  <2> QED
    BY <1>4, <1>5, <2>3 DEF Kept, Promise!HomeAnswers
<1> QED
  BY <1>6, <1>7

(* A cancellation kills one message, and its mirror has a notice of it.    *)
LEMMA KillIsKept ==
  ASSUME OwedInv, requests' = requests, NEW p \in orders, NEW hash,
         CancelStuckInbound(p, hash)
  PROVE  Kept
<1>1. p.m \in Mirrors /\ p.t \in Tokens /\ p.nonce \in Nat /\ p.nonce <= outNonce[p.m][p.t]
  BY PacketFields, OwedTypes DEF NoncesOrdered
<1>2. /\ EndpointKeeps /\ KillsOnly(p.m, p.t, {p.nonce})
      /\ ~Dead(p.m, p.t, p.nonce) /\ Dead(p.m, p.t, p.nonce)'
  <2>1. CASE hash
    BY <1>1, <2>1, BurnKillsOne DEF CancelStuckInbound
  <2>2. CASE ~hash
    BY <1>1, <2>2, SkipKillsOne DEF CancelStuckInbound
  <2> QED
    BY <2>1, <2>2
<1>3. /\ SendNotice(p.m, "CANCELLED", 0, p.t, p.nonce)
      /\ orders' = orders /\ queue' = queue /\ strandeds' = strandeds /\ outNonce' = outNonce
      /\ UNCHANGED <<mirrorToken, composing, returns, backNonce>>
  BY DEF CancelStuckInbound, SendNoticeTo, RestUnchanged
<1>4. p \in Alive
  BY <1>2 DEF Alive
<1>5. Alive' = Alive \ {p}
  BY <1>2, <1>3, <1>4, OneDies
<1>6. p \notin queue /\ \A s \in strandeds : p # PacketOf(s)
  BY <1>4, AliveAlone
<1>7. \A m \in Mirrors :
        noticeNonce'[m] = IF m = p.m THEN noticeNonce[m] + 1 ELSE noticeNonce[m]
  BY <1>3, OwedTypes DEF SendNotice
<1>8. p \in Alive \cup queue /\ p \notin Alive' \cup queue'
  BY <1>3, <1>4, <1>5, <1>6
<1>9. HomeFits
  BY <1>2, <1>3, <1>5, <1>7, <1>8 DEF HomeFits, KillsOnly
<1>10. \A q : q \in StillOwed' <=> q \in StillOwed /\ q # p
  BY <1>3, <1>5, <1>6, OwedOnes, OwedThen
<1>11. StillOwed' = StillOwed \ {p} /\ p \in StillOwed
  BY <1>4, <1>10, OwedOnes
<1>12. noticeNonce[p.m] < NoticeLimit
  BY <1>4, NoticeToSpare
<1>13. Promise!Kill(p)
  BY <1>3, <1>11, <1>12 DEF Promise!Kill, SendNotice, Promise!SendNotice
<1> QED
  BY <1>9, <1>11, <1>13 DEF Kept, Promise!HomeAnswers

(* The relay's own steps leave what the endpoint still has alone.          *)
LEMMA EndpointRests ==
  ASSUME OwedInv, UNCHANGED nonceVars, orders' = orders
  PROVE  /\ EndpointKeeps /\ Alive' = Alive
         /\ \A m \in Mirrors, t \in Tokens :
              /\ inbound'[m][t] <= outNonce[m][t]
              /\ \A n \in verified'[m][t] : n <= outNonce[m][t]
<1>1. inbound' = inbound /\ initialised' = initialised /\ verified' = verified
  BY DEF nonceVars
<1>2. EndpointKeeps
  BY <1>1, OwedTypes DEF EndpointKeeps, AccountsAhead, Dead, PathTypes
<1> QED
  BY <1>1, <1>2, OwedTypes DEF Alive, Dead, NoncesOrdered

(* The answer to p: its output at the floor, or its whole input.           *)
LEMMA LegAnswers ==
  ASSUME OwedInv, NEW p \in StillOwed, p.id # 0, StillOwed' = StillOwed \ {p},
         NEW t \in Tokens, NEW amount, NEW status \in {"FILLED", "REFUNDED"},
         NEW held, OftSend(held, p.m, t, p.id, amount, status),
         \/ /\ t = p.t /\ p.sd \in Nat /\ status = "REFUNDED"
            /\ amount = ToLocal(p.sd, HomeQuantum[t])
         \/ /\ t = OtherToken(p.t) /\ p.min \in Nat /\ amount \in PoolOutputs
            /\ amount >= MinOut(p),
         RestUnchanged \/ UNCHANGED <<mirrorToken, outNonce, composing>>,
         UNCHANGED <<notices, noticeNonce>>
  PROVE  Promise!HomeAnswers
<1>1. PICK sd, q : sd = ToShared(amount, HomeQuantum[t]) /\ q = HomeQuantum[t]
  OBVIOUS
<1>2. q \in Nat \ {0}
  BY <1>1, HomeAssumption
<1>3. Promise!Answers(p, t, sd, status) /\ sd \in Outputs \cup {p.sd}
  <2>1. CASE /\ t = p.t /\ p.sd \in Nat /\ status = "REFUNDED"
             /\ amount = ToLocal(p.sd, HomeQuantum[t])
    <3>1. sd = p.sd
      BY <1>1, <1>2, <2>1, UnitsExact
    <3> QED
      BY <2>1, <3>1 DEF Promise!Answers
  <2>2. CASE /\ t = OtherToken(p.t) /\ p.min \in Nat /\ amount \in PoolOutputs
             /\ amount >= MinOut(p)
    <3>1. amount \in Nat /\ MaxU64 \in Nat /\ amount < MaxU64
      BY <2>2, SolanaRelayAssumption, SolanaPoolAssumption
    <3>2. amount >= VenueFloor(p.min, q, MaxU64)
      BY <1>1, <2>2 DEF MinOut
    <3>3. amount >= q /\ amount \div q >= p.min
      BY <1>2, <2>2, <3>1, <3>2, FloorMet
    <3>4. sd \in Outputs
      BY <1>1, <2>2, <3>3, SolanaBoundsAssumption
    <3> QED
      BY <1>1, <2>2, <3>3, <3>4 DEF Promise!Answers, Promise!OtherToken, OtherToken, ToShared
  <2> QED
    BY <2>1, <2>2
<1>4. SendReturn(p.m, t, p.id, sd, status)
  BY <1>1 DEF OftSend
<1>5. UNCHANGED <<mirrorToken, outNonce, composing, notices, noticeNonce>>
  BY DEF RestUnchanged
<1>6. Promise!Answer(p, t, sd, status)
  BY <1>3, <1>4, <1>5 DEF Promise!Answer, SendReturn, Promise!SendReturn
<1>7. t \in Promise!Tokens
  BY DEF Tokens, Promise!Tokens
<1> QED
  BY <1>3, <1>6, <1>7 DEF Promise!HomeAnswers

(* A compose that is run answers its order.                                *)
LEMMA ComposeIsKept ==
  ASSUME OwedInv, requests' = requests, NEW p \in queue, LzCompose(p)
  PROVE  Kept
<1>1. /\ queue' = queue \ {p} /\ strandeds' = strandeds /\ orders' = orders
      /\ UNCHANGED nonceVars /\ UNCHANGED <<notices, noticeNonce>>
      /\ outNonce' = outNonce /\ RestUnchanged
  BY DEF LzCompose, FillOrder, RefundOrder, ClearCompose, RestUnchanged
<1>2. /\ EndpointKeeps /\ Alive' = Alive
      /\ \A m \in Mirrors, t \in Tokens :
           /\ inbound'[m][t] <= outNonce[m][t]
           /\ \A n \in verified'[m][t] : n <= outNonce[m][t]
  BY <1>1, EndpointRests
<1>3. HomeFits
  BY <1>1, <1>2 DEF HomeFits
<1>4. p \notin Alive /\ \A s \in strandeds : p # PacketOf(s)
  BY QueuedOnce
<1>5. \A q : q \in StillOwed' <=> q \in StillOwed /\ q # p
  BY <1>1, <1>2, <1>4, OwedOnes, OwedThen
<1>6. StillOwed' = StillOwed \ {p} /\ p \in StillOwed
  BY <1>5, OwedOnes
<1>7. p.id # 0 /\ p.t \in Tokens /\ p.sd \in Nat /\ p.min \in Nat
  BY PacketFields
<1>8. ASSUME NEW out \in PoolOutputs, FillOrder(p, out)
      PROVE  Promise!HomeAnswers
  <2>1. PICK held : OftSend(held, p.m, OtherToken(p.t), p.id, out, "FILLED")
    BY <1>8 DEF FillOrder
  <2>2. out >= MinOut(p) /\ OtherToken(p.t) \in Tokens
    BY <1>8 DEF FillOrder, OtherToken, Tokens
  <2> QED
    BY <1>1, <1>6, <1>7, <2>1, <2>2, LegAnswers
<1>9. ASSUME NEW out \in PoolOutputs, RefundOrder(p, out)
      PROVE  Promise!HomeAnswers
  <2>1. OftSend(homeToken, p.m, p.t, p.id, ToLocal(p.sd, HomeQuantum[p.t]), "REFUNDED")
    BY <1>9 DEF RefundOrder, InputOf
  <2> QED
    BY <1>1, <1>6, <1>7, <2>1, LegAnswers
<1> QED
  BY <1>3, <1>8, <1>9 DEF Kept, LzCompose

(* A compose that is stranded is owed as before, and its mirror hears.     *)
LEMMA StrandIsKept ==
  ASSUME OwedInv, requests' = requests, NEW p \in queue, StrandCompose(p)
  PROVE  Kept
<1>1. /\ queue' = queue \ {p} /\ orders' = orders /\ UNCHANGED nonceVars
      /\ strandeds' = strandeds \cup {StrandedAccount(p)}
      /\ \A s \in strandeds : s.m # p.m \/ s.id # p.id
      /\ SendNotice(p.m, "STRANDED", p.id, "base", 0)
      /\ UNCHANGED <<mirrorToken, outNonce, composing, returns, backNonce>>
  BY DEF StrandCompose, ClearCompose, SendNoticeTo, RestUnchanged
<1>2. /\ EndpointKeeps /\ Alive' = Alive
      /\ \A m \in Mirrors, t \in Tokens :
           /\ inbound'[m][t] <= outNonce[m][t]
           /\ \A n \in verified'[m][t] : n <= outNonce[m][t]
  BY <1>1, EndpointRests
<1>3. p \notin Alive /\ p.id # 0 /\ p.m \in Mirrors
  BY QueuedOnce, PacketFields
<1>4. \A m \in Mirrors :
        noticeNonce'[m] = IF m = p.m THEN noticeNonce[m] + 1 ELSE noticeNonce[m]
  BY <1>1, OwedTypes DEF SendNotice
<1>5. p \in Alive \cup queue /\ p \notin Alive' \cup queue'
  BY <1>1, <1>2, <1>3
<1>6. Opens(p) /\ queue' \subseteq queue
  BY <1>1 DEF Opens
<1>7. HomeFits
  BY <1>1, <1>2, <1>4, <1>5, <1>6 DEF HomeFits
<1>8. PacketOf(StrandedAccount(p)) = p
  BY AccountOfOrder
<1>9. \A q : q \in StillOwed' <=> q \in StillOwed
  BY <1>1, <1>2, <1>8, OwedOnes, OwedThen
<1>10. StillOwed' = StillOwed /\ p \in StillOwed
  BY <1>9, OwedOnes
<1>11. noticeNonce[p.m] < NoticeLimit
  BY NoticeToSpare
<1>12. Promise!Hold(p)
  BY <1>1, <1>3, <1>10, <1>11 DEF Promise!Hold, SendNotice, Promise!SendNotice
<1> QED
  BY <1>7, <1>10, <1>12 DEF Kept, Promise!HomeAnswers

(* A retry answers the order whose input is held.                          *)
LEMMA RetryIsKept ==
  ASSUME OwedInv, requests' = requests, NEW s \in strandeds, RetryReturn(s)
  PROVE  Kept
<1>1. PICK p : p = PacketOf(s)
  OBVIOUS
<1>2. /\ p.m = s.m /\ p.t = s.mint /\ p.id = s.id /\ p.sd = s.amountSd
      /\ s.mint \in Tokens /\ p.sd \in Nat /\ p.id # 0
  BY <1>1, StrandFields
<1>3. /\ queue' = queue /\ orders' = orders /\ strandeds' = strandeds \ {s}
      /\ UNCHANGED nonceVars /\ UNCHANGED <<notices, noticeNonce>>
      /\ outNonce' = outNonce /\ RestUnchanged
  BY DEF RetryReturn, RestUnchanged, Closed
<1>4. /\ EndpointKeeps /\ Alive' = Alive
      /\ \A m \in Mirrors, t \in Tokens :
           /\ inbound'[m][t] <= outNonce[m][t]
           /\ \A n \in verified'[m][t] : n <= outNonce[m][t]
  BY <1>3, EndpointRests
<1>5. HomeFits
  BY <1>3, <1>4 DEF HomeFits
<1>6. p \notin Alive /\ p \notin queue
  BY <1>1, AliveAlone, QueuedOnce
<1>7. \A r \in strandeds : r # s => PacketOf(r) # p
  BY <1>2, StrandFields, OwedTypes DEF StrandsMatch
<1>8. \A q : q \in StillOwed' <=> q \in StillOwed /\ q # p
  BY <1>1, <1>3, <1>4, <1>6, <1>7, OwedOnes, OwedThen
<1>9. StillOwed' = StillOwed \ {p} /\ p \in StillOwed
  BY <1>1, <1>8, OwedOnes
<1>10. s.amount = ToLocal(p.sd, HomeQuantum[s.mint])
  BY <1>2, OwedTypes DEF StrandsMatch, HoldsOrder
<1>11. OftSend(homeToken, p.m, p.t, p.id, ToLocal(p.sd, HomeQuantum[p.t]), "REFUNDED")
  BY <1>2, <1>10 DEF RetryReturn
<1>12. Promise!HomeAnswers
  BY <1>2, <1>3, <1>9, <1>11, LegAnswers
<1> QED
  BY <1>5, <1>12 DEF Kept

(* Every step of the home chain fits, and is an answer or no step.         *)
LEMMA SolanaHomeIsKept ==
  ASSUME OwedInv, requests' = requests, SolanaHomeNext
  PROVE  Kept
<1>1. CASE Delivering
  <2>1. ASSUME NEW m \in Mirrors, NEW t \in Tokens, NEW n \in 1..MaxNonce,
               InitVerify(m, t, n), UNCHANGED orders, RelayUntouched
        PROVE  Kept
    <3>1. n \in Nat /\ queue' = queue /\ orders' = orders
      BY <2>1 DEF InitVerify
    <3> QED
      BY <2>1, <3>1, InitKillsNothing, QuietIsKept
  <2>2. ASSUME NEW p \in orders, Verify(p), UNCHANGED orders, RelayUntouched
        PROVE  Kept
    <3>1. queue' = queue /\ orders' = orders
      BY <2>2 DEF Verify
    <3> QED
      BY <2>2, <3>1, VerifyKillsNothing, QuietIsKept
  <2> QED
    BY <1>1, <2>1, <2>2, ArrivalIsKept DEF Delivering
<1>2. ASSUME NEW p \in queue, LzCompose(p) \/ StrandCompose(p)
      PROVE  Kept
  BY <1>2, ComposeIsKept, StrandIsKept
<1>3. ASSUME NEW s \in strandeds, RetryReturn(s)
      PROVE  Kept
  BY <1>3, RetryIsKept
<1>4. ASSUME NEW p \in orders, NEW hash \in BOOLEAN, CancelStuckInbound(p, hash)
      PROVE  Kept
  BY <1>4, KillIsKept
<1> QED
  BY <1>1, <1>2, <1>3, <1>4 DEF SolanaHomeNext

-----------------------------------------------------------------------------
(* The mirrors.  What was under way can be written again after any step.   *)
LEMMA OrderStays ==
  ASSUME EntriesKept, NEW m \in Mirrors, NEW i \in Ids, requests[m][i].status # "NONE"
  PROVE  /\ OrderOf(m, i)' = OrderOf(m, i)
         /\ requests'[m][i].status # "NONE"
BY DEF OrderOf, EntriesKept

(* So can what is held.                                                    *)
LEMMA HeldStays ==
  ASSUME OwedInv, EntriesKept, NEW s \in strandeds
  PROVE  PacketOf(s)' = PacketOf(s)
<1>1. s.m \in Mirrors /\ s.id \in Ids /\ requests[s.m][s.id].status # "NONE"
  BY StrandFields, OwedTypes DEF StrandsMatch, HoldsOrder
<1> QED
  BY <1>1 DEF PacketOf, EntriesKept

(* A mirror that sends nothing leaves what is owed as it is;               *)
LEMMA NothingSentOwed ==
  ASSUME OwedInv, EntriesKept, orders' = orders, UNCHANGED relayVars
  PROVE  StillOwed' = StillOwed /\ Alive' = Alive
<1>1. queue' = queue /\ strandeds' = strandeds /\ Alive' = Alive
  BY DEF relayVars, endpointVars, nonceVars, Alive, Dead
<1>2. \A p : p \in StillOwed' <=> p \in StillOwed
  BY <1>1, HeldStays, OwedOnes, OwedAfter
<1> QED
  BY <1>1, <1>2

(* one that sends a packet adds it.                                        *)
LEMMA SentOwed ==
  ASSUME OwedInv, EntriesKept, NEW p, SendsPacket(p), UNCHANGED relayVars
  PROVE  StillOwed' = StillOwed \cup {p} /\ Alive' = Alive \cup {p}
<1>1. queue' = queue /\ strandeds' = strandeds /\ inbound' = inbound /\ verified' = verified
  BY DEF relayVars, endpointVars, nonceVars
<1>2. p.m \in Mirrors /\ p.t \in Tokens /\ p.nonce = outNonce[p.m][p.t] + 1
  BY DEF SendsPacket, OrderPacket
<1>3. ~Dead(p.m, p.t, p.nonce)
  BY <1>2, OwedTypes DEF NoncesOrdered, Dead
<1>4. Alive' = Alive \cup {p}
  BY <1>1, <1>3 DEF Alive, Dead, SendsPacket
<1>5. \A q : q \in StillOwed' <=> q \in StillOwed \cup {p}
  BY <1>1, <1>4, HeldStays, OwedOnes, OwedAfter
<1> QED
  BY <1>4, <1>5

(* A step that sends nothing, keeps the home chain as it is.               *)
LEMMA NothingSentKeeps ==
  ASSUME OwedInv, EntriesKept, UNCHANGED relayVars, UNCHANGED <<orders, outNonce, noticeNonce>>
  PROVE  OrdersOwed'
<1>1. /\ queue' = queue /\ strandeds' = strandeds /\ inbound' = inbound
      /\ verified' = verified /\ Alive' = Alive
  BY DEF relayVars, endpointVars, nonceVars, Alive, Dead
<1>2. NoncesOrdered' /\ QueuedDead'
  BY <1>1, OwedTypes DEF NoncesOrdered, QueuedDead, Dead
<1>3. PacketsMatch'
  BY <1>1, PacketFields, OrderStays, OwedTypes DEF PacketsMatch
<1>4. StrandsMatch'
  <2>1. ASSUME NEW s \in strandeds
        PROVE  HoldsOrder(s)'
    <3>1. HoldsOrder(s) /\ s.m \in Mirrors /\ s.id \in Ids
      BY StrandFields, OwedTypes DEF StrandsMatch
    <3> QED
      BY <1>1, <3>1, HeldStays, OrderStays DEF HoldsOrder, Dead
  <2> QED
    BY <1>1, <2>1, OwedTypes DEF StrandsMatch
<1>5. NoticesCounted'
  <2>1. \A m : Handled(m)' = Handled(m)
    BY <1>1 DEF Handled
  <2> QED
    BY <2>1, OwedTypes DEF NoticesCounted
<1> QED
  BY <1>2, <1>3, <1>4, <1>5 DEF OrdersOwed

(* One that sends a packet takes a fresh nonce for it.                     *)
LEMMA SendingKeeps ==
  ASSUME OwedInv, EntriesKept, UNCHANGED relayVars, noticeNonce' = noticeNonce,
         NEW p, SendsPacket(p)
  PROVE  OrdersOwed'
<1>1. /\ queue' = queue /\ strandeds' = strandeds /\ inbound' = inbound /\ verified' = verified
      /\ orders' = orders \cup {p}
      /\ Alive' = Alive \cup {p}
  BY SentOwed DEF relayVars, endpointVars, nonceVars, SendsPacket
<1>2. /\ p.m \in Mirrors /\ p.t \in Tokens /\ p.nonce = outNonce[p.m][p.t] + 1
      /\ p.nonce <= MaxNonce
  BY DEF SendsPacket, OrderPacket
<1>3. \A m \in Mirrors, t \in Tokens :
        outNonce'[m][t] = IF m = p.m /\ t = p.t THEN p.nonce ELSE outNonce[m][t]
  BY <1>2, OwedTypes DEF SendsPacket
<1>4. \A m \in Mirrors, t \in Tokens :
        outNonce[m][t] \in Nat /\ outNonce'[m][t] \in Nat /\ outNonce[m][t] <= outNonce'[m][t]
  BY <1>2, <1>3, OwedTypes
<1>5. NoncesOrdered'
  <2>1. \A q \in orders' \cup queue' : q.nonce \in 1..outNonce'[q.m][q.t]
    <3>1. ASSUME NEW q \in orders \cup queue
          PROVE  q.nonce \in 1..outNonce'[q.m][q.t]
      <4>1. q.m \in Mirrors /\ q.t \in Tokens /\ q.nonce \in 1..outNonce[q.m][q.t]
        BY PacketFields, OwedTypes DEF NoncesOrdered
      <4> QED
        BY <1>4, <4>1
    <3>2. p.nonce \in 1..outNonce'[p.m][p.t]
      BY <1>2, <1>3, <1>4
    <3> QED
      BY <1>1, <3>1, <3>2
  <2>2. \A q \in orders \cup queue : ~(q.m = p.m /\ q.t = p.t /\ q.nonce = p.nonce)
    BY <1>2, <1>4, PacketFields, OwedTypes DEF NoncesOrdered
  <2>3. \A q, r \in orders' \cup queue' :
          q.m = r.m /\ q.t = r.t /\ q.nonce = r.nonce => q = r
    BY <1>1, <2>2, OwedTypes DEF NoncesOrdered
  <2>4. ASSUME NEW m \in Mirrors, NEW t \in Tokens
        PROVE  /\ inbound'[m][t] <= outNonce'[m][t] /\ outNonce'[m][t] <= MaxNonce
               /\ \A n \in verified'[m][t] : n <= outNonce'[m][t]
    <3>1. /\ inbound[m][t] \in Nat /\ inbound[m][t] <= outNonce[m][t]
          /\ outNonce[m][t] <= MaxNonce
          /\ \A n \in verified[m][t] : n \in Nat /\ n <= outNonce[m][t]
      BY OwedTypes DEF NoncesOrdered
    <3>2. outNonce'[m][t] <= MaxNonce
      BY <1>2, <1>3, <3>1
    <3> QED
      BY <1>1, <1>4, <3>1, <3>2
  <2> QED
    BY <2>1, <2>3, <2>4 DEF NoncesOrdered
<1>6. QueuedDead'
  BY <1>1, OwedTypes DEF QueuedDead, Dead
<1>7. PacketsMatch'
  <2>1. ASSUME NEW q \in orders \cup queue, q.id # 0
        PROVE  requests'[q.m][q.id].status # "NONE" /\ q = OrderOf(q.m, q.id)'
    BY <2>1, PacketFields, OrderStays, OwedTypes DEF PacketsMatch
  <2>2. p.id # 0 => requests'[p.m][p.id].status # "NONE" /\ p = OrderOf(p.m, p.id)'
    BY DEF SendsPacket
  <2> QED
    BY <1>1, <2>1, <2>2 DEF PacketsMatch
<1>8. StrandsMatch'
  <2>1. ASSUME NEW s \in strandeds
        PROVE  HoldsOrder(s)'
    <3>1. HoldsOrder(s) /\ s.m \in Mirrors /\ s.id \in Ids
      BY StrandFields, OwedTypes DEF StrandsMatch
    <3> QED
      BY <1>1, <3>1, HeldStays, OrderStays DEF HoldsOrder, Dead
  <2> QED
    BY <1>1, <2>1, OwedTypes DEF StrandsMatch
<1>9. NoticesCounted'
  <2> SUFFICES ASSUME NEW m \in Mirrors
               PROVE  noticeNonce'[m] <= Cardinality(Handled(m)')
    BY DEF NoticesCounted
  <2>1. Handled(m) \subseteq Handled(m)'
    <3> SUFFICES ASSUME NEW k \in Handled(m)
                 PROVE  k \in Handled(m)'
      OBVIOUS
    <3>1. /\ k \in Tokens \X (1..MaxNonce) /\ k[1] \in Tokens /\ k[2] \in Nat
          /\ k[2] <= outNonce[m][k[1]]
          /\ \A q \in Alive \cup queue : ~(q.m = m /\ q.t = k[1] /\ q.nonce = k[2])
      BY DEF Handled
    <3>2. k[2] <= outNonce'[m][k[1]]
      BY <1>4, <3>1
    <3>3. ~(p.m = m /\ p.t = k[1] /\ p.nonce = k[2])
      BY <1>2, <1>4, <3>1
    <3> QED
      BY <1>1, <3>1, <3>2, <3>3 DEF Handled
  <2>2. noticeNonce[m] \in Nat /\ noticeNonce[m] <= Cardinality(Handled(m))
    BY OwedTypes DEF NoticesCounted
  <2> QED
    BY <2>1, <2>2, HandledCounts
<1> QED
  BY <1>5, <1>6, <1>7, <1>8, <1>9 DEF OrdersOwed

-----------------------------------------------------------------------------
(* A step on a mirror is one of SwapRequest facing the promise: its        *)
(* actions read nothing of the home chain, and add to what is owed when    *)
(* they send.                                                              *)
OwedFollows ==
  /\ orders' = orders => StillOwed' = StillOwed
  /\ \A p : orders' = orders \cup {p} /\ p.nonce = outNonce[p.m][p.t] + 1 =>
       StillOwed' = StillOwed \cup {p}

(* Taking an order, whoever asks.                                          *)
LEMMA SubmitMaps ==
  ASSUME NEW m, NEW trade, NEW partner, NEW bps, NEW recipient,
         Submit(m, trade, partner, bps, recipient), OwedFollows
  PROVE  Promise!Submit(m, trade, partner, bps, recipient)
BY DEF OwedFollows,
     Submit, Promise!Submit, SendOrder, Promise!SendOrder, EscrowFees, Promise!EscrowFees,
     Transfer, Promise!Transfer, Burn, Promise!Burn, FeeOf, Promise!FeeOf, EscrowTotal,
     Promise!EscrowTotal, RemoveDust, Promise!RemoveDust, ToShared, Promise!ToShared, ToLocal,
     Promise!ToLocal, FloorToShared, Promise!FloorToShared, Contract, Promise!Contract, Ids,
     Promise!Ids, CanPay, Promise!CanPay, NewRequest, Promise!NewRequest, adminVars,
     Promise!adminVars, TokenIn, Promise!TokenIn, TokenOut, Promise!TokenOut

(* buy, sell and their forms through a partner.                            *)
LEMMA OrderingMaps ==
  ASSUME Ordering, OwedFollows
  PROVE  Promise!Ordering
<1>1. ASSUME NEW m \in Mirrors, NEW trade \in Trades, SubmitOpen(m, trade)
      PROVE  Promise!SubmitOpen(m, trade)
  BY <1>1, SubmitMaps DEF SubmitOpen, Promise!SubmitOpen
<1>2. ASSUME NEW auth \in Authorizations, SubmitVia(auth)
      PROVE  Promise!SubmitVia(auth)
  BY <1>2, SubmitMaps DEF SubmitVia, Promise!SubmitVia, Authorize, Promise!Authorize
<1> QED
  BY <1>1, <1>2 DEF Ordering, Promise!Ordering

(* Transfers of one's own, and returns that arrive.                        *)
LEMMA BridgingMaps ==
  ASSUME Bridging, OwedFollows
  PROVE  Promise!Bridging
<1>0. UNCHANGED requestVars => UNCHANGED Promise!requestVars
  BY DEF requestVars, Promise!requestVars
<1>1. ASSUME NEW m \in Mirrors, NEW t \in Tokens, NEW u \in Users, NEW sd \in DirectAmounts,
             DirectSend(m, t, u, sd)
      PROVE  Promise!DirectSend(m, t, u, sd)
  BY <1>1 DEF OwedFollows,
     DirectSend, Promise!DirectSend, SendOrder, Promise!SendOrder, Burn, Promise!Burn, ToLocal,
     Promise!ToLocal, CanPay, Promise!CanPay
<1>2. ASSUME NEW p \in returns, ReceiveReturn(p)
      PROVE  Promise!ReceiveReturn(p)
  BY <1>2 DEF OwedFollows,
     ReceiveReturn, Promise!ReceiveReturn, Mint, Promise!Mint, ToLocal, Promise!ToLocal,
     Contract, Promise!Contract
<1>3. Promise!Tokens = Tokens
  BY DEF Tokens, Promise!Tokens
<1> QED
  BY <1>0, <1>1, <1>2, <1>3 DEF Bridging, Promise!Bridging

(* The fee ledger is the same on both sides.                               *)
LEMMA FeesMap ==
  ASSUME NEW m, NEW i
  PROVE  /\ EarnFees(m, i) => Promise!EarnFees(m, i)
         /\ \A held, accepted : ReturnFees(m, i, held, accepted) =>
              Promise!ReturnFees(m, i, held, accepted)
BY DEF
     EarnFees, Promise!EarnFees, ReturnFees, Promise!ReturnFees, Credit, Promise!Credit,
     EscrowTotal, Promise!EscrowTotal, Transfer, Promise!Transfer, CanPay, Promise!CanPay,
     Contract, Promise!Contract, TokenIn, Promise!TokenIn

(* Settlements and notices.                                                *)
LEMMA SettlingMaps ==
  ASSUME Settling, OwedFollows
  PROVE  Promise!Settling
<1>1. ASSUME NEW p \in composing
      PROVE  /\ Compose(p) => Promise!Compose(p)
             /\ Promise!PaidOut(p) = PaidOut(p)
  BY DEF OwedFollows,
     Compose, Promise!Compose, PaidOut, Promise!PaidOut, ToLocal, Promise!ToLocal, CanPay,
     Promise!CanPay, Contract, Promise!Contract, Transfer, Promise!Transfer, adminVars,
     Promise!adminVars
<1>2. ASSUME NEW p \in composing, Settle(p)
      PROVE  Promise!Settle(p)
  <2>1. CASE ComposeFill(p)
    <3>1. Promise!ComposeFill(p)
      BY <1>1, <2>1, FeesMap DEF ComposeFill, Promise!ComposeFill, ToLocal, Promise!ToLocal
    <3> QED
      BY <3>1 DEF Promise!Settle
  <2>2. ASSUME NEW accepted \in TokenAccepts, ComposeRefund(p, accepted)
        PROVE  Promise!Settle(p)
    <3>1. Promise!ComposeRefund(p, accepted)
      BY <1>1, <2>2, FeesMap DEF ComposeRefund, Promise!ComposeRefund, TokenIn, Promise!TokenIn
    <3> QED
      BY <3>1 DEF Promise!Settle
  <2>3. CASE ComposeLate(p)
    <3>1. Promise!ComposeLate(p)
      BY <1>1, <2>3 DEF ComposeLate, Promise!ComposeLate
    <3> QED
      BY <3>1 DEF Promise!Settle
  <2> QED
    BY <1>2, <2>1, <2>2, <2>3 DEF Settle
<1>3. ASSUME NEW n \in notices
      PROVE  /\ ReceiveNotice(n) => Promise!ReceiveNotice(n)
             /\ Promise!Concerned(n) = Concerned(n)
  BY DEF OwedFollows,
     ReceiveNotice, Promise!ReceiveNotice, Concerned, Promise!Concerned, RequestsByNonce,
     Promise!RequestsByNonce, Ids, Promise!Ids, TokenIn, Promise!TokenIn, adminVars,
     Promise!adminVars
<1>4. ASSUME NEW n \in notices, HearNotice(n)
      PROVE  Promise!HearNotice(n)
  <2>1. ASSUME NEW id \in Ids, NEW accepted \in TokenAccepts, NoticeStranded(n, id, accepted)
        PROVE  Promise!NoticeStranded(n, id, accepted)
    BY <1>3, <2>1, FeesMap DEF NoticeStranded, Promise!NoticeStranded
  <2>2. ASSUME NEW id \in Ids, NEW accepted \in TokenAccepts, NoticeCancelled(n, id, accepted)
        PROVE  Promise!NoticeCancelled(n, id, accepted)
    BY <1>3, <2>2, FeesMap DEF
       NoticeCancelled, Promise!NoticeCancelled, RecoveryCredit, Promise!RecoveryCredit, Mint,
       Promise!Mint, TokenIn, Promise!TokenIn
  <2>3. NoticeIgnored(n) => Promise!NoticeIgnored(n)
    BY <1>3 DEF NoticeIgnored, Promise!NoticeIgnored
  <2>4. Promise!Ids = Ids
    BY DEF Ids, Promise!Ids
  <2> QED
    BY <1>4, <2>1, <2>2, <2>3, <2>4 DEF HearNotice, Promise!HearNotice
<1> QED
  BY <1>2, <1>4 DEF Settling, Promise!Settling

(* Claims, the owner's calls, and stray tokens.                            *)
LEMMA AdministeringMaps ==
  ASSUME Administering, OwedFollows
  PROVE  Promise!Administering
<1>0. /\ UNCHANGED adminVars => UNCHANGED Promise!adminVars
      /\ UNCHANGED ledgerVars => UNCHANGED Promise!ledgerVars
      /\ UNCHANGED requestVars => UNCHANGED Promise!requestVars
      /\ UNCHANGED wireVars => UNCHANGED Promise!wireVars
      /\ Promise!Tokens = Tokens /\ Promise!FeeAccounts = FeeAccounts
      /\ Promise!Contract = Contract /\ Promise!World = World
  BY DEF OwedFollows,
     adminVars, Promise!adminVars, ledgerVars, Promise!ledgerVars, requestVars,
     Promise!requestVars, wireVars, Promise!wireVars, Tokens, Promise!Tokens, FeeAccounts,
     Promise!FeeAccounts, Contract, Promise!Contract, World, Promise!World
<1>1. ASSUME NEW m \in Mirrors, NEW t \in Tokens, NEW a \in FeeAccounts, ClaimFees(m, t, a)
      PROVE  Promise!ClaimFees(m, t, a)
  BY <1>0, <1>1 DEF OwedFollows,
     ClaimFees, Promise!ClaimFees, CanPay, Promise!CanPay, Transfer, Promise!Transfer
<1>2. ASSUME NEW m, NEW id, NEW terms, SetPartner(m, id, terms)
      PROVE  Promise!SetPartner(m, id, terms)
  BY <1>0, <1>2 DEF SetPartner, Promise!SetPartner
<1>3. ASSUME NEW m, NEW required, SetPartnerRequired(m, required)
      PROVE  Promise!SetPartnerRequired(m, required)
  BY <1>0, <1>3 DEF SetPartnerRequired, Promise!SetPartnerRequired
<1>4. ASSUME NEW m, NEW terms, SetPlatformFee(m, terms)
      PROVE  Promise!SetPlatformFee(m, terms)
  BY <1>0, <1>4 DEF SetPlatformFee, Promise!SetPlatformFee
<1>5. ASSUME NEW m, NEW id, NEW n, InvalidateNonce(m, id, n)
      PROVE  Promise!InvalidateNonce(m, id, n)
  BY <1>0, <1>5 DEF InvalidateNonce, Promise!InvalidateNonce
<1>6. ASSUME NEW m, NEW t, NEW x, Sweep(m, t, x)
      PROVE  Promise!Sweep(m, t, x)
  BY <1>0, <1>6 DEF OwedFollows,
     Sweep, Promise!Sweep, Sweepable, Promise!Sweepable, Transfer, Promise!Transfer
<1>7. ASSUME NEW m, NEW t, NEW u, NEW x, SendStray(m, t, u, x)
      PROVE  Promise!SendStray(m, t, u, x)
  BY <1>0, <1>7 DEF OwedFollows,
     SendStray, Promise!SendStray, CanPay, Promise!CanPay, Transfer, Promise!Transfer
<1> QED
  BY <1>0, <1>1, <1>2, <1>3, <1>4, <1>5, <1>6, <1>7 DEF Administering, Promise!Administering

(* It does follow: a mirror's step adds the packet it sends, if it sends.  *)
LEMMA MirrorOwes ==
  ASSUME OwedInv, MirrorTypeOK', MirrorNext, UNCHANGED relayVars
  PROVE  OwedFollows /\ EntriesKept
<1>1. EntriesKept
  BY OwedTypes, MirrorKeepsEntries
<1>2. \A p : p.nonce = outNonce[p.m][p.t] + 1 => p \notin orders
  BY PacketFields, OwedTypes DEF NoncesOrdered
<1>3. CASE UNCHANGED orders
  <2>1. StillOwed' = StillOwed
    BY <1>1, <1>3, NothingSentOwed
  <2>2. ASSUME NEW p, orders' = orders \cup {p}
        PROVE  p.nonce # outNonce[p.m][p.t] + 1
    <3>1. p \in orders
      BY <1>3, <2>2
    <3> QED
      BY <1>2, <3>1
  <2> QED
    BY <1>1, <2>1, <2>2 DEF OwedFollows
<1>4. ASSUME NEW q, SendsPacket(q)
      PROVE  OwedFollows
  <2>1. /\ orders' = orders \cup {q} /\ q \notin orders
        /\ StillOwed' = StillOwed \cup {q}
    BY <1>1, <1>2, <1>4, SentOwed DEF SendsPacket
  <2> QED
    BY <1>2, <2>1 DEF OwedFollows
<1> QED
  BY <1>1, <1>3, <1>4, OwedTypes, MirrorSends

(* A step on a mirror maps to one, and keeps the invariant.                *)
LEMMA MirrorIsKept ==
  ASSUME OwedInv, MirrorTypeOK', MirrorNext, UNCHANGED relayVars
  PROVE  Promise!MirrorNext /\ OrdersOwed'
<1>1. OwedFollows /\ EntriesKept
  BY MirrorOwes
<1>2. Promise!MirrorNext
  BY <1>1, BridgingMaps, OrderingMaps, SettlingMaps, AdministeringMaps
     DEF MirrorNext, Promise!MirrorNext
<1>3. noticeNonce' = noticeNonce
  BY MirrorSendsNoNotice
<1>4. OrdersOwed'
  BY <1>1, <1>3, OwedTypes, MirrorSends, NothingSentKeeps, SendingKeeps
<1> QED
  BY <1>2, <1>4

-----------------------------------------------------------------------------
(* The invariant at the start, where nothing is owed.                      *)
LEMMA OwedAtStart ==
  ASSUME Init
  PROVE  OrdersOwed /\ Promise!MirrorInit
<1>1. /\ orders = {} /\ queue = {} /\ strandeds = {}
      /\ \A m \in Mirrors, t \in Tokens :
           inbound[m][t] = 0 /\ outNonce[m][t] = 0 /\ verified[m][t] = {}
      /\ \A m \in Mirrors : noticeNonce[m] = 0
  BY DEF Init, MirrorInit, WireInit, SolanaRelayInit, SolanaEndpointInit
<1>2. NoncesOrdered /\ QueuedDead /\ PacketsMatch /\ StrandsMatch
  BY <1>1, WireAssumption DEF NoncesOrdered, QueuedDead, PacketsMatch, StrandsMatch
<1>3. NoticesCounted
  <2>1. \A m \in Mirrors : Cardinality(Handled(m)) \in Nat
    BY HandledCounts
  <2> QED
    BY <1>1, <2>1 DEF NoticesCounted
<1>4. StillOwed = {}
  <2>1. \A p : p \notin StillOwed
    BY <1>1, OwedOnes DEF Alive
  <2> QED
    BY <2>1
<1>5. Promise!Cardinality(Users) = Cardinality(Users)
  BY Zenon DEF Cardinality, Promise!Cardinality, IsFiniteSet, Promise!IsFiniteSet
<1>6. Promise!WireInit
  BY <1>4, <1>5 DEF Init, MirrorInit, WireInit, Promise!WireInit, Promise!Tokens, Tokens,
     Promise!Accounts, Accounts, Promise!ToLocal, ToLocal, Promise!Contract, Contract,
     Promise!World, World, Promise!Vault, Vault
<1>7. Promise!RequestInit
  BY DEF Init, MirrorInit, RequestInit, Promise!RequestInit, Promise!Tokens, Tokens,
     Promise!EmptyRequest, EmptyRequest, Promise!EmptyEscrow, EmptyEscrow,
     Promise!FeeAccounts, FeeAccounts, Promise!Ids, Ids
<1> QED
  BY <1>2, <1>3, <1>6, <1>7 DEF OrdersOwed, Promise!MirrorInit

(* A step keeps the promise and the invariant.                             *)
LEMMA OwedStep ==
  ASSUME OwedInv, StockInv', [Next]_vars
  PROVE  OrdersOwed' /\ [Promise!PromiseNext]_(Promise!mirrorVars)
<1>0. MirrorTypeOK' /\ WireTypeOK'
  BY DEF StockInv, MirrorInv, MirrorTypeOK
<1>1. CASE MirrorNext /\ UNCHANGED relayVars
  BY <1>0, <1>1, MirrorIsKept DEF Promise!PromiseNext
<1>2. UNCHANGED requestVars => UNCHANGED Promise!requestVars
  BY DEF requestVars, Promise!requestVars
<1>3. CASE SolanaHomeNext /\ UNCHANGED requestVars
  <2>1. requests' = requests
    BY <1>3 DEF requestVars
  <2>2. Kept /\ UNCHANGED Promise!requestVars
    BY <1>2, <1>3, <2>1, SolanaHomeIsKept
  <2>3. OrdersOwed'
    BY <1>0, <2>2, FittingKeeps DEF Kept
  <2>4. Promise!HomeAnswers => Promise!PromiseNext
    BY <2>2 DEF Promise!PromiseNext
  <2>5. UNCHANGED Promise!wireVars => UNCHANGED Promise!mirrorVars
    BY <2>2 DEF Promise!mirrorVars
  <2> QED
    BY <2>2, <2>3, <2>4, <2>5 DEF Kept
<1>4. CASE UNCHANGED vars
  <2>1. UNCHANGED mirrorVars /\ UNCHANGED relayVars
    BY <1>4 DEF vars
  <2>2. UNCHANGED wireVars /\ UNCHANGED requestVars
    BY <2>1 DEF mirrorVars
  <2>3. UNCHANGED <<orders, outNonce, noticeNonce, requests>>
    BY <2>2 DEF wireVars, requestVars
  <2>4. EntriesKept
    BY <2>3 DEF EntriesKept
  <2>5. OrdersOwed' /\ StillOwed' = StillOwed
    BY <2>1, <2>3, <2>4, NothingSentKeeps, NothingSentOwed
  <2>6. UNCHANGED Promise!wireVars
    BY <2>2, <2>5 DEF wireVars, Promise!wireVars
  <2>7. UNCHANGED Promise!mirrorVars
    BY <1>2, <2>2, <2>6 DEF Promise!mirrorVars
  <2> QED
    BY <2>5, <2>7
<1> QED
  BY <1>1, <1>3, <1>4 DEF Next

-----------------------------------------------------------------------------
(* init_verify is only sent for a nonce some path has given out.           *)
CallOrdered ==
  call.do = "init" =>
    call.of.m \in Mirrors /\ call.of.t \in Tokens /\ call.of.nonce \in 1..MaxNonce

(* It remains so: cancelStuckInbound reads the message before it calls.    *)
LEMMA CallOrderKept ==
  ASSUME OwedInv, CallTypes, CallOrdered, [AdminNext]_allVars
  PROVE  CallOrdered'
<1>1. CASE call' = call
  BY <1>1 DEF CallOrdered
<1>2. CASE call' = None
  BY <1>2 DEF CallOrdered, None
<1>3. ASSUME NEW p, AskStrand(p) \/ AskRetry(p)
      PROVE  CallOrdered'
  BY <1>3 DEF AskStrand, AskRetry, Begins, CallOrdered
<1>4. ASSUME NEW p, AskCancel(p)
      PROVE  CallOrdered'
  <2>1. PICK d : call' = [of |-> p, do |-> d]
    BY <1>4 DEF AskCancel, Begins
  <2>2. p \in orders
    BY <1>4 DEF AskCancel, Alive
  <2>3. /\ p.m \in Mirrors /\ p.t \in Tokens /\ p.nonce \in 1..outNonce[p.m][p.t]
        /\ outNonce[p.m][p.t] \in Nat /\ outNonce[p.m][p.t] <= MaxNonce /\ MaxNonce \in Nat
    BY <2>2, PacketFields, OwedTypes, WireAssumption DEF NoncesOrdered
  <2>4. p.nonce \in 1..MaxNonce
    BY <2>3
  <2> QED
    BY <2>1, <2>3, <2>4 DEF CallOrdered
<1>5. CASE SendInit
  <2>1. PICK x, d : call = [of |-> x, do |-> d]
    BY <1>5 DEF SendInit, None, CallTypes
  <2>2. call' = [of |-> x, do |-> "skip"]
    BY <1>5, <2>1 DEF SendInit
  <2> QED
    BY <2>2 DEF CallOrdered
<1>6. \/ call' = call \/ call' = None \/ SendInit
      \/ \E p : AskStrand(p) \/ AskRetry(p) \/ AskCancel(p)
  BY DEF AdminNext, allVars, callVars, Executing, Retrying, SendStrand, SendRetry,
         SendCancel, Ends, Throws, SetMaxReturnFee
<1> QED
  BY <1>1, <1>2, <1>3, <1>4, <1>5, <1>6

(* Whoever calls the program, the step is one of the program or none.      *)
LEMMA CallsAreSteps ==
  ASSUME CallOrdered, [AdminNext]_allVars
  PROVE  [Next]_vars
<1>1. SolanaHomeNext /\ UNCHANGED requestVars => Next
  BY DEF Next
<1>2. MirrorNext /\ UNCHANGED <<relayVars, callVars>> => Next
  BY DEF Next
<1>3. Delivering /\ UNCHANGED <<requestVars, callVars>> => Next
  BY <1>1 DEF SolanaHomeNext
<1>4. Executing \/ Retrying => Next
  BY <1>1 DEF Executing, Retrying, SolanaHomeNext
<1>5. SendStrand => Next
  BY <1>1 DEF SendStrand, Ends, SolanaHomeNext
<1>6. SendRetry => Next
  BY <1>1 DEF SendRetry, Ends, RetryReturn, SolanaHomeNext
<1>7. SendCancel => Next
  BY <1>1 DEF SendCancel, Ends, CancelStuckInbound, SolanaHomeNext
<1>8. SendInit => Next
  <2> SUFFICES ASSUME SendInit PROVE Next
    OBVIOUS
  <2>1. PICK m \in Mirrors, t \in Tokens, n \in 1..MaxNonce :
          m = call.of.m /\ t = call.of.t /\ n = call.of.nonce
    BY DEF SendInit, CallOrdered
  <2>2. InitVerify(m, t, n) /\ UNCHANGED orders /\ RelayUntouched /\ UNCHANGED requestVars
    BY <2>1 DEF SendInit
  <2> QED
    BY <1>1, <2>2 DEF Delivering, SolanaHomeNext
<1>9. \/ \E p : AskStrand(p) \/ AskRetry(p) \/ AskCancel(p)
      \/ Throws
      \/ \E m \in Mirrors : SetMaxReturnFee(m)
      \/ UNCHANGED allVars
      => UNCHANGED vars
  BY DEF AskStrand, AskRetry, AskCancel, Begins, Throws, SetMaxReturnFee, allVars
<1> QED
  BY <1>2, <1>3, <1>4, <1>5, <1>6, <1>7, <1>8, <1>9 DEF AdminNext

(***************************************************************************)
(* Towards its mirrors a Solana home is an EVM home, for every value of    *)
(* the constants that gives the promise the outputs and the notices it     *)
(* has: whatever the operator strands, retries or cancels from a stale     *)
(* read, whatever it throws in the middle, each order has one answer, at   *)
(* its floor or worth its input, or none after a kill.                     *)
(***************************************************************************)
THEOREM SolanaPromiseIsKept == AdminSpec => SolanaKeepsPromise
<1> DEFINE Asked == StockInv /\ OrdersOwed /\ CallTypes /\ CallOrdered
<1>1. AdminInit => Asked /\ Promise!MirrorInit
  BY StockAtStart, OwedAtStart DEF AdminInit, CallTypes, CallOrdered, None
<1>2. Asked /\ [AdminNext]_allVars => Asked' /\ [Promise!PromiseNext]_(Promise!mirrorVars)
  <2> SUFFICES ASSUME Asked, [AdminNext]_allVars
               PROVE  Asked' /\ [Promise!PromiseNext]_(Promise!mirrorVars)
    OBVIOUS
  <2>1. OwedInv /\ PathTypes
    BY DEF OwedInv, StockInv, PathInv
  <2>2. [Next]_vars
    BY CallsAreSteps
  <2>3. StockInv'
    BY <2>2, StepKeepsStock
  <2>4. OrdersOwed' /\ [Promise!PromiseNext]_(Promise!mirrorVars)
    BY <2>1, <2>2, <2>3, OwedStep
  <2>5. CallTypes' /\ CallOrdered'
    BY <2>1, CallKept, CallOrderKept
  <2> QED
    BY <2>3, <2>4, <2>5
<1> HIDE DEF Asked
<1> QED
  BY <1>1, <1>2, PTL DEF AdminSpec, SolanaKeepsPromise, Promise!PromiseSpec

=============================================================================
