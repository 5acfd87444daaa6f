--------------------------- MODULE AmountTheorems ---------------------------
(***************************************************************************)
(* What the proofs need of amounts: sums over finite sets, rounding at the *)
(* edges of the wire, and what a transfer, a burn or a mint does to the    *)
(* balances of one asset.                                                  *)
(*                                                                         *)
(* The ledgers of this development add up with SumFunctionOnSet(f, S) of   *)
(* the community modules.  It is defined by a recursion that takes the     *)
(* elements in an order nobody knows, so every fact about it first needs   *)
(* that the recursion is well defined, and that the order does not matter. *)
(* Induction is by minimal counterexample: among the finite subsets of a   *)
(* set, a set of counterexamples has a member without a smaller one        *)
(* (WFMin), which a set comprehension names.                               *)
(***************************************************************************)
EXTENDS SwapMath, OmniToken, Functions, FiniteSetTheorems, WellFoundedInduction,
        TLAPS

(* The element the recursion takes first.                                  *)
First(s) == CHOOSE x \in s : TRUE

IsIteration(g, f, S) ==
  g = [s \in SUBSET S |-> IF s = {} THEN 0 ELSE f[First(s)] + g[s \ {First(s)}]]

Iteration(f, S) == CHOOSE g : IsIteration(g, f, S)

(* The sum of the community modules is that recursion's last value.        *)
LEMMA SumIsIteration ==
  ASSUME NEW f, NEW S
  PROVE  SumFunctionOnSet(f, S) = Iteration(f, S)[S]
BY DEF SumFunctionOnSet, FoldFunctionOnSet, MapThenFoldSet, Iteration, IsIteration, First

(* The element taken first is one of the set.                              *)
LEMMA FirstIsElement ==
  ASSUME NEW S, S # {}
  PROVE  First(S) \in S
BY DEF First

(* A set of subsets of S that is not empty has one without a smaller one.  *)
LEMMA SmallestSubset ==
  ASSUME NEW S, IsFiniteSet(S), NEW Bad, Bad \subseteq SUBSET S, Bad # {}
  PROVE  \E T \in Bad : \A U \in SUBSET T : U # T => U \notin Bad
<1>1. IsWellFoundedOn(StrictSubsetOrdering(S), FiniteSubsetsOf(S))
  BY FS_StrictSubsetOrderingWellFounded
<1>2. Bad \subseteq FiniteSubsetsOf(S)
  BY FS_Subset DEF FiniteSubsetsOf
<1>3. PICK T \in Bad : \A U \in Bad : ~ (<<U, T>> \in StrictSubsetOrdering(S))
  BY <1>1, <1>2, WFMin
<1>4. ASSUME NEW U \in SUBSET T, U # T, U \in Bad
      PROVE  FALSE
  BY <1>3, <1>4 DEF StrictSubsetOrdering
<1> QED
  BY <1>4

(* Two iterations agree where both are defined.                            *)
LEMMA IterationsAgree ==
  ASSUME NEW S, IsFiniteSet(S), NEW T \in SUBSET S, NEW f, NEW g, NEW h,
         IsIteration(g, f, S), IsIteration(h, f, T)
  PROVE  \A s \in SUBSET T : g[s] = h[s]
<1> DEFINE Bad == {s \in SUBSET T : g[s] # h[s]}
<1>1. SUFFICES ASSUME Bad # {} PROVE FALSE
  OBVIOUS
<1>2. IsFiniteSet(T)
  BY FS_Subset
<1>3. PICK s \in Bad : \A u \in SUBSET s : u # s => u \notin Bad
  <2>1. Bad \subseteq SUBSET T
    OBVIOUS
  <2> HIDE DEF Bad
  <2> QED
    BY <1>1, <1>2, <2>1, SmallestSubset
<1>4. s # {}
  BY DEF IsIteration
<1>5. First(s) \in s
  BY <1>4, FirstIsElement
<1>6. s \ {First(s)} \in SUBSET s /\ s \ {First(s)} # s
  BY <1>5
<1>7. g[s \ {First(s)}] = h[s \ {First(s)}]
  BY <1>3, <1>6
<1>8. s \in SUBSET S
  OBVIOUS
<1>9. g[s] = f[First(s)] + g[s \ {First(s)}]
  BY <1>4, <1>8 DEF IsIteration
<1>10. h[s] = f[First(s)] + h[s \ {First(s)}]
  BY <1>4 DEF IsIteration
<1> QED
  BY <1>7, <1>9, <1>10

(* There is an iteration over every finite set.                            *)
LEMMA IterationExists ==
  ASSUME NEW S, IsFiniteSet(S), NEW f
  PROVE  IsIteration(Iteration(f, S), f, S)
<1> DEFINE Bad == {s \in SUBSET S : ~ \E g : IsIteration(g, f, s)}
<1>1. SUFFICES ASSUME Bad # {} PROVE FALSE
  BY DEF Iteration
<1>2. PICK T \in Bad : \A u \in SUBSET T : u # T => u \notin Bad
  <2>1. Bad \subseteq SUBSET S
    OBVIOUS
  <2> HIDE DEF Bad
  <2> QED
    BY <1>1, <2>1, SmallestSubset
<1>3. ASSUME NEW u \in SUBSET T, u # T
      PROVE  IsIteration(Iteration(f, u), f, u)
  BY <1>2, <1>3 DEF Iteration
<1> DEFINE V(u) == Iteration(f, u)[u]
           g == [s \in SUBSET T |-> IF s = {} THEN 0
                                    ELSE f[First(s)] + V(s \ {First(s)})]
<1>4. ASSUME NEW u \in SUBSET T, u # T
      PROVE  g[u] = V(u)
  <2>1. CASE u = {}
    <3>1. Iteration(f, u)[u] = 0
      BY <1>3, <1>4, <2>1 DEF IsIteration
    <3> QED
      BY <2>1, <3>1
  <2>2. CASE u # {}
    <3> DEFINE w == u \ {First(u)}
    <3>1. w \in SUBSET u /\ w # u /\ w \in SUBSET T /\ w # T
      BY <2>2, FirstIsElement
    <3>2. IsIteration(Iteration(f, u), f, u) /\ IsIteration(Iteration(f, w), f, w)
      BY <1>3, <1>4, <3>1
    <3>3. IsFiniteSet(u)
      BY FS_Subset
    <3>4. Iteration(f, u)[w] = Iteration(f, w)[w]
      <4> HIDE DEF w
      <4> QED
        BY <3>1, <3>2, <3>3, IterationsAgree
    <3>5. Iteration(f, u)[u] = f[First(u)] + Iteration(f, u)[w]
      BY <2>2, <3>2 DEF IsIteration
    <3> QED
      BY <2>2, <3>4, <3>5
  <2> QED
    BY <2>1, <2>2
<1>5. IsIteration(g, f, T)
  <2>1. ASSUME NEW s \in SUBSET T, s # {}
        PROVE  g[s] = f[First(s)] + g[s \ {First(s)}]
    <3>1. s \ {First(s)} \in SUBSET T /\ s \ {First(s)} # T
      BY <2>1, FirstIsElement
    <3>2. g[s \ {First(s)}] = V(s \ {First(s)})
      BY <1>4, <3>1
    <3> QED
      BY <2>1, <3>2
  <2>2. g[{}] = 0
    OBVIOUS
  <2>3. g = [s \in SUBSET T |-> IF s = {} THEN 0 ELSE f[First(s)] + g[s \ {First(s)}]]
    <3> DEFINE k == [s \in SUBSET T |-> IF s = {} THEN 0 ELSE f[First(s)] + g[s \ {First(s)}]]
    <3>1. \A s \in SUBSET T : g[s] = k[s]
      <4> SUFFICES ASSUME NEW s \in SUBSET T PROVE g[s] = k[s]
        OBVIOUS
      <4>1. CASE s = {}
        BY <4>1, <2>2
      <4>2. CASE s # {}
        <5>1. g[s] = f[First(s)] + g[s \ {First(s)}]
          BY <4>2, <2>1
        <5> HIDE DEF g
        <5> QED
          BY <4>2, <5>1
      <4> QED BY <4>1, <4>2
    <3>2. DOMAIN g = SUBSET T /\ DOMAIN k = SUBSET T
      OBVIOUS
    <3>3. g = [s \in DOMAIN g |-> g[s]] /\ k = [s \in DOMAIN k |-> k[s]]
      OBVIOUS
    <3> HIDE DEF g, k
    <3>4. g = k
      BY <3>1, <3>2, <3>3
    <3> QED
      BY <3>4 DEF k
  <2> HIDE DEF g
  <2> QED
    BY <2>3 DEF IsIteration
<1> QED
  BY <1>2, <1>5

(***************************************************************************)
(* The recursion, justified.                                               *)
(***************************************************************************)
LEMMA SumUnfolds ==
  ASSUME NEW S, IsFiniteSet(S), NEW f
  PROVE  SumFunctionOnSet(f, S) =
           IF S = {} THEN 0
           ELSE f[First(S)] + SumFunctionOnSet(f, S \ {First(S)})
<1>1. IsIteration(Iteration(f, S), f, S)
  BY IterationExists
<1>2. CASE S = {}
  BY <1>1, <1>2, SumIsIteration DEF IsIteration
<1>3. CASE S # {}
  <2> DEFINE T == S \ {First(S)}
  <2>1. IsFiniteSet(T) /\ T \in SUBSET S
    BY FS_Subset
  <2>2. IsIteration(Iteration(f, T), f, T)
    BY <2>1, IterationExists
  <2>3. Iteration(f, S)[T] = Iteration(f, T)[T]
    BY <1>1, <2>1, <2>2, IterationsAgree
  <2>4. Iteration(f, S)[S] = f[First(S)] + Iteration(f, S)[T]
    BY <1>1, <1>3 DEF IsIteration
  <2> QED
    BY <1>3, <2>3, <2>4, SumIsIteration
<1> QED
  BY <1>2, <1>3

-----------------------------------------------------------------------------
(***************************************************************************)
(* What the ledgers use.                                                   *)
(***************************************************************************)

(* An empty sum.                                                           *)
LEMMA SumOfNone ==
  ASSUME NEW f
  PROVE  SumFunctionOnSet(f, {}) = 0
BY SumUnfolds, FS_EmptySet

(* A sum depends on the terms only.                                        *)
LEMMA SumOfSame ==
  ASSUME NEW S, IsFiniteSet(S), NEW f, NEW g, \A x \in S : f[x] = g[x]
  PROVE  SumFunctionOnSet(f, S) = SumFunctionOnSet(g, S)
<1> DEFINE Bad == {s \in SUBSET S : SumFunctionOnSet(f, s) # SumFunctionOnSet(g, s)}
<1>1. SUFFICES ASSUME Bad # {} PROVE FALSE
  OBVIOUS
<1>2. PICK T \in Bad : \A u \in SUBSET T : u # T => u \notin Bad
  <2>1. Bad \subseteq SUBSET S
    OBVIOUS
  <2> HIDE DEF Bad
  <2> QED
    BY <1>1, <2>1, SmallestSubset
<1>3. IsFiniteSet(T)
  BY FS_Subset
<1>4. T # {}
  BY SumOfNone
<1>5. First(T) \in T
  BY <1>4, FirstIsElement
<1>6. SumFunctionOnSet(f, T \ {First(T)}) = SumFunctionOnSet(g, T \ {First(T)})
  BY <1>2, <1>5
<1>7. f[First(T)] = g[First(T)]
  BY <1>5
<1>8. SumFunctionOnSet(f, T) = f[First(T)] + SumFunctionOnSet(f, T \ {First(T)})
  BY <1>3, <1>4, SumUnfolds
<1>9. SumFunctionOnSet(g, T) = g[First(T)] + SumFunctionOnSet(g, T \ {First(T)})
  BY <1>3, <1>4, SumUnfolds
<1> QED
  BY <1>6, <1>7, <1>8, <1>9

(* Natural terms have a natural sum.                                       *)
LEMMA SumIsNat ==
  ASSUME NEW S, IsFiniteSet(S), NEW f, \A x \in S : f[x] \in Nat
  PROVE  SumFunctionOnSet(f, S) \in Nat
<1> DEFINE Bad == {s \in SUBSET S : SumFunctionOnSet(f, s) \notin Nat}
<1>1. SUFFICES ASSUME Bad # {} PROVE FALSE
  OBVIOUS
<1>2. PICK T \in Bad : \A u \in SUBSET T : u # T => u \notin Bad
  <2>1. Bad \subseteq SUBSET S
    OBVIOUS
  <2> HIDE DEF Bad
  <2> QED
    BY <1>1, <2>1, SmallestSubset
<1>3. IsFiniteSet(T)
  BY FS_Subset
<1>4. T # {}
  BY SumOfNone
<1>5. First(T) \in T
  BY <1>4, FirstIsElement
<1>6. SumFunctionOnSet(f, T \ {First(T)}) \in Nat
  BY <1>2, <1>5
<1>7. f[First(T)] \in Nat
  BY <1>5
<1>8. SumFunctionOnSet(f, T) = f[First(T)] + SumFunctionOnSet(f, T \ {First(T)})
  BY <1>3, <1>4, SumUnfolds
<1> QED
  BY <1>6, <1>7, <1>8

(* Any element may be taken first.                                         *)
LEMMA SumTakesAny ==
  ASSUME NEW S, IsFiniteSet(S), NEW f, \A x \in S : f[x] \in Nat, NEW y \in S
  PROVE  SumFunctionOnSet(f, S) = f[y] + SumFunctionOnSet(f, S \ {y})
<1> DEFINE Odd(s, z) == SumFunctionOnSet(f, s) # f[z] + SumFunctionOnSet(f, s \ {z})
           Bad == {s \in SUBSET S : \E z \in s : Odd(s, z)}
<1>1. SUFFICES ASSUME Bad # {} PROVE FALSE
  OBVIOUS
<1>2. PICK T \in Bad : \A u \in SUBSET T : u # T => u \notin Bad
  <2>1. Bad \subseteq SUBSET S
    OBVIOUS
  <2> HIDE DEF Bad
  <2> QED
    BY <1>1, <2>1, SmallestSubset
<1>3. PICK z \in T : Odd(T, z)
  OBVIOUS
<1> DEFINE c == First(T)
<1>4. c \in T
  BY FirstIsElement
<1>5. \A s \in SUBSET T : IsFiniteSet(s)
  BY FS_Subset
<1>6. SumFunctionOnSet(f, T) = f[c] + SumFunctionOnSet(f, T \ {c})
  BY <1>4, <1>5, SumUnfolds
<1>7. c # z
  BY <1>3, <1>6
<1>8. SumFunctionOnSet(f, T \ {c}) = f[z] + SumFunctionOnSet(f, (T \ {c}) \ {z})
  <2>1. T \ {c} \in SUBSET T /\ T \ {c} # T /\ z \in T \ {c}
    BY <1>4, <1>7
  <2> QED
    BY <1>2, <2>1
<1>9. SumFunctionOnSet(f, T \ {z}) = f[c] + SumFunctionOnSet(f, (T \ {z}) \ {c})
  <2>1. T \ {z} \in SUBSET T /\ T \ {z} # T /\ c \in T \ {z}
    BY <1>4, <1>7
  <2> QED
    BY <1>2, <2>1
<1>10. (T \ {z}) \ {c} = (T \ {c}) \ {z}
  OBVIOUS
<1>11. /\ f[c] \in Nat /\ f[z] \in Nat
       /\ SumFunctionOnSet(f, (T \ {c}) \ {z}) \in Nat
  <2>1. (T \ {c}) \ {z} \in SUBSET S
    OBVIOUS
  <2>2. IsFiniteSet((T \ {c}) \ {z})
    BY <2>1, FS_Subset
  <2> QED
    BY <1>4, <2>1, <2>2, SumIsNat
<1> HIDE DEF c
<1> QED
  BY <1>3, <1>6, <1>8, <1>9, <1>10, <1>11

(* A new element adds its term.                                            *)
LEMMA SumAdds ==
  ASSUME NEW S, IsFiniteSet(S), NEW y, y \notin S,
         NEW f, \A x \in S \cup {y} : f[x] \in Nat
  PROVE  SumFunctionOnSet(f, S \cup {y}) = SumFunctionOnSet(f, S) + f[y]
<1>1. IsFiniteSet(S \cup {y})
  BY FS_AddElement
<1>2. (S \cup {y}) \ {y} = S
  OBVIOUS
<1>3. SumFunctionOnSet(f, S \cup {y}) = f[y] + SumFunctionOnSet(f, (S \cup {y}) \ {y})
  BY <1>1, SumTakesAny
<1>4. SumFunctionOnSet(f, S) \in Nat /\ f[y] \in Nat
  BY SumIsNat
<1> QED
  BY <1>2, <1>3, <1>4

(* A set with one element more, perhaps, and with one less.                *)
LEMMA SumAddsAtMost ==
  ASSUME NEW S, IsFiniteSet(S), NEW y, NEW f, NEW g,
         \A x \in S : g[x] \in Nat /\ f[x] = g[x], g[y] \in Nat
  PROVE  /\ SumFunctionOnSet(f, S) \in Nat
         /\ SumFunctionOnSet(g, S \cup {y}) \in Nat
         /\ SumFunctionOnSet(g, S \cup {y}) <= SumFunctionOnSet(f, S) + g[y]
<1>1. SumFunctionOnSet(f, S) = SumFunctionOnSet(g, S)
  BY SumOfSame
<1>2. SumFunctionOnSet(g, S) \in Nat
  BY SumIsNat
<1>3. CASE y \in S
  <2>1. S \cup {y} = S
    BY <1>3
  <2> QED
    BY <1>1, <1>2, <2>1
<1>4. CASE y \notin S
  <2>1. SumFunctionOnSet(g, S \cup {y}) = SumFunctionOnSet(g, S) + g[y]
    BY <1>4, SumAdds
  <2> QED
    BY <1>1, <1>2, <2>1
<1> QED
  BY <1>3, <1>4

LEMMA SumDrops ==
  ASSUME NEW S, IsFiniteSet(S), NEW y \in S, NEW f, NEW g,
         \A x \in S : f[x] \in Nat, \A x \in S \ {y} : g[x] = f[x]
  PROVE  /\ SumFunctionOnSet(f, S) \in Nat
         /\ SumFunctionOnSet(g, S \ {y}) \in Nat
         /\ SumFunctionOnSet(g, S \ {y}) = SumFunctionOnSet(f, S) - f[y]
<1>1. IsFiniteSet(S \ {y})
  BY FS_RemoveElement
<1>2. SumFunctionOnSet(g, S \ {y}) = SumFunctionOnSet(f, S \ {y})
  BY <1>1, SumOfSame
<1>3. SumFunctionOnSet(f, S \ {y}) \in Nat
  BY <1>1, SumIsNat
<1>4. SumFunctionOnSet(f, S) = f[y] + SumFunctionOnSet(f, S \ {y})
  BY SumTakesAny
<1> QED
  BY <1>2, <1>3, <1>4

(* When one term changes, the sum changes by as much.                      *)
LEMMA SumChanges ==
  ASSUME NEW S, IsFiniteSet(S), NEW y \in S, NEW f, NEW g,
         \A x \in S : f[x] \in Nat /\ g[x] \in Nat,
         \A x \in S : x # y => g[x] = f[x]
  PROVE  /\ SumFunctionOnSet(f, S) \in Nat /\ SumFunctionOnSet(g, S) \in Nat
         /\ SumFunctionOnSet(g, S) = SumFunctionOnSet(f, S) - f[y] + g[y]
<1> DEFINE R == S \ {y}
<1>1. IsFiniteSet(R)
  BY FS_Subset
<1>2. SumFunctionOnSet(f, R) = SumFunctionOnSet(g, R)
  BY <1>1, SumOfSame
<1>3. SumFunctionOnSet(f, S) = f[y] + SumFunctionOnSet(f, R)
  BY SumTakesAny
<1>4. SumFunctionOnSet(g, S) = g[y] + SumFunctionOnSet(g, R)
  BY SumTakesAny
<1>5. SumFunctionOnSet(f, R) \in Nat
  BY <1>1, SumIsNat
<1> QED
  BY <1>2, <1>3, <1>4, <1>5

(* Terms that are nothing add up to nothing.                               *)
LEMMA SumOfZeros ==
  ASSUME NEW S, IsFiniteSet(S), NEW f, \A x \in S : f[x] = 0
  PROVE  SumFunctionOnSet(f, S) = 0
<1> DEFINE Bad == {s \in SUBSET S : SumFunctionOnSet(f, s) # 0}
<1>1. SUFFICES ASSUME Bad # {} PROVE FALSE
  OBVIOUS
<1>2. PICK T \in Bad : \A u \in SUBSET T : u # T => u \notin Bad
  <2>1. Bad \subseteq SUBSET S
    OBVIOUS
  <2> HIDE DEF Bad
  <2> QED
    BY <1>1, <2>1, SmallestSubset
<1>3. IsFiniteSet(T)
  BY FS_Subset
<1>4. T # {}
  BY SumOfNone
<1>5. First(T) \in T
  BY <1>4, FirstIsElement
<1>6. SumFunctionOnSet(f, T \ {First(T)}) = 0
  BY <1>2, <1>5
<1>7. SumFunctionOnSet(f, T) = f[First(T)] + SumFunctionOnSet(f, T \ {First(T)})
  BY <1>3, <1>4, SumUnfolds
<1> QED
  BY <1>5, <1>6, <1>7

(* As many times the same term as there are elements that have it.         *)
LEMMA SumOfEqual ==
  ASSUME NEW S, IsFiniteSet(S), NEW U, U \subseteq S, NEW c \in Nat, NEW f,
         \A x \in S : f[x] = IF x \in U THEN c ELSE 0
  PROVE  SumFunctionOnSet(f, S) = Cardinality(U) * c
<1> DEFINE Bad == {s \in SUBSET S : SumFunctionOnSet(f, s) # Cardinality(s \cap U) * c}
<1>1. SUFFICES ASSUME Bad # {} PROVE FALSE
  <2>1. S \notin Bad => SumFunctionOnSet(f, S) = Cardinality(S \cap U) * c
    OBVIOUS
  <2>2. S \cap U = U
    OBVIOUS
  <2> QED
    BY <2>1, <2>2
<1>2. PICK T \in Bad : \A u \in SUBSET T : u # T => u \notin Bad
  <2>1. Bad \subseteq SUBSET S
    OBVIOUS
  <2> HIDE DEF Bad
  <2> QED
    BY <1>1, <2>1, SmallestSubset
<1>3. IsFiniteSet(T) /\ IsFiniteSet(T \cap U)
  BY FS_Subset
<1>4. T # {}
  BY SumOfNone, FS_EmptySet
<1>5. PICK y : y \in T /\ y = First(T)
  BY <1>4, FirstIsElement
<1>6. SumFunctionOnSet(f, T \ {y}) = Cardinality((T \ {y}) \cap U) * c
  BY <1>2, <1>5
<1>7. SumFunctionOnSet(f, T) = f[y] + SumFunctionOnSet(f, T \ {y})
  BY <1>3, <1>4, <1>5, SumUnfolds
<1>8. CASE y \in U
  <2>1. y \in T \cap U /\ (T \ {y}) \cap U = (T \cap U) \ {y}
    BY <1>5, <1>8
  <2>2. PICK n \in Nat : n = Cardinality((T \ {y}) \cap U)
    <3>1. IsFiniteSet((T \ {y}) \cap U)
      BY <1>3, <2>1, FS_RemoveElement
    <3> QED
      BY <3>1, FS_CardinalityType
  <2>3. Cardinality(T \cap U) = n + 1
    <3>1. Cardinality(T \cap U) \in Nat
      BY <1>3, FS_CardinalityType
    <3>2. Cardinality((T \cap U) \ {y}) = Cardinality(T \cap U) - 1
      BY <1>3, <2>1, FS_RemoveElement
    <3>3. n = Cardinality((T \cap U) \ {y})
      BY <2>1, <2>2
    <3> QED
      BY <3>1, <3>2, <3>3, n \in Nat
  <2>4. f[y] = c
    BY <1>5, <1>8
  <2>5. SumFunctionOnSet(f, T) = n * c + c
    BY <1>6, <1>7, <2>2, <2>4
  <2>6. n * c + c = (n + 1) * c
    OBVIOUS
  <2> QED
    BY <1>2, <2>3, <2>5, <2>6
<1>9. CASE y \notin U
  <2>1. (T \ {y}) \cap U = T \cap U
    BY <1>9
  <2>2. f[y] = 0
    BY <1>5, <1>9
  <2>3. PICK n \in Nat : n = Cardinality(T \cap U)
    BY <1>3, FS_CardinalityType
  <2>4. PICK x : x = n * c /\ x = Cardinality(T \cap U) * c
    BY <2>3
  <2>5. SumFunctionOnSet(f, T \ {y}) = x
    BY <1>6, <2>1, <2>4
  <2>6. x \in Nat
    BY <2>4
  <2>7. SumFunctionOnSet(f, T) = x
    BY <1>7, <2>2, <2>5, <2>6
  <2> QED
    BY <1>2, <2>4, <2>7
<1> QED
  BY <1>8, <1>9

(* A sum of differences is the difference of the sums.                     *)
LEMMA SumOfDifferences ==
  ASSUME NEW S, IsFiniteSet(S), NEW f, NEW g, NEW h,
         \A x \in S : f[x] \in Nat /\ g[x] \in Nat /\ h[x] + g[x] = f[x] /\ h[x] \in Nat
  PROVE  SumFunctionOnSet(h, S) + SumFunctionOnSet(g, S) = SumFunctionOnSet(f, S)
<1> DEFINE Bad == {s \in SUBSET S :
       SumFunctionOnSet(h, s) + SumFunctionOnSet(g, s) # SumFunctionOnSet(f, s)}
<1>1. SUFFICES ASSUME Bad # {} PROVE FALSE
  OBVIOUS
<1>2. PICK T \in Bad : \A u \in SUBSET T : u # T => u \notin Bad
  <2>1. Bad \subseteq SUBSET S
    OBVIOUS
  <2> HIDE DEF Bad
  <2> QED
    BY <1>1, <2>1, SmallestSubset
<1>3. IsFiniteSet(T)
  BY FS_Subset
<1>4. T # {}
  BY SumOfNone
<1>5. PICK y : y \in T /\ y = First(T)
  BY <1>4, FirstIsElement
<1>6. IsFiniteSet(T \ {y})
  BY <1>3, FS_Subset
<1>7. SumFunctionOnSet(h, T \ {y}) + SumFunctionOnSet(g, T \ {y}) = SumFunctionOnSet(f, T \ {y})
  BY <1>2, <1>5
<1>8. /\ SumFunctionOnSet(f, T) = f[y] + SumFunctionOnSet(f, T \ {y})
      /\ SumFunctionOnSet(g, T) = g[y] + SumFunctionOnSet(g, T \ {y})
      /\ SumFunctionOnSet(h, T) = h[y] + SumFunctionOnSet(h, T \ {y})
  BY <1>3, <1>4, <1>5, SumUnfolds
<1>9. /\ SumFunctionOnSet(f, T \ {y}) \in Nat /\ SumFunctionOnSet(g, T \ {y}) \in Nat
      /\ SumFunctionOnSet(h, T \ {y}) \in Nat
  BY <1>2, <1>6, SumIsNat
<1>10. f[y] \in Nat /\ g[y] \in Nat /\ h[y] \in Nat /\ h[y] + g[y] = f[y]
  BY <1>5
<1>11. SumFunctionOnSet(h, T) + SumFunctionOnSet(g, T) = SumFunctionOnSet(f, T)
  BY <1>7, <1>8, <1>9, <1>10
<1> QED
  BY <1>2, <1>11

-----------------------------------------------------------------------------
(* Arithmetic at the edges of the wire.                                    *)

(* Rounding down to a whole number of units (RemoveDust, FeeOf).           *)
LEMMA DivBelow ==
  ASSUME NEW x \in Nat, NEW q \in Nat \ {0}
  PROVE  /\ x \div q \in Nat
         /\ (x \div q) * q \in Nat
         /\ (x \div q) * q <= x
<1>1. x = (q * (x \div q)) + (x % q) /\ x \div q \in Int /\ x % q \in 0..(q - 1)
  OBVIOUS
<1>2. x \div q >= 0
  BY <1>1
<1> QED
  BY <1>1, <1>2

(* The solver multiplies two variables only when told what it is for.      *)
LEMMA ProductNat ==
  ASSUME NEW x \in Nat, NEW y \in Nat
  PROVE  x * y \in Nat
OBVIOUS

(* A fee, and what is left of an amount once its dust is removed.          *)
LEMMA AmountTypes ==
  ASSUME NEW x \in Nat, NEW q \in Nat \ {0}
  PROVE  /\ ToShared(x, q) \in Nat
         /\ ToLocal(x, q) \in Nat
         /\ RemoveDust(x, q) \in Nat
         /\ RemoveDust(x, q) <= x
         /\ FloorToShared(x, q) \in Nat
<1>1. x \div q \in Nat /\ (x \div q) * q \in Nat /\ (x \div q) * q <= x
  BY DivBelow
<1>2. x * q \in Nat
  BY ProductNat
<1>3. FloorToShared(x, q) \in Nat
  BY <1>1 DEF FloorToShared
<1> QED
  BY <1>1, <1>2, <1>3 DEF ToShared, ToLocal, RemoveDust

(* Multiplying keeps an order; the solver needs it one unit at a time.     *)
LEMMA ProductOrder ==
  ASSUME NEW a \in Nat, NEW b \in Nat, NEW q \in Nat, a <= b
  PROVE  a * q <= b * q
<1>1. (b - a) * q = (b * q) - (a * q)
  OBVIOUS
<1>2. b - a \in Nat
  OBVIOUS
<1>3. (b - a) * q \in Nat
  BY <1>2, ProductNat
<1>4. a * q \in Nat /\ b * q \in Nat
  BY ProductNat
<1> QED
  BY <1>1, <1>3, <1>4

(* An amount worth s units is still s units after the dust is removed.     *)
LEMMA UnitsKept ==
  ASSUME NEW x \in Nat, NEW s \in Nat, NEW q \in Nat \ {0}, s * q <= x
  PROVE  s <= x \div q
<1>1. /\ x = (q * (x \div q)) + (x % q)
      /\ x \div q \in Nat /\ x % q \in 0..(q - 1)
  BY DivBelow
<1> DEFINE d == x \div q
<1>2. d \in Nat /\ x < (d + 1) * q
  BY <1>1
<1> HIDE DEF d
<1>3. ASSUME d + 1 <= s
      PROVE  FALSE
  <2>1. (d + 1) * q <= s * q
    BY <1>2, <1>3, ProductOrder
  <2>2. s * q \in Nat /\ (d + 1) * q \in Nat
    BY <1>2, ProductNat
  <2> QED
    BY <1>2, <2>1, <2>2
<1>4. s <= d
  BY <1>2, <1>3
<1> QED
  BY <1>4 DEF d

(***************************************************************************)
(* What meets the venue's floor is one unit at least, and the order's      *)
(* floor once the dust is removed; a saturated floor is never met.         *)
(***************************************************************************)
LEMMA FloorMet ==
  ASSUME NEW out \in Nat, NEW max \in Nat, NEW min \in Nat, NEW q \in Nat \ {0},
         out < max, out >= VenueFloor(min, q, max)
  PROVE  out >= q /\ out \div q >= min
<1>1. min * q \in Nat /\ max \div q \in Nat
  BY ProductNat, DivBelow
<1>2. CASE min > max \div q
  BY <1>1, <1>2 DEF VenueFloor
<1>3. CASE ~(min > max \div q)
  <2>1. out >= q /\ out >= min * q
    BY <1>1, <1>3 DEF VenueFloor, ToLocal
  <2> QED
    BY <1>1, <2>1, UnitsKept
<1> QED
  BY <1>2, <1>3

(* Whole units are as many on both sides of the bridge.                    *)
LEMMA UnitsExact ==
  ASSUME NEW s \in Nat, NEW q \in Nat \ {0}
  PROVE  ToShared(ToLocal(s, q), q) = s
<1>0. s * q \in Nat
  OBVIOUS
<1>1. PICK x \in Nat : x = s * q
  BY <1>0
<1>2. s <= x \div q
  BY <1>1, UnitsKept
<1>3. /\ x = q * (x \div q) + (x % q)
      /\ x \div q \in Nat /\ x % q \in 0..(q - 1)
  OBVIOUS
<1>4. PICK d \in Nat : d = x \div q
  BY <1>3
<1>5. d <= s
  <2> SUFFICES ASSUME s + 1 <= d
               PROVE  FALSE
    BY <1>4
  <2>1. (s + 1) * q <= d * q
    BY <1>4, ProductOrder
  <2>2. (s + 1) * q = s * q + q /\ d * q = q * d
    OBVIOUS
  <2> QED
    BY <1>1, <1>3, <1>4, <2>1, <2>2
<1> QED
  BY <1>1, <1>2, <1>4, <1>5 DEF ToShared, ToLocal

(* A fee in parts of FeeUnit is a natural number.                          *)
LEMMA FeeType ==
  ASSUME NEW gross \in Nat, NEW bps \in Nat, NEW unit \in Nat \ {0}
  PROVE  FeeOf(gross, bps, unit) \in Nat
<1>1. gross * bps \in Nat
  BY ProductNat
<1> QED
  BY <1>1, DivBelow DEF FeeOf

-----------------------------------------------------------------------------
(* One asset on one chain.                                                 *)

(* A transfer the sender can pay, to an account or to nobody.              *)
LEMMA TransferType ==
  ASSUME NEW k \in Token, NEW a \in Accounts, NEW b, NEW x \in Nat, CanPay(k, a, x)
  PROVE  Transfer(k, a, b, x) \in Token
BY DEF Token, CanPay, Transfer

(* A burn the account can pay.                                             *)
LEMMA BurnType ==
  ASSUME NEW k \in Token, NEW a \in Accounts, NEW x \in Nat, CanPay(k, a, x)
  PROVE  Burn(k, a, x) \in Token
<1> DEFINE less == [k.bal EXCEPT ![a] = @ - x]
           count == k.out + x
<1>1. less \in [Accounts -> Nat] /\ count \in Nat
  BY DEF Token, CanPay
<1>2. Burn(k, a, x) = [k EXCEPT !.bal = less, !.out = count]
  BY DEF Burn
<1> HIDE DEF less, count
<1> QED
  BY <1>1, <1>2 DEF Token

(* A mint, to an account or to nobody.                                     *)
LEMMA MintType ==
  ASSUME NEW k \in Token, NEW a, NEW x \in Nat
  PROVE  Mint(k, a, x) \in Token
<1> DEFINE more == [k.bal EXCEPT ![a] = @ + x]
           count == k.in + x
<1>1. more \in [Accounts -> Nat] /\ count \in Nat
  <2>1. CASE a \in Accounts
    BY <2>1 DEF Token
  <2>2. CASE a \notin Accounts
    <3>1. k.bal \in [Accounts -> Nat] /\ count \in Nat
      BY DEF Token
    <3>2. more = k.bal
      BY <2>2, <3>1
    <3> QED
      BY <3>1, <3>2
  <2> QED
    BY <2>1, <2>2
<1>2. Mint(k, a, x) = [k EXCEPT !.bal = more, !.in = count]
  BY DEF Mint
<1> HIDE DEF more, count
<1> QED
  BY <1>1, <1>2 DEF Token

(* What a transfer between two accounts does to every balance.             *)
LEMMA TransferMoves ==
  ASSUME NEW k \in Token, NEW a \in Accounts, NEW b \in Accounts, a # b, NEW x \in Nat
  PROVE  /\ Transfer(k, a, b, x).bal[a] = k.bal[a] - x
         /\ Transfer(k, a, b, x).bal[b] = k.bal[b] + x
         /\ \A c \in Accounts \ {a, b} : Transfer(k, a, b, x).bal[c] = k.bal[c]
         /\ Transfer(k, a, b, x).out = k.out
         /\ Transfer(k, a, b, x).in = k.in
         /\ \A c \in Accounts : k.bal[c] \in Nat
BY DEF Transfer, Token

(* A transfer to oneself.                                                  *)
LEMMA TransferToSelf ==
  ASSUME NEW k \in Token, NEW a \in Accounts, NEW x \in Nat
  PROVE  \A c \in Accounts : Transfer(k, a, a, x).bal[c] = k.bal[c] /\ k.bal[c] \in Nat
BY DEF Transfer, Token

(* What a mint does to every balance and to the counters.                  *)
LEMMA MintMoves ==
  ASSUME NEW k \in Token, NEW a \in Accounts, NEW x \in Nat
  PROVE  /\ Mint(k, a, x).bal[a] = k.bal[a] + x
         /\ \A c \in Accounts \ {a} : Mint(k, a, x).bal[c] = k.bal[c]
         /\ Mint(k, a, x).out = k.out
         /\ Mint(k, a, x).in = k.in + x
         /\ \A c \in Accounts : k.bal[c] \in Nat
<1> DEFINE more == [k.bal EXCEPT ![a] = @ + x]
<1>1. Mint(k, a, x) = [k EXCEPT !.bal = more, !.in = k.in + x]
  BY DEF Mint
<1>2. k \in [bal : [Accounts -> Nat], out : Nat, in : Nat]
  BY DEF Token
<1>3. more \in [Accounts -> Nat] /\ more[a] = k.bal[a] + x
      /\ \A c \in Accounts \ {a} : more[c] = k.bal[c]
  BY <1>2
<1> HIDE DEF more
<1> QED
  BY <1>1, <1>2, <1>3

(* What a burn does to them.                                               *)
LEMMA BurnMoves ==
  ASSUME NEW k \in Token, NEW a \in Accounts, NEW x \in Nat
  PROVE  /\ Burn(k, a, x).bal[a] = k.bal[a] - x
         /\ \A c \in Accounts \ {a} : Burn(k, a, x).bal[c] = k.bal[c]
         /\ Burn(k, a, x).out = k.out + x
         /\ Burn(k, a, x).in = k.in
         /\ \A c \in Accounts : k.bal[c] \in Nat
<1> DEFINE less == [k.bal EXCEPT ![a] = @ - x]
<1>1. Burn(k, a, x) = [k EXCEPT !.bal = less, !.out = k.out + x]
  BY DEF Burn
<1>2. k \in [bal : [Accounts -> Nat], out : Nat, in : Nat]
  BY DEF Token
<1>3. less \in [Accounts -> Int] /\ less[a] = k.bal[a] - x
      /\ \A c \in Accounts \ {a} : less[c] = k.bal[c]
  BY <1>2
<1> HIDE DEF less
<1> QED
  BY <1>1, <1>2, <1>3

(* The contract is nobody who trades.                                      *)
LEMMA ContractApart == \A u \in Users : u # Contract /\ u # World /\ u # Vault
BY NamesAssumption

=============================================================================
