------------------------- MODULE InductionLemmas -------------------------
(***************************************************************************)
(* Induction and recursion, and sums over finite sets.  The library's      *)
(* induction principles take an operator; a minimal counterexample (WFMin) *)
(* serves instead, and a recursion is solved level by level.               *)
(***************************************************************************)
EXTENDS Integers, FiniteSetsExt, FiniteSetTheorems, TLAPS

(* There is a least natural number in every non-empty set of them.         *)
LEMMA LeastNat ==
    ASSUME NEW T \in SUBSET Nat, T # {}
    PROVE  \E n \in T : \A m \in T : n <= m
    <1>1. PICK n \in T : \A m \in T : <<m, n>> \notin OpToRel(<, Nat)
      BY NatLessThanWellFounded, WFMin
    <1>2. ASSUME NEW m \in T PROVE n <= m
      <2>1. CASE m < n
        <3>1. <<m, n>> \in OpToRel(<, Nat)
          BY <2>1 DEF OpToRel
        <3>2. QED
          BY <1>1, <3>1
      <2>2. QED
        BY <2>1
    <1>3. QED
      BY <1>2

(* There is a minimal set in every non-empty set of subsets of a finite    *)
(* one.                                                                    *)
LEMMA MinimalSubset ==
    ASSUME NEW U, IsFiniteSet(U), NEW T \in SUBSET (SUBSET U), T # {}
    PROVE  \E s \in T : \A r \in T : r \subseteq s => r = s
    <1>1. IsWellFoundedOn(StrictSubsetOrdering(U), SUBSET U)
      BY FS_StrictSubsetOrderingWellFounded, FS_FiniteSubsetsOfFinite
    <1>2. PICK s \in T : \A r \in T : <<r, s>> \notin StrictSubsetOrdering(U)
      BY <1>1, WFMin
    <1>3. QED
      BY <1>2 DEF StrictSubsetOrdering

-----------------------------------------------------------------------------
(* D is a forest with the roots B: par leads from a node one level down.   *)
Forest(D, B, par, level) ==
    /\ B \subseteq D
    /\ \A x \in D : level[x] \in Nat
    /\ \A x \in D \ B : par[x] \in D /\ level[x] = level[par[x]] + 1

(* One step of a recursion on it: st says how the value of a node follows  *)
(* from that of its parent.                                                *)
TreeStep(g, x, B, par, base, st) == IF x \in B THEN base[x] ELSE st[x][g[par[x]]]

(* The values V, the values at the roots and st make a recursion, and g    *)
(* solves it.                                                              *)
TreeRecursive(D, B, V, base, st) == base \in [B -> V] /\ st \in [D \ B -> [V -> V]]

TreeSolution(g, D, B, par, V, base, st) ==
    g \in [D -> V] /\ \A x \in D : g[x] = TreeStep(g, x, B, par, base, st)

(* A recursion over a forest has a solution.                               *)
LEMMA TreeRecursion ==
    ASSUME NEW D, NEW B, NEW V, NEW base, NEW st, NEW par, NEW level,
           Forest(D, B, par, level), TreeRecursive(D, B, V, base, st)
    PROVE  \E g : TreeSolution(g, D, B, par, V, base, st)
    <1> USE DEF Forest, TreeRecursive
    <1> DEFINE L(n) == {x \in D : level[x] <= n}
               Sol(g, n) == g \in [L(n) -> V] /\ \A x \in L(n) : g[x] = TreeStep(g, x, B, par, base, st)
               Solved(n) == \E g : Sol(g, n)
               Bad == {n \in Nat : ~Solved(n)}
    <1>h. ASSUME NEW x \in D \ B
          PROVE  level[x] \in Nat /\ level[par[x]] \in Nat /\ level[x] = level[par[x]] + 1
                 /\ par[x] \in D
      OBVIOUS
    <1>H. \A x \in D : level[x] \in Nat
      OBVIOUS
    <1> HIDE DEF Solved, Sol
    <1>1. Bad = {}
      <2>1. SUFFICES ASSUME Bad # {} PROVE FALSE
        OBVIOUS
      <2>2. PICK n \in Bad : \A m \in Bad : n <= m
        BY <2>1, LeastNat
      <2>3. n # 0
        <3>1. ASSUME NEW x \in L(0) PROVE x \in B
          BY <1>h, <1>H
        <3>2. Sol([x \in L(0) |-> base[x]], 0)
          BY <3>1 DEF Sol, TreeStep
        <3>3. QED
          BY <3>2, <2>2 DEF Solved
      <2>4. PICK g : Sol(g, n - 1)
        <3>1. n - 1 \in Nat /\ n - 1 \notin Bad
          BY <2>2, <2>3
        <3>2. Solved(n - 1)
          BY <3>1
        <3>3. QED
          BY <3>2, Zenon DEF Solved
      <2> DEFINE h == [x \in L(n) |-> TreeStep(g, x, B, par, base, st)]
      <2>5. ASSUME NEW x \in L(n) PROVE TreeStep(h, x, B, par, base, st) = TreeStep(g, x, B, par, base, st)
                                        /\ TreeStep(g, x, B, par, base, st) \in V
        <3>1. CASE x \in B
          BY <3>1 DEF TreeStep
        <3>2. CASE x \notin B
          <4>1. par[x] \in L(n - 1) /\ par[x] \in L(n)
            BY <1>h, <3>2, <2>2
          <4>2. h[par[x]] = TreeStep(g, par[x], B, par, base, st)
            BY <4>1
          <4>3. g[par[x]] = h[par[x]] /\ g[par[x]] \in V
            BY <4>1, <4>2, <2>4 DEF Sol
          <4>4. st[x][g[par[x]]] \in V
            BY <4>3, <3>2
          <4> HIDE DEF h
          <4>5. QED
            BY <4>3, <4>4, <3>2 DEF TreeStep
        <3>3. QED
          BY <3>1, <3>2
      <2>6. Sol(h, n)
        <3>1. h \in [L(n) -> V]
          BY <2>5
        <3>2. ASSUME NEW x \in L(n) PROVE h[x] = TreeStep(h, x, B, par, base, st)
          BY <2>5
        <3> HIDE DEF h
        <3>3. QED
          BY <3>1, <3>2 DEF Sol
      <2>7. QED
        BY <2>6, <2>2, Zenon DEF Solved
    <1> DEFINE sol == [n \in Nat |-> CHOOSE g : Sol(g, n)]
    <1>2. ASSUME NEW n \in Nat PROVE Sol(sol[n], n)
      <2>1. Solved(n)
        BY <1>1
      <2>2. Sol(CHOOSE g : Sol(g, n), n)
        BY <2>1, Zenon DEF Solved
      <2>3. QED
        BY <2>2
    <1> HIDE DEF sol
    <1>3. ASSUME NEW n \in Nat, NEW m \in Nat, NEW x \in D, level[x] <= n, level[x] <= m
          PROVE  sol[n][x] = sol[m][x]
      <2> DEFINE Differ == {k \in Nat : \E y \in D : level[y] = k /\ k <= n /\ k <= m /\ sol[n][y] # sol[m][y]}
      <2>1. SUFFICES ASSUME Differ # {} PROVE FALSE
        BY <1>3, <1>H
      <2>2. PICK k \in Differ : \A j \in Differ : k <= j
        <3> HIDE DEF Differ
        <3>1. Differ \in SUBSET Nat
          BY DEF Differ
        <3>2. QED
          BY <2>1, <3>1, LeastNat
      <2>3. PICK y \in D : level[y] = k /\ k <= n /\ k <= m /\ sol[n][y] # sol[m][y]
        BY <2>2
      <2>4. /\ sol[n][y] = TreeStep(sol[n], y, B, par, base, st)
            /\ sol[m][y] = TreeStep(sol[m], y, B, par, base, st)
        BY <2>3, <1>2 DEF Sol
      <2>5. y \notin B
        BY <2>3, <2>4 DEF TreeStep
      <2>6. sol[n][par[y]] # sol[m][par[y]]
        BY <2>3, <2>4, <2>5 DEF TreeStep
      <2>7. level[par[y]] \in Differ
        BY <1>h, <2>3, <2>5, <2>6
      <2>8. QED
        BY <2>7, <2>2, <2>3, <2>5, <1>h
    <1> DEFINE g == [x \in D |-> sol[level[x]][x]]
    <1>4. ASSUME NEW x \in D PROVE g[x] \in V /\ g[x] = TreeStep(g, x, B, par, base, st)
      <2>1. Sol(sol[level[x]], level[x]) /\ x \in L(level[x])
        BY <1>2, <1>H
      <2>2. g[x] = TreeStep(sol[level[x]], x, B, par, base, st) /\ g[x] \in V
        BY <2>1 DEF Sol
      <2>3. CASE x \in B
        BY <2>2, <2>3 DEF TreeStep
      <2>4. CASE x \notin B
        <3>1. sol[level[x]][par[x]] = sol[level[par[x]]][par[x]]
          <4>1. level[x] \in Nat /\ level[par[x]] \in Nat /\ par[x] \in D
                /\ level[par[x]] <= level[x] /\ level[par[x]] <= level[par[x]]
            BY <1>h, <2>4
          <4>2. QED
            BY <4>1, <1>3
        <3>2. g[par[x]] = sol[level[x]][par[x]]
          BY <1>h, <2>4, <3>1
        <3> HIDE DEF g
        <3>3. QED
          BY <3>2, <2>2, <2>4 DEF TreeStep
      <2>5. QED
        BY <2>3, <2>4
    <1>5. g \in [D -> V]
      BY <1>4
    <1> HIDE DEF g
    <1>6. TreeSolution(g, D, B, par, V, base, st)
      BY <1>4, <1>5 DEF TreeSolution
    <1>7. QED
      BY <1>6

(* And only one.                                                           *)
LEMMA TreeUnique ==
    ASSUME NEW D, NEW B, NEW V, NEW base, NEW st, NEW par, NEW level,
           Forest(D, B, par, level), TreeRecursive(D, B, V, base, st),
           NEW g, TreeSolution(g, D, B, par, V, base, st),
           NEW h, \A x \in B : h[x] = base[x],
           \A x \in D \ B : h[par[x]] \in V => h[x] = st[x][h[par[x]]]
    PROVE  \A x \in D : h[x] = g[x]
    <1> USE DEF Forest, TreeRecursive, TreeSolution
    <1> SUFFICES ASSUME NEW z \in D, h[z] # g[z] PROVE FALSE
      OBVIOUS
    <1> DEFINE Differ == {level[y] : y \in {x \in D : h[x] # g[x]}}
    <1>1. PICK n \in Differ : \A m \in Differ : n <= m
      <2>1. Differ \in SUBSET Nat /\ Differ # {}
        OBVIOUS
      <2> HIDE DEF Differ
      <2>2. QED
        BY <2>1, LeastNat
    <1>2. PICK y \in D : n = level[y] /\ h[y] # g[y]
      BY <1>1
    <1>3. y \notin B
      BY <1>2 DEF TreeStep
    <1>4. g[par[y]] \in V /\ g[y] = st[y][g[par[y]]]
      BY <1>3 DEF TreeStep
    <1>5. h[par[y]] # g[par[y]]
      BY <1>2, <1>3, <1>4
    <1>6. /\ level[par[y]] \in Differ /\ level[par[y]] \in Nat
          /\ n \in Nat /\ n = level[par[y]] + 1
      BY <1>5, <1>3, <1>2
    <1>7. n <= level[par[y]]
      BY <1>6, <1>1
    <1> HIDE DEF Differ
    <1>8. QED
      BY <1>6, <1>7

(* A set that holds the roots and, with a node's parent, the node, holds   *)
(* every node.                                                             *)
LEMMA TreeInduction ==
    ASSUME NEW D, NEW B, NEW par, NEW level, Forest(D, B, par, level),
           NEW T, B \subseteq T, \A x \in D \ B : par[x] \in T => x \in T
    PROVE  D \subseteq T
    <1> USE DEF Forest
    <1> SUFFICES ASSUME NEW z \in D, z \notin T PROVE FALSE
      OBVIOUS
    <1> DEFINE Out == {level[y] : y \in D \ T}
    <1>1. PICK n \in Out : \A m \in Out : n <= m
      <2>1. Out \in SUBSET Nat /\ Out # {}
        OBVIOUS
      <2> HIDE DEF Out
      <2>2. QED
        BY <2>1, LeastNat
    <1>2. PICK y \in D \ T : n = level[y]
      BY <1>1
    <1>3. y \notin B /\ par[y] \in D \ T
      BY <1>2
    <1>4. /\ level[par[y]] \in Out /\ level[par[y]] \in Nat
          /\ n \in Nat /\ n = level[par[y]] + 1
      BY <1>2, <1>3
    <1>5. n <= level[par[y]]
      BY <1>4, <1>1
    <1> HIDE DEF Out
    <1>6. QED
      BY <1>4, <1>5

-----------------------------------------------------------------------------
(* The sum of f over S.                                                    *)
SumOn(f, S) == MapThenSumSet(LAMBDA t : f[t], S)

Pick(s) == CHOOSE x \in s : TRUE

(* The recursion that MapThenSumSet follows, on the subsets of S.          *)
Sums(g, f, S) ==
    g = [s \in SUBSET S |-> IF s = {} THEN 0 ELSE f[Pick(s)] + g[s \ {Pick(s)}]]

(* The recursion has a solution: one cardinality after the other.          *)
LEMMA SumsExist ==
    ASSUME NEW U, IsFiniteSet(U), NEW f
    PROVE  \E g : Sums(g, f, U)
    <1> DEFINE D(n) == {s \in SUBSET U : Cardinality(s) <= n}
               Step(g, s) == IF s = {} THEN 0 ELSE f[Pick(s)] + g[s \ {Pick(s)}]
               Solved(n) == \E g : g = [s \in D(n) |-> Step(g, s)]
               Bad == {n \in Nat : ~Solved(n)}
    <1> HIDE DEF Solved
    <1>1. Bad = {}
      <2>1. SUFFICES ASSUME Bad # {} PROVE FALSE
        OBVIOUS
      <2>2. PICK n \in Bad : \A m \in Bad : n <= m
        BY <2>1, LeastNat
      <2>3. n # 0
        <3>1. D(0) = {{}}
          <4>1. {} \in D(0)
            BY FS_EmptySet
          <4>2. ASSUME NEW s \in D(0) PROVE s = {}
            <5>1. IsFiniteSet(s)
              BY FS_Subset
            <5>2. Cardinality(s) = 0
              BY <5>1, FS_CardinalityType
            <5>3. QED
              BY <5>1, <5>2, FS_EmptySet
          <4>3. QED
            BY <4>1, <4>2
        <3>2. [s \in D(0) |-> 0] = [s \in D(0) |-> Step([r \in D(0) |-> 0], s)]
          BY <3>1
        <3>3. QED
          BY <3>2, <2>2 DEF Solved
      <2>4. PICK g : g = [s \in D(n - 1) |-> Step(g, s)]
        <3>1. n - 1 \in Nat /\ n - 1 \notin Bad
          BY <2>2, <2>3
        <3>2. Solved(n - 1)
          BY <3>1
        <3>3. QED
          BY <3>2, Zenon DEF Solved
      <2> DEFINE h == [s \in D(n) |-> Step(g, s)]
      <2>5. ASSUME NEW s \in D(n) PROVE Step(h, s) = Step(g, s)
        <3>1. CASE s = {}
          BY <3>1
        <3>2. CASE s # {}
          <4>1. Pick(s) \in s
            BY <3>2 DEF Pick
          <4>2. s \ {Pick(s)} \in D(n - 1)
            BY <4>1, FS_Subset, FS_RemoveElement, FS_CardinalityType, <2>5
          <4>3. s \ {Pick(s)} \in D(n)
            BY <4>1, FS_Subset, FS_RemoveElement, FS_CardinalityType, <2>5
          <4>4. h[s \ {Pick(s)}] = g[s \ {Pick(s)}]
            BY <4>2, <4>3, <2>4
          <4>5. QED
            BY <4>4
        <3>3. QED
          BY <3>1, <3>2
      <2>6. h = [s \in D(n) |-> Step(h, s)]
        BY <2>5
      <2>7. QED
        BY <2>6, <2>2 DEF Solved
    <1>2. Cardinality(U) \in Nat
      BY FS_CardinalityType
    <1>3. D(Cardinality(U)) = SUBSET U
      BY FS_Subset
    <1>4. PICK g : g = [s \in D(Cardinality(U)) |-> Step(g, s)]
      <2>1. Solved(Cardinality(U))
        BY <1>1, <1>2
      <2>2. QED
        BY <2>1, Zenon DEF Solved
    <1>5. QED
      BY <1>3, <1>4 DEF Sums

(* So the sum of the community modules follows it.                         *)
LEMMA SumFollows ==
    ASSUME NEW U, IsFiniteSet(U), NEW f
    PROVE  \E g : Sums(g, f, U) /\ SumOn(f, U) = g[U]
    <1> DEFINE iter == CHOOSE g : g = [s \in SUBSET U |->
                          IF s = {} THEN 0 ELSE f[CHOOSE x \in s : TRUE] + g[s \ {CHOOSE x \in s : TRUE}]]
    <1>1. Sums(iter, f, U)
      <2>1. \E g : g = [s \in SUBSET U |->
              IF s = {} THEN 0 ELSE f[CHOOSE x \in s : TRUE] + g[s \ {CHOOSE x \in s : TRUE}]]
        <3>1. PICK g : Sums(g, f, U)
          BY SumsExist
        <3>2. QED
          BY <3>1, Zenon DEF Sums, Pick
      <2>2. iter = [s \in SUBSET U |->
              IF s = {} THEN 0 ELSE f[CHOOSE x \in s : TRUE] + iter[s \ {CHOOSE x \in s : TRUE}]]
        BY <2>1, Zenon
      <2>3. QED
        BY <2>2 DEF Sums, Pick
    <1>2. SumOn(f, U) = iter[U]
      BY DEF SumOn, MapThenSumSet, MapThenFoldSet
    <1>3. QED
      BY <1>1, <1>2

(* Two solutions agree where their functions do.                           *)
LEMMA SumsAgree ==
    ASSUME NEW U, IsFiniteSet(U), NEW T \in SUBSET U, NEW f, NEW h,
           \A x \in T : f[x] = h[x],
           NEW g, Sums(g, f, U), NEW k, Sums(k, h, T)
    PROVE  g[T] = k[T]
    <1> DEFINE Bad == {s \in SUBSET T : g[s] # k[s]}
    <1>1. SUFFICES ASSUME Bad # {} PROVE FALSE
      OBVIOUS
    <1>2. IsFiniteSet(T)
      BY FS_Subset
    <1>3. PICK s \in Bad : \A r \in Bad : r \subseteq s => r = s
      <2>1. Bad \in SUBSET (SUBSET T)
        OBVIOUS
      <2> HIDE DEF Bad
      <2>2. QED
        BY <1>1, <1>2, <2>1, MinimalSubset
    <1>4. CASE s = {}
      BY <1>4 DEF Sums
    <1>5. CASE s # {}
      <2>1. Pick(s) \in s
        BY <1>5 DEF Pick
      <2>2. g[s \ {Pick(s)}] = k[s \ {Pick(s)}]
        BY <2>1, <1>3
      <2>3. g[s] = f[Pick(s)] + g[s \ {Pick(s)}]
        BY <1>5 DEF Sums
      <2>4. k[s] = h[Pick(s)] + k[s \ {Pick(s)}]
        BY <1>5 DEF Sums
      <2>5. QED
        BY <2>1, <2>2, <2>3, <2>4
    <1>6. QED
      BY <1>4, <1>5

(* A sum depends on the values on the set alone.                           *)
LEMMA SumSame ==
    ASSUME NEW U, IsFiniteSet(U), NEW f, NEW h, \A x \in U : f[x] = h[x]
    PROVE  SumOn(f, U) = SumOn(h, U)
    <1>1. PICK g : Sums(g, f, U) /\ SumOn(f, U) = g[U]
      BY SumFollows
    <1>2. PICK k : Sums(k, h, U) /\ SumOn(h, U) = k[U]
      BY SumFollows
    <1>3. g[U] = k[U]
      BY <1>1, <1>2, SumsAgree
    <1>4. QED
      BY <1>1, <1>2, <1>3

(* The empty sum.                                                          *)
LEMMA SumEmpty ==
    ASSUME NEW f PROVE SumOn(f, {}) = 0
    <1>1. PICK g : Sums(g, f, {}) /\ SumOn(f, {}) = g[{}]
      BY SumFollows, FS_EmptySet
    <1>2. QED
      BY <1>1 DEF Sums

(* A sum is the element picked and the sum of the others.                  *)
LEMMA SumPick ==
    ASSUME NEW U, IsFiniteSet(U), U # {}, NEW f
    PROVE  SumOn(f, U) = f[Pick(U)] + SumOn(f, U \ {Pick(U)})
    <1>1. PICK g : Sums(g, f, U) /\ SumOn(f, U) = g[U]
      BY SumFollows
    <1>2. PICK k : Sums(k, f, U \ {Pick(U)}) /\ SumOn(f, U \ {Pick(U)}) = k[U \ {Pick(U)}]
      BY SumFollows, FS_RemoveElement
    <1>3. g[U \ {Pick(U)}] = k[U \ {Pick(U)}]
      BY <1>1, <1>2, SumsAgree
    <1>4. g[U] = f[Pick(U)] + g[U \ {Pick(U)}]
      BY <1>1 DEF Sums
    <1>5. QED
      BY <1>1, <1>2, <1>3, <1>4

(* A sum of natural numbers is one.                                        *)
LEMMA SumNat ==
    ASSUME NEW U, IsFiniteSet(U), NEW f, \A x \in U : f[x] \in Nat
    PROVE  SumOn(f, U) \in Nat
    <1> DEFINE Bad == {s \in SUBSET U : SumOn(f, s) \notin Nat}
    <1>1. SUFFICES ASSUME Bad # {} PROVE FALSE
      OBVIOUS
    <1>2. PICK s \in Bad : \A r \in Bad : r \subseteq s => r = s
      <2>1. Bad \in SUBSET (SUBSET U)
        OBVIOUS
      <2> HIDE DEF Bad
      <2>2. QED
        BY <1>1, <2>1, MinimalSubset
    <1>3. s # {}
      BY SumEmpty
    <1>4. Pick(s) \in s
      BY <1>3 DEF Pick
    <1>5. IsFiniteSet(s)
      BY FS_Subset
    <1>6. SumOn(f, s \ {Pick(s)}) \in Nat
      BY <1>2, <1>4
    <1>7. SumOn(f, s) = f[Pick(s)] + SumOn(f, s \ {Pick(s)})
      BY <1>3, <1>5, SumPick
    <1>8. QED
      BY <1>4, <1>6, <1>7

(* Any element may be taken out first.                                     *)
LEMMA SumRemove ==
    ASSUME NEW U, IsFiniteSet(U), NEW f, \A x \in U : f[x] \in Nat, NEW a \in U
    PROVE  SumOn(f, U) = f[a] + SumOn(f, U \ {a})
    <1> DEFINE Bad == {s \in SUBSET U : \E e \in s : SumOn(f, s) # f[e] + SumOn(f, s \ {e})}
    <1>1. SUFFICES ASSUME Bad # {} PROVE FALSE
      OBVIOUS
    <1>2. PICK s \in Bad : \A r \in Bad : r \subseteq s => r = s
      <2>1. Bad \in SUBSET (SUBSET U)
        OBVIOUS
      <2> HIDE DEF Bad
      <2>2. QED
        BY <1>1, <2>1, MinimalSubset
    <1>3. PICK e \in s : SumOn(f, s) # f[e] + SumOn(f, s \ {e})
      OBVIOUS
    <1> DEFINE p == Pick(s)
    <1>4. IsFiniteSet(s) /\ p \in s
      BY FS_Subset DEF Pick
    <1>5. SumOn(f, s) = f[p] + SumOn(f, s \ {p})
      BY <1>4, SumPick
    <1> HIDE DEF p
    <1>6. p # e
      BY <1>3, <1>5
    <1>7. SumOn(f, s \ {p}) = f[e] + SumOn(f, (s \ {p}) \ {e})
      <2>1. s \ {p} \notin Bad
        BY <1>2, <1>4
      <2>2. e \in s \ {p}
        BY <1>4, <1>6
      <2>3. QED
        BY <2>1, <2>2
    <1>8. SumOn(f, s \ {e}) = f[p] + SumOn(f, (s \ {e}) \ {p})
      <2>1. s \ {e} \notin Bad
        BY <1>2, <1>4
      <2>2. p \in s \ {e}
        BY <1>4, <1>6
      <2>3. QED
        BY <2>1, <2>2
    <1>9. (s \ {e}) \ {p} = (s \ {p}) \ {e}
      OBVIOUS
    <1>10. SumOn(f, (s \ {p}) \ {e}) \in Nat
      <2>1. IsFiniteSet((s \ {p}) \ {e})
        BY <1>4, FS_RemoveElement
      <2>2. QED
        BY <2>1, SumNat
    <1>11. f[p] \in Nat /\ f[e] \in Nat
      BY <1>4
    <1>12. QED
      BY <1>3, <1>5, <1>7, <1>8, <1>9, <1>10, <1>11

(* Two functions that differ at one place.                                 *)
LEMMA SumChange ==
    ASSUME NEW U, IsFiniteSet(U), NEW e \in U,
           NEW f, \A x \in U : f[x] \in Nat, NEW h, \A x \in U : h[x] \in Nat,
           \A x \in U \ {e} : h[x] = f[x]
    PROVE  SumOn(h, U) = SumOn(f, U) - f[e] + h[e]
    <1>1. SumOn(f, U) = f[e] + SumOn(f, U \ {e})
      BY SumRemove
    <1>2. SumOn(h, U) = h[e] + SumOn(h, U \ {e})
      BY SumRemove
    <1>3. IsFiniteSet(U \ {e})
      BY FS_RemoveElement
    <1>4. SumOn(h, U \ {e}) = SumOn(f, U \ {e})
      BY <1>3, SumSame
    <1>5. SumOn(f, U \ {e}) \in Nat
      BY <1>3, SumNat
    <1>6. QED
      BY <1>1, <1>2, <1>4, <1>5

(* No term is larger than the sum.                                         *)
LEMMA SumBound ==
    ASSUME NEW U, IsFiniteSet(U), NEW f \in [U -> Nat], NEW e \in U
    PROVE  f[e] <= SumOn(f, U)
    <1>1. SumOn(f, U) = f[e] + SumOn(f, U \ {e})
      BY SumRemove
    <1>2. SumOn(f, U \ {e}) \in Nat
      BY FS_RemoveElement, SumNat
    <1>3. QED
      BY <1>1, <1>2

(* A sum of zeros is zero.                                                 *)
LEMMA SumZero ==
    ASSUME NEW U, IsFiniteSet(U), NEW f, \A x \in U : f[x] = 0
    PROVE  SumOn(f, U) = 0
    <1> DEFINE Bad == {s \in SUBSET U : SumOn(f, s) # 0}
    <1>1. SUFFICES ASSUME Bad # {} PROVE FALSE
      OBVIOUS
    <1>2. PICK s \in Bad : \A r \in Bad : r \subseteq s => r = s
      <2>1. Bad \in SUBSET (SUBSET U)
        OBVIOUS
      <2> HIDE DEF Bad
      <2>2. QED
        BY <1>1, <2>1, MinimalSubset
    <1>3. IsFiniteSet(s) /\ s # {}
      BY FS_Subset, SumEmpty
    <1>4. Pick(s) \in s
      BY <1>3 DEF Pick
    <1>5. SumOn(f, s) = f[Pick(s)] + SumOn(f, s \ {Pick(s)})
      BY <1>3, SumPick
    <1>6. QED
      BY <1>2, <1>4, <1>5

(* A sum over a part and a sum over the rest.                              *)
LEMMA SumSplit ==
    ASSUME NEW U, IsFiniteSet(U), NEW f, \A x \in U : f[x] \in Nat, NEW T \in SUBSET U
    PROVE  SumOn(f, U) = SumOn(f, T) + SumOn(f, U \ T)
    <1> DEFINE Bad == {s \in SUBSET T : SumOn(f, U) # SumOn(f, s) + SumOn(f, U \ s)}
    <1>1. SUFFICES ASSUME Bad # {} PROVE FALSE
      OBVIOUS
    <1>2. PICK s \in Bad : \A r \in Bad : r \subseteq s => r = s
      <2>1. Bad \in SUBSET (SUBSET U)
        OBVIOUS
      <2> HIDE DEF Bad
      <2>2. QED
        BY <1>1, <2>1, MinimalSubset
    <1>3. s # {}
      <2>1. CASE s = {}
        <3>1. U \ {} = U /\ SumOn(f, {}) = 0 /\ SumOn(f, U) \in Nat
          BY SumEmpty, SumNat
        <3>2. QED
          BY <1>2, <2>1, <3>1
      <2>2. QED
        BY <2>1
    <1>4. PICK a \in s : TRUE
      BY <1>3
    <1> DEFINE A == s \ {a}
               B == U \ s
               C == U \ A
    <1>5. IsFiniteSet(s) /\ IsFiniteSet(A) /\ IsFiniteSet(B) /\ IsFiniteSet(C) /\ a \in C /\ C \ {a} = B
      BY <1>4, FS_Subset
    <1>6. SumOn(f, U) = SumOn(f, A) + SumOn(f, C)
      BY <1>2, <1>4
    <1>7. SumOn(f, s) = f[a] + SumOn(f, A)
      BY <1>5, SumRemove
    <1>8. SumOn(f, C) = f[a] + SumOn(f, B)
      <2> HIDE DEF B, C
      <2>1. \A x \in C : f[x] \in Nat
        BY DEF C
      <2>2. QED
        BY <1>5, <2>1, SumRemove
    <1>9. SumOn(f, A) \in Nat /\ SumOn(f, B) \in Nat /\ f[a] \in Nat
      <2>1. \A x \in A : f[x] \in Nat
        OBVIOUS
      <2>2. \A x \in B : f[x] \in Nat
        OBVIOUS
      <2> HIDE DEF A, B
      <2>3. QED
        BY <1>5, <2>1, <2>2, SumNat
    <1>10. SumOn(f, U) # SumOn(f, s) + SumOn(f, B)
      BY <1>2
    <1> HIDE DEF A, B, C, Bad
    <1>11. QED
      BY <1>6, <1>7, <1>8, <1>9, <1>10

=============================================================================
