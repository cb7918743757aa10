--------------------------- MODULE CoinsDBProofs ---------------------------
(***************************************************************************)
(* Proofs about CoinsDB.  The recursions of the model run over the block   *)
(* tree, towards Genesis: Height decreases along Parent, so each of them   *)
(* has a solution, and a property of every ancestor is shown from a lowest *)
(* counterexample.                                                         *)
(***************************************************************************)
EXTENDS CoinsDB, InductionLemmas

Coins == [Outpoint -> Block \cup {Spent}]

-----------------------------------------------------------------------------
(* The blocks are a tree under Genesis, with heights.                      *)
LEMMA BlockForest == Forest(Block, {Genesis}, Parent, Height)
    BY ChainAssumption DEF Forest

(* A set of blocks that holds Genesis and, with a block's parent, the      *)
(* block, holds every block.                                               *)
LEMMA BlockInduction ==
    ASSUME NEW T, Genesis \in T, \A b \in Block \ {Genesis} : Parent[b] \in T => b \in T
    PROVE  Block \subseteq T
    <1>1. {Genesis} \subseteq T
      OBVIOUS
    <1>2. QED
      BY <1>1, BlockForest, TreeInduction

(* The equation of Ancestors.                                              *)
LEMMA AncestorsIs ==
    /\ Ancestors \in [Block -> SUBSET Block]
    /\ Ancestors[Genesis] = {Genesis}
    /\ \A b \in Block \ {Genesis} : Ancestors[b] = {b} \cup Ancestors[Parent[b]]
    <1> DEFINE B == {Genesis}
               V == SUBSET Block
               base == [x \in B |-> {x}]
               st == [x \in Block \ B |-> [v \in V |-> {x} \cup v]]
    <1>1. base \in [B -> V] /\ st \in [Block \ B -> [V -> V]]
      BY ChainAssumption
    <1>2. Forest(Block, B, Parent, Height)
      BY BlockForest
    <1>r. TreeRecursive(Block, B, V, base, st)
      BY <1>1 DEF TreeRecursive
    <1>3. PICK g : TreeSolution(g, Block, B, Parent, V, base, st)
      <2> HIDE DEF B, base, st, V
      <2>3. QED
        BY <1>r, <1>2, TreeRecursion
    <1>4. g = [x \in Block |-> IF x = Genesis THEN {x} ELSE {x} \cup g[Parent[x]]]
      <2>1. ASSUME NEW x \in Block PROVE g[x] = IF x = Genesis THEN {x} ELSE {x} \cup g[Parent[x]]
        BY <1>3, ChainAssumption DEF TreeStep, TreeSolution
      <2>2. QED
        BY <2>1, <1>3 DEF TreeSolution
    <1>5. Ancestors = [x \in Block |-> IF x = Genesis THEN {x} ELSE {x} \cup Ancestors[Parent[x]]]
      BY <1>4, Zenon DEF Ancestors
    <1>6. \A x \in Block : Ancestors[x] = g[x]
      <2>1. \A x \in B : Ancestors[x] = base[x]
        BY <1>5, ChainAssumption
      <2>2. \A x \in Block \ B : Ancestors[Parent[x]] \in V => Ancestors[x] = st[x][Ancestors[Parent[x]]]
        BY <1>5
      <2> HIDE DEF B, base, st, V
      <2>3. QED
        BY <1>r, <1>2, <1>3, <2>1, <2>2, TreeUnique
    <1>7. Ancestors \in [Block -> V]
      BY <1>5, <1>6, <1>3 DEF TreeSolution
    <1>8. QED
      BY <1>7, <1>5, ChainAssumption

(* Forward gives coins.                                                    *)
LEMMA ForwardType ==
    ASSUME NEW b \in Block, NEW c \in Coins
    PROVE  Forward(b, c) \in Coins
    BY ChainAssumption DEF Forward, Coins

(* The equation of After.                                                  *)
LEMMA AfterIs ==
    /\ After \in [Block -> Coins]
    /\ After[Genesis] = [o \in Outpoint |-> Spent]
    /\ \A b \in Block \ {Genesis} : After[b] = Forward(b, After[Parent[b]])
    <1> DEFINE B == {Genesis}
               empty == [o \in Outpoint |-> Spent]
               base == [x \in B |-> empty]
               st == [x \in Block \ B |-> [v \in Coins |-> Forward(x, v)]]
    <1>1. base \in [B -> Coins] /\ st \in [Block \ B -> [Coins -> Coins]]
      <2>1. empty \in Coins
        BY DEF Coins
      <2>2. \A x \in Block : \A v \in Coins : Forward(x, v) \in Coins
        BY ForwardType
      <2>3. QED
        BY <2>1, <2>2
    <1>2. Forest(Block, B, Parent, Height)
      BY BlockForest
    <1>r. TreeRecursive(Block, B, Coins, base, st)
      BY <1>1 DEF TreeRecursive
    <1>3. PICK g : TreeSolution(g, Block, B, Parent, Coins, base, st)
      <2> HIDE DEF B, base, st
      <2>3. QED
        BY <1>r, <1>2, TreeRecursion
    <1>4. g = [x \in Block |-> IF x = Genesis THEN [o \in Outpoint |-> Spent] ELSE Forward(x, g[Parent[x]])]
      <2>1. ASSUME NEW x \in Block
            PROVE  g[x] = IF x = Genesis THEN [o \in Outpoint |-> Spent] ELSE Forward(x, g[Parent[x]])
        BY <1>3, ChainAssumption DEF TreeStep, TreeSolution
      <2>2. QED
        BY <2>1, <1>3 DEF TreeSolution
    <1>5. After = [x \in Block |-> IF x = Genesis THEN [o \in Outpoint |-> Spent] ELSE Forward(x, After[Parent[x]])]
      BY <1>4, Zenon DEF After
    <1>6. \A x \in Block : After[x] = g[x]
      <2>1. \A x \in B : After[x] = base[x]
        BY <1>5, ChainAssumption
      <2>2. \A x \in Block \ B : After[Parent[x]] \in Coins => After[x] = st[x][After[Parent[x]]]
        BY <1>5
      <2> HIDE DEF B, base, st
      <2>3. QED
        BY <1>r, <1>2, <1>3, <2>1, <2>2, TreeUnique
    <1>7. After \in [Block -> Coins]
      BY <1>5, <1>6, <1>3 DEF TreeSolution
    <1>8. QED
      BY <1>7, <1>5, ChainAssumption

-----------------------------------------------------------------------------
(* A block is its own ancestor and Genesis is everybody's.                 *)
LEMMA AncestorsEnds ==
    ASSUME NEW b \in Block
    PROVE  b \in Ancestors[b] /\ Genesis \in Ancestors[b] /\ Ancestors[b] \subseteq Block
    <1> DEFINE T == {x \in Block : Genesis \in Ancestors[x]}
    <1>1. Genesis \in T /\ \A x \in Block \ {Genesis} : Parent[x] \in T => x \in T
      BY AncestorsIs, ChainAssumption
    <1> HIDE DEF T
    <1>2. Block \subseteq T
      BY <1>1, BlockInduction
    <1>3. QED
      BY <1>2, AncestorsIs DEF T

(* An ancestor of an ancestor is one.                                      *)
LEMMA AncestorsTransitive ==
    ASSUME NEW b \in Block, NEW x \in Ancestors[b]
    PROVE  Ancestors[x] \subseteq Ancestors[b]
    <1> DEFINE T == {z \in Block : \A y \in Ancestors[z] : Ancestors[y] \subseteq Ancestors[z]}
    <1>1. Genesis \in T
      BY AncestorsIs, ChainAssumption
    <1>2. ASSUME NEW z \in Block \ {Genesis}, Parent[z] \in T PROVE z \in T
      BY <1>2, AncestorsIs, ChainAssumption
    <1> HIDE DEF T
    <1>3. Block \subseteq T
      BY <1>1, <1>2, BlockInduction
    <1>4. QED
      BY <1>3 DEF T

(* An ancestor is lower, and the parent of an ancestor is one.             *)
LEMMA AncestorsBelow ==
    ASSUME NEW b \in Block, NEW x \in Ancestors[b], x # b
    PROVE  b # Genesis /\ x \in Ancestors[Parent[b]] /\ Height[x] < Height[b]
    <1> DEFINE T == {z \in Block : \A y \in Ancestors[z] : Height[y] <= Height[z]}
    <1>1. Genesis \in T
      BY AncestorsIs, ChainAssumption
    <1>2. ASSUME NEW z \in Block \ {Genesis}, Parent[z] \in T PROVE z \in T
      <2>1. Height[z] \in Nat /\ Height[Parent[z]] \in Nat /\ Height[z] = Height[Parent[z]] + 1
        BY ChainAssumption
      <2>2. ASSUME NEW y \in Ancestors[z] PROVE Height[y] <= Height[z]
        <3>1. y \in Block /\ Height[y] \in Nat
          BY AncestorsIs, ChainAssumption
        <3>2. y = z \/ y \in Ancestors[Parent[z]]
          BY AncestorsIs
        <3>3. y = z \/ Height[y] <= Height[Parent[z]]
          BY <3>2, <1>2
        <3>4. QED
          BY <3>1, <3>3, <2>1
      <2>3. QED
        BY <2>2
    <1> HIDE DEF T
    <1>3. Block \subseteq T
      BY <1>1, <1>2, BlockInduction
    <1>4. b # Genesis /\ x \in Ancestors[Parent[b]] /\ Parent[b] \in Block
      BY AncestorsIs, ChainAssumption
    <1>5. x \in Block /\ Height[x] <= Height[Parent[b]]
      BY <1>4, <1>3, AncestorsIs DEF T
    <1>6. QED
      BY <1>4, <1>5, ChainAssumption

(* The parent of an ancestor is an ancestor.                               *)
LEMMA AncestorsClosed ==
    ASSUME NEW b \in Block, NEW x \in Ancestors[b], x # Genesis
    PROVE  Parent[x] \in Ancestors[b] /\ Parent[x] \in Ancestors[x]
    <1>1. x \in Block /\ Parent[x] \in Block
      BY AncestorsIs, ChainAssumption
    <1>2. Parent[x] \in Ancestors[x]
      BY <1>1, AncestorsIs, AncestorsEnds
    <1>3. QED
      BY <1>1, <1>2, AncestorsTransitive

(* Two blocks that descend from each other are one.                        *)
LEMMA AncestorsAntisymmetric ==
    ASSUME NEW b \in Block, NEW x \in Ancestors[b], b \in Ancestors[x]
    PROVE  x = b
    <1>1. x \in Block
      BY AncestorsIs
    <1>2. Height[x] \in Nat /\ Height[b] \in Nat
      BY <1>1, ChainAssumption
    <1>3. x # b => Height[x] < Height[b] /\ Height[b] < Height[x]
      BY <1>1, AncestorsBelow
    <1>4. QED
      BY <1>2, <1>3

(* LastCommonAncestor is one, and it exists.                               *)
LEMMA ForkIs ==
    ASSUME NEW new \in Block, NEW old \in Block
    PROVE  Fork(new, old) \in Ancestors[new] /\ Fork(new, old) \in Ancestors[old]
    <1> DEFINE Top(n, f) == /\ f \in Ancestors[n] \cap Ancestors[old]
                            /\ \A x \in Ancestors[n] \cap Ancestors[old] : x \in Ancestors[f]
               T == {n \in Block : \E f : Top(n, f)}
    <1>1. Genesis \in T
      <2>1. Top(Genesis, Genesis)
        BY AncestorsIs, AncestorsEnds, ChainAssumption
      <2>2. QED
        BY <2>1, ChainAssumption
    <1>2. ASSUME NEW n \in Block \ {Genesis}, Parent[n] \in T PROVE n \in T
      <2>1. PICK f : Top(Parent[n], f)
        BY <1>2
      <2>2. CASE n \in Ancestors[old]
        <3>1. Top(n, n)
          BY <2>2, AncestorsEnds
        <3>2. QED
          BY <3>1
      <2>3. CASE n \notin Ancestors[old]
        <3>1. Top(n, f)
          BY <2>1, <2>3, AncestorsIs
        <3>2. QED
          BY <3>1
      <2>4. QED
        BY <2>2, <2>3
    <1>3. Block \subseteq T
      <2> HIDE DEF T
      <2>1. QED
        BY <1>1, <1>2, BlockInduction
    <1>4. \E f \in Ancestors[new] \cap Ancestors[old] :
              \A x \in Ancestors[new] \cap Ancestors[old] : x \in Ancestors[f]
      BY <1>3
    <1>5. old # Null
      BY ChainAssumption
    <1>6. Fork(new, old) \in Ancestors[new] \cap Ancestors[old]
      BY <1>4, <1>5, Zenon DEF Fork
    <1>7. QED
      BY <1>6
-----------------------------------------------------------------------------
(* A block between fork and x spends or creates o.                         *)
Touched(o, fork, x) ==
    \E y \in Ancestors[x] \ Ancestors[fork] : o \in Creates[y] \cup Spends[y]

(* What touches o on the way to a block's parent does on the way to the    *)
(* block, and nothing else does but the block.                             *)
LEMMA TouchedStep ==
    ASSUME NEW fork \in Block, NEW x \in Block, x \notin Ancestors[fork], NEW o \in Outpoint,
           fork \in Ancestors[x]
    PROVE  /\ x # Genesis /\ Parent[x] \in Block /\ fork \in Ancestors[Parent[x]]
           /\ Touched(o, fork, x) <=> (o \in Creates[x] \cup Spends[x] \/ Touched(o, fork, Parent[x]))
    <1>1. fork # x /\ Genesis \in Ancestors[fork]
      BY AncestorsEnds
    <1>2. x # Genesis /\ fork \in Ancestors[Parent[x]]
      BY <1>1, AncestorsBelow
    <1>3. Ancestors[x] = {x} \cup Ancestors[Parent[x]] /\ Parent[x] \in Block
      BY <1>2, AncestorsIs, ChainAssumption
    <1>4. QED
      BY <1>2, <1>3 DEF Touched

(* A block of the way that is the fork has touched nothing.                *)
LEMMA TouchedNot ==
    ASSUME NEW fork \in Block, NEW x \in Block, x \in Ancestors[fork], fork \in Ancestors[x],
           NEW o \in Outpoint
    PROVE  x = fork /\ ~Touched(o, fork, x)
    <1>1. x = fork
      BY AncestorsAntisymmetric
    <1>2. QED
      BY <1>1 DEF Touched

(* A coin that no block after the fork touches is the fork's.              *)
LEMMA Untouched ==
    ASSUME NEW fork \in Block, NEW b \in Block, fork \in Ancestors[b], NEW o \in Outpoint,
           ~Touched(o, fork, b)
    PROVE  After[b][o] = After[fork][o]
    <1> DEFINE T == {x \in Block : fork \in Ancestors[x] /\ ~Touched(o, fork, x) => After[x][o] = After[fork][o]}
    <1>1. Genesis \in T
      <2>1. fork \in Ancestors[Genesis] => fork = Genesis
        BY AncestorsIs
      <2>2. QED
        BY <2>1, ChainAssumption
    <1>2. ASSUME NEW x \in Block \ {Genesis}, Parent[x] \in T PROVE x \in T
      <2>1. SUFFICES ASSUME fork \in Ancestors[x], ~Touched(o, fork, x)
                     PROVE  After[x][o] = After[fork][o]
        OBVIOUS
      <2>2. CASE x \in Ancestors[fork]
        BY <2>1, <2>2, TouchedNot
      <2>3. CASE x \notin Ancestors[fork]
        <3>1. After[Parent[x]][o] = After[fork][o] /\ o \notin Creates[x] \cup Spends[x]
          BY <2>1, <2>3, <1>2, TouchedStep
        <3>2. After[x] = Forward(x, After[Parent[x]])
          BY AfterIs
        <3>3. QED
          BY <3>1, <3>2 DEF Forward
      <2>4. QED
        BY <2>2, <2>3
    <1> HIDE DEF T
    <1>3. Block \subseteq T
      BY <1>1, <1>2, BlockInduction
    <1>4. QED
      BY <1>3 DEF T

-----------------------------------------------------------------------------
(* The loop of Rollforward.                                                *)
UpLoop(up, fork, b, c) ==
    /\ up \in [Ancestors[b] -> Coins]
    /\ Rollforward(fork, b, c) = up[b]
    /\ \A x \in Ancestors[b] : up[x] = IF x \in Ancestors[fork] THEN c ELSE Forward(x, up[Parent[x]])

(* The recursion of the loop that rolls forward has a solution.            *)
LEMMA RollforwardIs ==
    ASSUME NEW fork \in Block, NEW b \in Block, NEW c \in Coins
    PROVE  \E up : UpLoop(up, fork, b, c)
    <1> DEFINE D == Ancestors[b]
               B == D \cap Ancestors[fork]
               base == [x \in B |-> c]
               st == [x \in D \ B |-> [v \in Coins |-> Forward(x, v)]]
    <1>1. base \in [B -> Coins] /\ st \in [D \ B -> [Coins -> Coins]]
      <2>1. \A x \in D : \A v \in Coins : Forward(x, v) \in Coins
        BY ForwardType, AncestorsEnds
      <2>2. QED
        BY <2>1
    <1>3. \A x \in D \ B : x # Genesis /\ Parent[x] \in D
      BY AncestorsEnds, AncestorsClosed
    <1>2. Forest(D, B, Parent, Height)
      <2>1. D \subseteq Block /\ B \subseteq D
        BY AncestorsEnds
      <2> HIDE DEF D, B
      <2>2. QED
        BY <2>1, <1>3, ChainAssumption DEF Forest
    <1>4. TreeRecursive(D, B, Coins, base, st)
      <2> HIDE DEF D, B, base, st
      <2>1. QED
        BY <1>1 DEF TreeRecursive
    <1>5. PICK g : TreeSolution(g, D, B, Parent, Coins, base, st)
      <2> HIDE DEF D, B, base, st
      <2>1. QED
        BY <1>2, <1>4, TreeRecursion
    <1>6. ASSUME NEW x \in D PROVE g[x] = IF x \in Ancestors[fork] THEN c ELSE Forward(x, g[Parent[x]])
      <2>1. g[x] = TreeStep(g, x, B, Parent, base, st)
        BY <1>5 DEF TreeSolution
      <2>2. x \notin B => g[Parent[x]] \in Coins
        BY <1>5, <1>3 DEF TreeSolution
      <2>3. QED
        BY <2>1, <2>2 DEF TreeStep
    <1> DEFINE up == CHOOSE up : up = [x \in Ancestors[b] |->
                        IF x \in Ancestors[fork] THEN c ELSE Forward(x, up[Parent[x]])]
    <1>7. g = [x \in Ancestors[b] |-> IF x \in Ancestors[fork] THEN c ELSE Forward(x, g[Parent[x]])]
      BY <1>6, <1>5 DEF TreeSolution
    <1>8. up = [x \in Ancestors[b] |-> IF x \in Ancestors[fork] THEN c ELSE Forward(x, up[Parent[x]])]
      BY <1>7, Zenon
    <1>9. Rollforward(fork, b, c) = up[b]
      BY Zenon DEF Rollforward
    <1> HIDE DEF up
    <1>10. \A x \in D : up[x] = g[x]
      <2>1. \A x \in B : up[x] = base[x]
        BY <1>8
      <2>2. \A x \in D \ B : up[Parent[x]] \in Coins => up[x] = st[x][up[Parent[x]]]
        BY <1>8
      <2> HIDE DEF D, B, base, st
      <2>3. QED
        BY <1>2, <1>4, <1>5, <2>1, <2>2, TreeUnique
    <1>11. up \in [Ancestors[b] -> Coins]
      BY <1>8, <1>10, <1>5 DEF TreeSolution
    <1>12. UpLoop(up, fork, b, c)
      BY <1>8, <1>9, <1>11 DEF UpLoop
    <1>13. QED
      BY <1>12

(* Rolling forward reaches the coins after b wherever it starts from the   *)
(* fork's coin or passes a block that touches the coin.                    *)
LEMMA RollforwardCorrect ==
    ASSUME NEW fork \in Block, NEW b \in Block, fork \in Ancestors[b], NEW c \in Coins,
           \A o \in Outpoint : c[o] = After[fork][o] \/ Touched(o, fork, b)
    PROVE  Rollforward(fork, b, c) = After[b]
    <1>p. PICK up : UpLoop(up, fork, b, c)
      BY RollforwardIs
    <1>1. /\ up \in [Ancestors[b] -> Coins]
          /\ Rollforward(fork, b, c) = up[b]
          /\ \A x \in Ancestors[b] : up[x] = IF x \in Ancestors[fork] THEN c ELSE Forward(x, up[Parent[x]])
      BY <1>p DEF UpLoop
    <1>2. ASSUME NEW o \in Outpoint PROVE up[b][o] = After[b][o]
      <2> DEFINE Due(x) == /\ x \in Ancestors[b] /\ fork \in Ancestors[x]
                           /\ c[o] = After[fork][o] \/ Touched(o, fork, x)
                 T == {x \in Block : Due(x) => up[x][o] = After[x][o]}
      <2>1. Genesis \in T
        <3>1. SUFFICES ASSUME Due(Genesis) PROVE up[Genesis][o] = After[Genesis][o]
          BY ChainAssumption
        <3>2. Genesis \in Ancestors[fork] /\ fork = Genesis
          BY <3>1, AncestorsIs, AncestorsEnds
        <3>3. ~Touched(o, fork, Genesis)
          BY <3>2, ChainAssumption DEF Touched
        <3>4. QED
          BY <3>1, <3>2, <3>3, <1>1
      <2>2. ASSUME NEW x \in Block \ {Genesis}, Parent[x] \in T PROVE x \in T
        <3>1. SUFFICES ASSUME Due(x) PROVE up[x][o] = After[x][o]
          OBVIOUS
        <3>2. CASE x \in Ancestors[fork]
          <4>1. x = fork /\ ~Touched(o, fork, x)
            BY <3>1, <3>2, TouchedNot
          <4>2. QED
            BY <4>1, <3>1, <3>2, <1>1
        <3>3. CASE x \notin Ancestors[fork]
          <4>1. up[x] = Forward(x, up[Parent[x]]) /\ After[x] = Forward(x, After[Parent[x]])
            BY <3>1, <3>3, <1>1, AfterIs
          <4>2. CASE o \in Creates[x] \cup Spends[x]
            BY <4>1, <4>2 DEF Forward
          <4>3. CASE o \notin Creates[x] \cup Spends[x]
            <5>1. Parent[x] \in Ancestors[b]
              BY <3>1, AncestorsClosed
            <5>2. Due(Parent[x])
              BY <5>1, <3>1, <3>3, <4>3, TouchedStep
            <5>3. up[Parent[x]][o] = After[Parent[x]][o]
              BY <5>2, <2>2
            <5>4. QED
              BY <5>3, <4>1, <4>3 DEF Forward
          <4>4. QED
            BY <4>2, <4>3
        <3>4. QED
          BY <3>2, <3>3
      <2>3. Due(b)
        BY AncestorsEnds
      <2> HIDE DEF T, Due
      <2>4. Block \subseteq T
        BY <2>1, <2>2, BlockInduction
      <2>5. QED
        BY <2>3, <2>4 DEF T
    <1>3. up[b] \in Coins /\ After[b] \in Coins
      BY <1>1, AncestorsEnds, AfterIs
    <1>4. QED
      BY <1>1, <1>2, <1>3 DEF Coins
-----------------------------------------------------------------------------
(* Undoing a block gives coins.                                            *)
LEMMA BackType ==
    ASSUME NEW b \in Block, NEW c \in Coins
    PROVE  Back(b, c) \in Coins
    <1>1. Parent[b] \in Block /\ After[Parent[b]] \in Coins
      BY AfterIs, ChainAssumption
    <1>2. QED
      BY <1>1 DEF Back, Coins

(* The loop of Rollback.                                                   *)
BackLoop(back, fork, b, c) ==
    /\ back \in [Ancestors[b] -> [Coins -> Coins]]
    /\ Rollback(b, fork, c) = back[b][c]
    /\ \A x \in Ancestors[b] : \A d \in Coins :
         back[x][d] = IF x \in Ancestors[fork] THEN d ELSE back[Parent[x]][Back(x, d)]

(* The recursion of the loop that rolls back has a solution.               *)
LEMMA RollbackIs ==
    ASSUME NEW fork \in Block, NEW b \in Block, NEW c \in Coins
    PROVE  \E back : BackLoop(back, fork, b, c)
    <1> DEFINE D == Ancestors[b]
               B == D \cap Ancestors[fork]
               V == [Coins -> Coins]
               id == [d \in Coins |-> d]
               base == [x \in B |-> id]
               st == [x \in D \ B |-> [v \in V |-> [d \in Coins |-> v[Back(x, d)]]]]
    <1>b. \A x \in D : \A d \in Coins : Back(x, d) \in Coins
      BY BackType, AncestorsEnds
    <1>1. base \in [B -> V] /\ st \in [D \ B -> [V -> V]]
      <2>1. id \in V
        OBVIOUS
      <2>2. ASSUME NEW x \in D, NEW v \in V PROVE [d \in Coins |-> v[Back(x, d)]] \in V
        <3>1. \A d \in Coins : v[Back(x, d)] \in Coins
          BY <1>b
        <3>2. QED
          BY <3>1
      <2> HIDE DEF V, id
      <2>3. QED
        BY <2>1, <2>2
    <1>3. \A x \in D \ B : x # Genesis /\ Parent[x] \in D
      BY AncestorsEnds, AncestorsClosed
    <1>2. Forest(D, B, Parent, Height)
      <2>1. D \subseteq Block /\ B \subseteq D
        BY AncestorsEnds
      <2> HIDE DEF D, B
      <2>2. QED
        BY <2>1, <1>3, ChainAssumption DEF Forest
    <1>4. TreeRecursive(D, B, V, base, st)
      <2> HIDE DEF D, B, V, base, st
      <2>1. QED
        BY <1>1 DEF TreeRecursive
    <1>5. PICK g : TreeSolution(g, D, B, Parent, V, base, st)
      <2> HIDE DEF D, B, V, base, st
      <2>1. QED
        BY <1>2, <1>4, TreeRecursion
    <1> DEFINE Row(h, x) == [d \in Coins |-> IF x \in Ancestors[fork] THEN d ELSE h[Parent[x]][Back(x, d)]]
    <1>6. ASSUME NEW x \in D PROVE g[x] = Row(g, x)
      <2>1. g[x] = TreeStep(g, x, B, Parent, base, st)
        BY <1>5 DEF TreeSolution
      <2>2. x \notin B => g[Parent[x]] \in V
        BY <1>5, <1>3 DEF TreeSolution
      <2>3. CASE x \in B
        BY <2>1, <2>3 DEF TreeStep
      <2>4. CASE x \notin B
        <3>1. g[x] = st[x][g[Parent[x]]]
          BY <2>1, <2>4 DEF TreeStep
        <3>2. st[x] = [v \in V |-> [d \in Coins |-> v[Back(x, d)]]]
          BY <2>4
        <3>3. g[x] = [d \in Coins |-> g[Parent[x]][Back(x, d)]]
          <4> HIDE DEF st, V
          <4>1. QED
            BY <3>1, <3>2, <2>2, <2>4
        <3>4. QED
          BY <3>3, <2>4
      <2>5. QED
        BY <2>3, <2>4
    <1> DEFINE back == CHOOSE back : back = [x \in Ancestors[b] |->
                          [d \in [Outpoint -> Block \cup {Spent}] |->
                             IF x \in Ancestors[fork] THEN d ELSE back[Parent[x]][Back(x, d)]]]
    <1>7. g = [x \in Ancestors[b] |->
                 [d \in [Outpoint -> Block \cup {Spent}] |->
                    IF x \in Ancestors[fork] THEN d ELSE g[Parent[x]][Back(x, d)]]]
      <2>1. g = [x \in D |-> Row(g, x)]
        <3> HIDE DEF Row, D
        <3>1. QED
          BY <1>6, <1>5 DEF TreeSolution
      <2>2. QED
        BY <2>1, Zenon DEF Coins
    <1>8. back = [x \in Ancestors[b] |->
                    [d \in [Outpoint -> Block \cup {Spent}] |->
                       IF x \in Ancestors[fork] THEN d ELSE back[Parent[x]][Back(x, d)]]]
      BY <1>7, Zenon
    <1>9. Rollback(b, fork, c) = back[b][c]
      BY Zenon DEF Rollback
    <1> HIDE DEF back
    <1>r. \A x \in D : back[x] = Row(back, x)
      BY <1>8, Zenon DEF Coins
    <1>10. \A x \in D : back[x] = g[x]
      <2>1. \A x \in B : back[x] = base[x]
        BY <1>r
      <2>2. ASSUME NEW x \in D \ B, back[Parent[x]] \in V PROVE back[x] = st[x][back[Parent[x]]]
        <3>1. st[x] = [v \in V |-> [d \in Coins |-> v[Back(x, d)]]]
          OBVIOUS
        <3>2. back[x] = [d \in Coins |-> back[Parent[x]][Back(x, d)]]
          BY <1>r
        <3> HIDE DEF st, V, Row
        <3>3. QED
          BY <3>1, <3>2, <2>2
      <2> HIDE DEF D, B, V, base, st
      <2>3. QED
        BY <1>2, <1>4, <1>5, <2>1, <2>2, TreeUnique
    <1>11. back \in [Ancestors[b] -> [Coins -> Coins]]
      <2>1. \A x \in D : back[x] \in V
        <3> HIDE DEF D, V, B, base, st
        <3>1. QED
          BY <1>10, <1>5 DEF TreeSolution
      <2>2. back = [x \in D |-> back[x]]
        <3> DEFINE R(x) == [d \in [Outpoint -> Block \cup {Spent}] |->
                             IF x \in Ancestors[fork] THEN d ELSE back[Parent[x]][Back(x, d)]]
        <3>1. back = [x \in D |-> R(x)]
          BY <1>8
        <3> HIDE DEF R, D
        <3>2. QED
          BY <3>1
      <2> HIDE DEF V
      <2>3. back \in [Ancestors[b] -> V]
        BY <2>1, <2>2
      <2>4. QED
        BY <2>3 DEF V
    <1>12. ASSUME NEW x \in Ancestors[b], NEW d \in Coins
           PROVE  back[x][d] = IF x \in Ancestors[fork] THEN d ELSE back[Parent[x]][Back(x, d)]
      <2>1. back[x] = Row(back, x)
        BY <1>r
      <2>2. QED
        BY <2>1
    <1>13. BackLoop(back, fork, b, c)
      BY <1>9, <1>11, <1>12 DEF BackLoop
    <1>14. QED
      BY <1>13

(* Rolling back leaves what the branch did not touch, and the rest as it   *)
(* was at the fork, whether or not a block's changes were in the database. *)
LEMMA RollbackCorrect ==
    ASSUME NEW fork \in Block, NEW b \in Block, fork \in Ancestors[b], NEW c \in Coins
    PROVE  /\ Rollback(b, fork, c) \in Coins
           /\ \A o \in Outpoint : Rollback(b, fork, c)[o] =
                 IF Touched(o, fork, b) THEN After[fork][o] ELSE c[o]
    <1>p. PICK back : BackLoop(back, fork, b, c)
      BY RollbackIs
    <1>1. /\ back \in [Ancestors[b] -> [Coins -> Coins]]
          /\ Rollback(b, fork, c) = back[b][c]
          /\ \A x \in Ancestors[b] : \A d \in Coins :
               back[x][d] = IF x \in Ancestors[fork] THEN d ELSE back[Parent[x]][Back(x, d)]
      BY <1>p DEF BackLoop
    <1>2. ASSUME NEW o \in Outpoint
          PROVE  back[b][c][o] = IF Touched(o, fork, b) THEN After[fork][o] ELSE c[o]
      <2> DEFINE Right(x) == \A d \in Coins :
                    back[x][d][o] = IF Touched(o, fork, x) THEN After[fork][o] ELSE d[o]
                 T == {x \in Block : x \in Ancestors[b] /\ fork \in Ancestors[x] => Right(x)}
      <2>1. ASSUME NEW x \in Ancestors[b], x \in Ancestors[fork], fork \in Ancestors[x] PROVE Right(x)
        <3>1. ~Touched(o, fork, x)
          BY <2>1, TouchedNot, AncestorsIs
        <3>2. QED
          BY <2>1, <3>1, <1>1
      <2>2. Genesis \in T
        <3>1. Genesis \in Ancestors[fork] /\ Genesis \in Block
          BY AncestorsEnds, ChainAssumption
        <3> HIDE DEF Right
        <3>2. QED
          BY <2>1, <3>1
      <2>3. ASSUME NEW x \in Block \ {Genesis}, Parent[x] \in T PROVE x \in T
        <3>1. SUFFICES ASSUME x \in Ancestors[b], fork \in Ancestors[x] PROVE Right(x)
          OBVIOUS
        <3>2. CASE x \in Ancestors[fork]
          <4> HIDE DEF Right
          <4>1. QED
            BY <3>1, <3>2, <2>1
        <3>3. CASE x \notin Ancestors[fork]
          <4>1. /\ Parent[x] \in Block /\ fork \in Ancestors[Parent[x]]
                /\ Touched(o, fork, x) <=> (o \in Creates[x] \cup Spends[x] \/ Touched(o, fork, Parent[x]))
            BY <3>1, <3>3, TouchedStep
          <4>2. Parent[x] \in Ancestors[b]
            BY <3>1, AncestorsClosed
          <4>3. Right(Parent[x])
            BY <4>1, <4>2, <2>3
          <4>4. ASSUME NEW d \in Coins
                PROVE  back[x][d][o] = IF Touched(o, fork, x) THEN After[fork][o] ELSE d[o]
            <5>1. Back(x, d) \in Coins
              BY BackType
            <5>2. back[x][d] = back[Parent[x]][Back(x, d)]
              BY <1>1, <3>1, <3>3
            <5>3. back[x][d][o] = IF Touched(o, fork, Parent[x]) THEN After[fork][o] ELSE Back(x, d)[o]
              BY <5>1, <5>2, <4>3
            <5>4. CASE Touched(o, fork, Parent[x])
              BY <5>3, <5>4, <4>1
            <5>5. CASE ~Touched(o, fork, Parent[x])
              <6>1. After[Parent[x]][o] = After[fork][o]
                BY <5>5, <4>1, Untouched
              <6>2. o \in Creates[x] => After[Parent[x]][o] = Spent
                BY OverwriteAssumption
              <6>3. Back(x, d)[o] = IF o \in Creates[x] \cup Spends[x] THEN After[fork][o] ELSE d[o]
                BY <6>1, <6>2 DEF Back
              <6>4. QED
                BY <6>3, <5>3, <5>5, <4>1
            <5>6. QED
              BY <5>4, <5>5
          <4>5. QED
            BY <4>4
        <3>4. QED
          BY <3>2, <3>3
      <2> HIDE DEF T
      <2>4. Block \subseteq T
        BY <2>2, <2>3, BlockInduction
      <2>5. Right(b)
        BY <2>4, AncestorsEnds DEF T
      <2>6. QED
        BY <2>5
    <1>3. back[b][c] \in Coins
      BY <1>1, AncestorsEnds
    <1>4. QED
      BY <1>1, <1>2, <1>3

-----------------------------------------------------------------------------
(* The coins at a tip; before the first flush there is none.               *)
At(b) == IF b = Null THEN After[Genesis] ELSE After[b]

(* A mixture of the coins at two tips.                                     *)
Mixture(c, new, old) == \A o \in Outpoint : c[o] = After[new][o] \/ c[o] = At(old)[o]

(* ReplayBlocks makes the coins after the new tip out of any mixture.      *)
LEMMA ReplayCorrect ==
    ASSUME NEW new \in Block, NEW old \in Block \cup {Null}, NEW c \in Coins, Mixture(c, new, old)
    PROVE  Replayed(new, old, c) = After[new]
    <1> DEFINE fork == Fork(new, old)
               start == IF old = Null THEN c ELSE Rollback(old, fork, c)
    <1>1. fork \in Block /\ fork \in Ancestors[new]
      <2>1. CASE old = Null
        BY <2>1, AncestorsEnds, ChainAssumption DEF Fork
      <2>2. CASE old # Null
        BY <2>2, ForkIs, AncestorsEnds
      <2>3. QED
        BY <2>1, <2>2
    <1>2. start \in Coins /\ \A o \in Outpoint : start[o] = After[fork][o] \/ Touched(o, fork, new)
      <2>1. CASE old = Null
        <3>1. fork = Genesis /\ start = c
          BY <2>1 DEF Fork
        <3>2. ASSUME NEW o \in Outpoint PROVE c[o] = After[Genesis][o] \/ Touched(o, Genesis, new)
          <4>1. ~Touched(o, Genesis, new) => After[new][o] = After[Genesis][o]
            BY Untouched, AncestorsEnds, ChainAssumption
          <4>2. QED
            BY <4>1, <2>1 DEF Mixture, At
        <3> HIDE DEF fork, start
        <3>3. QED
          BY <3>1, <3>2
      <2>2. CASE old # Null
        <3>1. old \in Block /\ fork \in Ancestors[old] /\ start = Rollback(old, fork, c)
          BY <2>2, ForkIs
        <3> HIDE DEF fork, start
        <3>2. /\ start \in Coins
              /\ \A o \in Outpoint : start[o] = IF Touched(o, fork, old) THEN After[fork][o] ELSE c[o]
          BY <3>1, <1>1, RollbackCorrect
        <3>3. ASSUME NEW o \in Outpoint, ~Touched(o, fork, new), ~Touched(o, fork, old)
              PROVE  c[o] = After[fork][o]
          <4>1. After[new][o] = After[fork][o] /\ After[old][o] = After[fork][o]
            BY <3>1, <3>3, <1>1, Untouched
          <4>2. QED
            BY <4>1, <2>2 DEF Mixture, At
        <3>4. QED
          BY <3>2, <3>3
      <2>3. QED
        BY <2>1, <2>2
    <1>3. Replayed(new, old, c) = Rollforward(fork, new, start)
      BY DEF Replayed
    <1> HIDE DEF fork, start
    <1>4. QED
      BY <1>1, <1>2, <1>3, RollforwardCorrect
-----------------------------------------------------------------------------
(* A block and all below it have their undo data in an index.              *)
Undone(index, b) == \A x \in Ancestors[b] : index[x] = "undo"

(* The index on disk has what the coins on disk may have to be taken back  *)
(* through or built from, and the index in memory no less.                 *)
IndexSound ==
    /\ disk[Genesis] = "undo"
    /\ \A b \in Block : disk[b] = "undo" => mem[b] = "undo"
    /\ best # Null => Undone(disk, best)
    /\ heads # <<>> => Undone(disk, heads[1])
    /\ heads # <<>> /\ heads[2] # Null => Undone(disk, heads[2])
    /\ Writing => Undone(disk, target)
    /\ phase \in {"running", "flushing", "dumping"} => Undone(mem, tip)

(* A mark stands only while a write is under way or cut off, and it names  *)
(* the write's target; a write is to leave the coins after its target.     *)
WritesMarked ==
    /\ phase \in {"running", "dumping"} => heads = <<>>
    /\ Writing /\ heads # <<>> => heads[1] = target
    /\ Writing => image = After[target]

IInv == TypeOK /\ BestBlockHonest /\ MixtureOfTwo /\ StartupSucceeds /\ IndexSound /\ WritesMarked

-----------------------------------------------------------------------------
(* The start: an empty database, and Genesis in memory.                    *)
LEMMA InitIInv == Init => IInv
    <1> SUFFICES ASSUME Init PROVE IInv
      OBVIOUS
    <1> USE ChainAssumption DEF Init
    <1>1. TypeOK
      BY DEF TypeOK, Have, Phases
    <1>2. BestBlockHonest
      BY AfterIs DEF BestBlockHonest
    <1>3. MixtureOfTwo /\ StartupSucceeds
      BY DEF MixtureOfTwo, StartupSucceeds
    <1>4. IndexSound
      BY AncestorsIs DEF IndexSound, Undone, Writing
    <1>5. WritesMarked
      BY DEF WritesMarked, Writing
    <1>6. QED
      BY <1>1, <1>2, <1>3, <1>4, <1>5 DEF IInv

(* What a block index entry gains it keeps.                                *)
LEMMA StoreBlockStep ==
    ASSUME IInv, NEW b \in Block, StoreBlock(b) PROVE IInv'
    <1> USE DEF StoreBlock, store, IInv
    <1>1. TypeOK'
      BY DEF TypeOK, Have
    <1>2. BestBlockHonest' /\ MixtureOfTwo' /\ StartupSucceeds'
      BY DEF BestBlockHonest, MixtureOfTwo, StartupSucceeds
    <1>3. IndexSound'
      <2>1. \A x \in Block : mem[x] = "undo" => mem'[x] = "undo"
        BY DEF TypeOK
      <2>2. tip \in Block /\ Ancestors[tip] \subseteq Block
        BY AncestorsEnds DEF TypeOK
      <2>3. QED
        BY <2>1, <2>2 DEF IndexSound, Undone, Writing
    <1>4. WritesMarked'
      BY DEF WritesMarked, Writing
    <1>5. QED
      BY <1>1, <1>2, <1>3, <1>4

(* ConnectTip changes what is in memory and the index of it.               *)
LEMMA ConnectTipStep ==
    ASSUME IInv, NEW b \in Block, ConnectTip(b) PROVE IInv'
    <1> USE DEF ConnectTip, store, IInv
    <1>1. TypeOK'
      BY DEF TypeOK, Have
    <1>2. BestBlockHonest' /\ MixtureOfTwo' /\ StartupSucceeds'
      BY DEF BestBlockHonest, MixtureOfTwo, StartupSucceeds
    <1>3. IndexSound'
      <2>1. \A x \in Block : x = b \/ mem[x] = "undo" => mem'[x] = "undo"
        BY DEF TypeOK
      <2>2. Undone(mem', tip')
        <3>1. Ancestors[b] = {b} \cup Ancestors[tip] /\ Ancestors[b] \subseteq Block
          BY AncestorsIs
        <3>2. QED
          BY <2>1, <3>1 DEF IndexSound, Undone
      <2>3. QED
        BY <2>1, <2>2 DEF IndexSound, Writing
    <1>4. WritesMarked'
      BY DEF WritesMarked, Writing
    <1>5. QED
      BY <1>1, <1>2, <1>3, <1>4

(* DisconnectTip moves the tip only; the block keeps its undo data.        *)
LEMMA DisconnectTipStep ==
    ASSUME IInv, DisconnectTip PROVE IInv'
    <1> USE DEF DisconnectTip, store, IInv
    <1>1. TypeOK'
      BY ChainAssumption DEF TypeOK
    <1>2. BestBlockHonest' /\ MixtureOfTwo' /\ StartupSucceeds'
      BY DEF BestBlockHonest, MixtureOfTwo, StartupSucceeds
    <1>3. IndexSound'
      <2>1. Undone(mem', tip')
        <3>1. Ancestors[Parent[tip]] \subseteq Ancestors[tip]
          BY AncestorsIs DEF TypeOK
        <3>2. QED
          BY <3>1 DEF IndexSound, Undone
      <2>2. QED
        BY <2>1 DEF IndexSound, Writing
    <1>4. WritesMarked'
      BY DEF WritesMarked, Writing
    <1>5. QED
      BY <1>1, <1>2, <1>3, <1>4

(* The index on disk takes over the one in memory.                         *)
LEMMA UndoneMoves ==
    ASSUME TypeOK, IndexSound, NEW b \in Block, Undone(disk, b)
    PROVE  Undone(mem, b)
    BY AncestorsEnds DEF IndexSound, Undone

(* The blocks the coins on disk are at, or go to, have their ancestors'    *)
(* undo data in memory too.                                                *)
LEMMA IndexWritten ==
    ASSUME TypeOK, IndexSound
    PROVE  /\ mem[Genesis] = "undo"
           /\ best # Null => Undone(mem, best)
           /\ heads # <<>> => Undone(mem, heads[1])
           /\ heads # <<>> /\ heads[2] # Null => Undone(mem, heads[2])
    <1>1. Genesis \in Block /\ (best # Null => best \in Block)
      BY ChainAssumption DEF TypeOK
    <1>2. heads # <<>> => heads[1] \in Block /\ heads[2] \in Block \cup {Null}
      BY DEF TypeOK
    <1>3. QED
      BY <1>1, <1>2, UndoneMoves DEF IndexSound

(* The index is written before the coins.                                  *)
LEMMA WriteIndexStep ==
    ASSUME IInv, WriteIndex PROVE IInv'
    <1> USE DEF WriteIndex, IInv
    <1>1. TypeOK'
      BY DEF TypeOK
    <1>2. BestBlockHonest' /\ MixtureOfTwo' /\ StartupSucceeds'
      BY DEF BestBlockHonest, MixtureOfTwo, StartupSucceeds
    <1>3. IndexSound'
      BY IndexWritten DEF IndexSound, Writing
    <1>4. WritesMarked'
      BY DEF WritesMarked, Writing
    <1>5. QED
      BY <1>1, <1>2, <1>3, <1>4

(* A flush fixes its target, whose undo data is on disk by then.           *)
LEMMA BeginFlushStep ==
    ASSUME IInv, BeginFlush PROVE IInv'
    <1> USE DEF BeginFlush, IInv
    <1>1. TypeOK'
      BY AfterIs DEF TypeOK, Phases, Coins
    <1>2. BestBlockHonest' /\ MixtureOfTwo' /\ StartupSucceeds'
      BY DEF BestBlockHonest, MixtureOfTwo, StartupSucceeds
    <1>3. IndexSound'
      BY IndexWritten DEF IndexSound, Writing
    <1>4. WritesMarked'
      BY DEF WritesMarked, Writing
    <1>5. QED
      BY <1>1, <1>2, <1>3, <1>4

(* The first batch leaves a mixture of where the database came from and    *)
(* where it goes; a later one, also of a replay, stays in it.              *)
LEMMA WritePartialStep ==
    ASSUME IInv, NEW written \in SUBSET Outpoint, WritePartial(written) PROVE IInv'
    <1> USE DEF WritePartial, IInv
    <1>1. target \in Block /\ OldTip \in Block \cup {Null}
      BY DEF TypeOK, OldTip
    <1>2. TypeOK'
      <2>1. coins' \in [Outpoint -> Block \cup {Spent}]
        BY DEF TypeOK
      <2>2. heads' \in Block \X (Block \cup {Null})
        BY <1>1
      <2>3. QED
        BY <2>1, <2>2 DEF TypeOK
    <1>3. heads' # <<>> /\ heads'[1] = target /\ heads'[2] = OldTip
      OBVIOUS
    <1>4. BestBlockHonest' /\ StartupSucceeds'
      BY <1>3 DEF BestBlockHonest, StartupSucceeds
    <1>5. MixtureOfTwo'
      <2>1. SUFFICES ASSUME NEW o \in Outpoint
                     PROVE  coins'[o] \in {After[target][o], IF OldTip = Null THEN Spent ELSE After[OldTip][o]}
        BY <1>3 DEF MixtureOfTwo
      <2>2. coins'[o] = After[target][o] \/ coins'[o] = coins[o]
        BY DEF WritesMarked
      <2>3. CASE heads # <<>>
        <3>1. best = Null /\ OldTip = heads[2] /\ heads[1] = target
          BY <2>3 DEF BestBlockHonest, OldTip, WritesMarked
        <3>2. QED
          BY <2>2, <2>3, <3>1 DEF MixtureOfTwo
      <2>4. CASE heads = <<>>
        <3>1. OldTip = best
          BY <2>4 DEF OldTip
        <3>2. coins[o] = IF best = Null THEN Spent ELSE After[best][o]
          BY <2>4, AfterIs DEF BestBlockHonest
        <3>3. QED
          BY <2>2, <3>1, <3>2
      <2>5. QED
        BY <2>3, <2>4
    <1>6. IndexSound'
      <2>1. Undone(disk, target)
        BY DEF IndexSound
      <2>2. OldTip # Null => Undone(disk, OldTip)
        BY DEF IndexSound, OldTip
      <2>3. QED
        BY <1>3, <2>1, <2>2 DEF IndexSound, Writing
    <1>7. WritesMarked'
      BY <1>3 DEF WritesMarked, Writing
    <1>8. QED
      BY <1>2, <1>4, <1>5, <1>6, <1>7

(* The last batch replaces the two heads by the new best block.            *)
LEMMA WriteFinalStep ==
    ASSUME IInv, WriteFinal PROVE IInv'
    <1> USE DEF WriteFinal, IInv
    <1>1. TypeOK'
      BY DEF TypeOK, Phases
    <1>2. BestBlockHonest' /\ MixtureOfTwo' /\ StartupSucceeds'
      <2>1. target # Null
        BY ChainAssumption DEF TypeOK
      <2>2. QED
        BY <2>1 DEF BestBlockHonest, MixtureOfTwo, StartupSucceeds, WritesMarked
    <1>3. IndexSound'
      <2>1. Undone(disk, target) /\ Undone(mem, target)
        BY UndoneMoves DEF IndexSound, TypeOK
      <2>2. QED
        BY <2>1 DEF IndexSound, Writing
    <1>4. WritesMarked'
      BY DEF WritesMarked, Writing
    <1>5. QED
      BY <1>1, <1>2, <1>3, <1>4

(* The dump of the assets touches no coin.                                 *)
LEMMA DumpStep ==
    ASSUME IInv, DumpCacheToDatabase PROVE IInv'
    <1> USE DEF DumpCacheToDatabase, IInv
    <1>1. TypeOK'
      BY DEF TypeOK, Phases
    <1>2. BestBlockHonest' /\ MixtureOfTwo' /\ StartupSucceeds'
      BY DEF BestBlockHonest, MixtureOfTwo, StartupSucceeds
    <1>3. IndexSound'
      BY DEF IndexSound, Writing
    <1>4. WritesMarked'
      BY DEF WritesMarked, Writing
    <1>5. QED
      BY <1>1, <1>2, <1>3, <1>4

(* A crash leaves what is on disk.                                         *)
LEMMA CrashStep ==
    ASSUME IInv, Crash PROVE IInv'
    <1> USE DEF Crash, store, IInv
    <1>1. TypeOK'
      BY ChainAssumption DEF TypeOK, Phases
    <1>2. BestBlockHonest' /\ MixtureOfTwo' /\ StartupSucceeds'
      BY DEF BestBlockHonest, MixtureOfTwo, StartupSucceeds
    <1>3. IndexSound'
      BY DEF IndexSound, Writing
    <1>4. WritesMarked'
      BY DEF WritesMarked, Writing
    <1>5. QED
      BY <1>1, <1>2, <1>3, <1>4

(* Both branches that a replay needs are in the index, and what it makes   *)
(* of the coins is right.                                                  *)
LEMMA StartupStep ==
    ASSUME IInv, Startup PROVE IInv'
    <1> USE DEF Startup, store, IInv
    <1>1. CASE heads = <<>>
      <2>1. phase' = "running"
        <3>1. best # Null => best \in Ancestors[best]
          BY AncestorsEnds DEF TypeOK
        <3>2. best # Null => disk[best] = "undo"
          BY <3>1 DEF IndexSound, Undone
        <3>3. QED
          BY <1>1, <3>2
      <2>2. tip' \in Block /\ Undone(disk, tip')
        <3>1. CASE best = Null
          <4>1. tip' = Genesis
            BY <1>1, <3>1 DEF LoadedTip
          <4>2. QED
            BY <4>1, AncestorsIs, ChainAssumption DEF IndexSound, Undone
        <3>2. CASE best # Null
          BY <1>1, <3>2 DEF LoadedTip, IndexSound, TypeOK
        <3>3. QED
          BY <3>1, <3>2
      <2>3. TypeOK'
        BY <1>1, <2>1, <2>2 DEF TypeOK, Phases
      <2>4. BestBlockHonest' /\ MixtureOfTwo' /\ StartupSucceeds'
        BY <2>1 DEF BestBlockHonest, MixtureOfTwo, StartupSucceeds
      <2>5. IndexSound'
        BY <2>1, <2>2 DEF IndexSound, Writing
      <2>6. WritesMarked'
        BY <1>1, <2>1 DEF WritesMarked, Writing
      <2>7. QED
        BY <2>3, <2>4, <2>5, <2>6
    <1>2. CASE heads # <<>>
      <2> DEFINE new == heads[1]
                 old == heads[2]
                 fork == Fork(new, old)
      <2>1. new \in Block /\ old \in Block \cup {Null} /\ coins \in Coins
        BY <1>2 DEF TypeOK, Coins
      <2>2. Undone(disk, new) /\ (old # Null => Undone(disk, old))
        BY <1>2 DEF IndexSound
      <2>3. CanReplay(new, old)
        <3>1. new \in Ancestors[new] /\ (old # Null => old \in Ancestors[old])
          BY <2>1, AncestorsEnds
        <3> HIDE DEF new, old, fork
        <3>2. QED
          BY <2>2, <3>1 DEF CanReplay, Undone
      <2>4. Replayed(new, old, coins) = After[new]
        <3>1. Mixture(coins, new, old)
          BY <1>2, AfterIs DEF MixtureOfTwo, Mixture, At
        <3> HIDE DEF new, old
        <3>2. QED
          BY <2>1, <3>1, ReplayCorrect
      <2>5. phase' = "replaying" /\ target' = new /\ image' = After[new] /\ tip' = Genesis
        BY <1>2, <2>3, <2>4
      <2>6. TypeOK'
        <3>1. image' \in [Outpoint -> Block \cup {Spent}]
          BY <2>1, <2>5, AfterIs DEF Coins
        <3>2. assets' \in SUBSET Block
          BY <1>2 DEF TypeOK
        <3>3. QED
          BY <3>1, <3>2, <2>1, <2>5, ChainAssumption DEF TypeOK, Phases
      <2>7. BestBlockHonest' /\ MixtureOfTwo' /\ StartupSucceeds'
        BY <2>5 DEF BestBlockHonest, MixtureOfTwo, StartupSucceeds
      <2>8. IndexSound'
        BY <2>2, <2>5 DEF IndexSound, Writing
      <2>9. WritesMarked'
        BY <1>2, <2>5 DEF WritesMarked, Writing
      <2>10. QED
        BY <2>6, <2>7, <2>8, <2>9
    <1>3. QED
      BY <1>1, <1>2

(* Every step keeps the invariant.                                         *)
LEMMA NextIInv == IInv /\ [Next]_vars => IInv'
    <1> SUFFICES ASSUME IInv, [Next]_vars PROVE IInv'
      OBVIOUS
    <1>1. ASSUME NEW b \in Block, StoreBlock(b) PROVE IInv'
      BY <1>1, StoreBlockStep
    <1>2. ASSUME NEW b \in Block, ConnectTip(b) PROVE IInv'
      BY <1>2, ConnectTipStep
    <1>3. CASE DisconnectTip
      BY <1>3, DisconnectTipStep
    <1>4. CASE WriteIndex
      BY <1>4, WriteIndexStep
    <1>5. CASE BeginFlush
      BY <1>5, BeginFlushStep
    <1>6. ASSUME NEW written \in SUBSET Outpoint, WritePartial(written) PROVE IInv'
      BY <1>6, WritePartialStep
    <1>7. CASE WriteFinal
      BY <1>7, WriteFinalStep
    <1>8. CASE DumpCacheToDatabase
      BY <1>8, DumpStep
    <1>9. CASE Crash
      BY <1>9, CrashStep
    <1>10. CASE Startup
      BY <1>10, StartupStep
    <1>11. CASE UNCHANGED vars
      BY <1>11 DEF vars, IInv, TypeOK, BestBlockHonest, MixtureOfTwo, StartupSucceeds, IndexSound,
         WritesMarked, Writing
    <1>12. QED
      BY <1>1, <1>2, <1>3, <1>4, <1>5, <1>6, <1>7, <1>8, <1>9, <1>10, <1>11 DEF Next

(* The inductive invariant holds throughout.                               *)
LEMMA Invariance == Spec => []IInv
    BY InitIInv, NextIInv, PTL DEF Spec

-----------------------------------------------------------------------------
(* The databases, the memory and the phase keep their types.               *)
THEOREM TypeCorrect == Spec => []TypeOK
    <1>1. IInv => TypeOK
      BY DEF IInv
    <1>2. QED
      BY <1>1, Invariance, PTL

(* DB_BEST_BLOCK never lies about the coins in the database, whatever      *)
(* batches were written and wherever the node died.                        *)
THEOREM BestBlockIsHonest == Spec => []BestBlockHonest
    <1>1. IInv => BestBlockHonest
      BY DEF IInv
    <1>2. QED
      BY <1>1, Invariance, PTL

(* A half-written database mixes the coins at two tips that                *)
(* DB_HEAD_BLOCKS names, however often a replay was cut off.               *)
THEOREM MixturesOfTwo == Spec => []MixtureOfTwo
    <1>1. IInv => MixtureOfTwo
      BY DEF IInv
    <1>2. QED
      BY <1>1, Invariance, PTL

(* ReplayBlocks computes the coins after the new tip from whatever a crash *)
(* left in the database.                                                   *)
THEOREM ReplaysRestore == Spec => []ReplayRestores
    <1>1. IInv => ReplayRestores
      BY DEF IInv, WritesMarked, ReplayRestores, Writing
    <1>2. QED
      BY <1>1, Invariance, PTL

(* Startup always finds the blocks and undo data it needs.                 *)
THEOREM StartupsSucceed == Spec => []StartupSucceeds
    <1>1. IInv => StartupSucceeds
      BY DEF IInv
    <1>2. QED
      BY <1>1, Invariance, PTL
=============================================================================
