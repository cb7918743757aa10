--------------------------- MODULE BlockTreeProofs ---------------------------
(***************************************************************************)
(* Proofs about the block tree, for any tree, any number of threads and    *)
(* any sequence of commands, unless a theorem says otherwise.              *)
(***************************************************************************)
EXTENDS BlockTree, InductionLemmas

-----------------------------------------------------------------------------
(* A block that is not in the index has nothing.                           *)
Unseen ==
    \A b \in Block \ known :
        /\ valid[b] = 0 /\ failed[b] = {} /\ sequenceId[b] <= 0
        /\ ~data[b] /\ ~undo[b] /\ ~processed[b] /\ ~linked[b]

(* The index and the linked blocks are closed under parents; what hangs    *)
(* on mapBlocksUnlinked was received.                                      *)
Rooted ==
    /\ \A b \in known : Parent[b] \in known
    /\ \A b \in Block : linked[b] => processed[b] /\ linked[Parent[b]]
    /\ linked[Genesis] /\ valid[Genesis] = VALID_SCRIPTS /\ ~undo[Genesis]
    /\ \A p \in unlinked : \E x \in known \ {Genesis} : p = <<Parent[x], x>> /\ processed[x]
    /\ \A b \in BadContext : ~processed[b]

(* What may become active is linked.                                       *)
UsesLinked ==
    /\ linked[tip]
    /\ \A b \in candidates : linked[b]
    /\ \A t \in Thread : mostWork[t] # None => linked[mostWork[t]]

(* The part of FieldsConsistent that holds whatever happens.               *)
Received ==
    \A b \in known :
        /\ ~linked[b] => sequenceId[b] <= 0
        /\ data[b] => processed[b]
        /\ ~havePruned => (processed[b] => data[b])
        /\ undo[b] => data[b]
        /\ valid[b] >= VALID_TRANSACTIONS <=> processed[b]

(* nBlockReverseSequenceId counts down from -1.                            *)
Reversed == reverseSequenceId < 0

IndexInv == TypeOK /\ Unseen /\ Rooted /\ UsesLinked /\ Received

(* A mark, and where it comes from.                                        *)
Marked(flags, b) == flags[b] # {}
Reasoned(flags) == \A b \in Block : Marked(flags, b) => \E a \in Ancestors[b] : "VALID" \in flags[a]

(* Without invalidateblock only blocks that are bad are marked, and those  *)
(* above them.                                                             *)
BadBelow(flags) == \A b \in Block : Marked(flags, b) => Ancestors[b] \cap (BadContext \cup BadConnect) # {}
ChainGood == Chain \cap BadConnect = {}

(* With one thread, nothing on the way to its target is marked.            *)
TargetsClean ==
    \A t \in Thread : mostWork[t] # None =>
        \A x \in Ancestors[mostWork[t]] \ Chain : failed[x] = {}

ChainInv ==
    /\ NoFailedInChain
    /\ valid[tip] = VALID_SCRIPTS
    /\ \A b \in Block : valid[b] = VALID_SCRIPTS => \A a \in Ancestors[b] : valid[a] = VALID_SCRIPTS
    /\ "invalidate" \notin Commands => BadBelow(failed) /\ ChainGood
    /\ "invalidate" \in Commands => TargetsClean

(* A block that is not linked, nor will be before the node restarts: it is *)
(* marked, so that it is not accepted any more, and it was never received, *)
(* or it was forgotten and its parent has come meanwhile.                  *)
Barred(a) == failed[a] # {} /\ (~processed[a] \/ (Forgotten(a) /\ linked[Parent[a]]))

(* A block that will not have all its parents.                             *)
Doomed(b) == \E a \in Ancestors[b] : Barred(a)

LinkInv ==
    /\ \A b \in Block : ~linked[b] /\ failed[b] # {} => Doomed(b)
    /\ \A b \in Block \ {Genesis} : data[b] /\ ~linked[b] => <<Parent[b], b>> \in unlinked \/ Doomed(b)
    /\ \A b \in Block \ {Genesis} : data[b] /\ linked[Parent[b]] => linked[b]
    /\ \A b \in Block \ {Genesis} : <<Parent[b], b>> \in unlinked /\ linked[Parent[b]] => linked[b]

-----------------------------------------------------------------------------
(* The block index is a tree that grows upwards from Genesis.              *)
LEMMA BlockForest == Forest(Block, {Genesis}, Parent, Height)
    BY TreeAssumption DEF Forest

(* A set of blocks that holds Genesis and, with a block's parent, the      *)
(* block, holds every block.                                               *)
LEMMA BlockInduction ==
    ASSUME NEW T, Genesis \in T, \A b \in Block \ {Genesis} : Parent[b] \in T => b \in T
    PROVE  Block \subseteq T
    <1>1. {Genesis} \subseteq T
      OBVIOUS
    <1>2. QED
      BY <1>1, BlockForest, TreeInduction

(* The equation of Ancestors.                                              *)
LEMMA AncestorsIs ==
    /\ Ancestors \in [Block -> SUBSET Block]
    /\ Ancestors[Genesis] = {Genesis}
    /\ \A b \in Block \ {Genesis} : Ancestors[b] = {b} \cup Ancestors[Parent[b]]
    <1> DEFINE B == {Genesis}
               V == SUBSET Block
               base == [x \in B |-> {x}]
               st == [x \in Block \ B |-> [v \in V |-> {x} \cup v]]
    <1>1. base \in [B -> V] /\ st \in [Block \ B -> [V -> V]]
      BY TreeAssumption
    <1>2. Forest(Block, B, Parent, Height)
      BY BlockForest
    <1>r. TreeRecursive(Block, B, V, base, st)
      BY <1>1 DEF TreeRecursive
    <1>3. PICK g : TreeSolution(g, Block, B, Parent, V, base, st)
      <2> HIDE DEF B, base, st, V
      <2>3. QED
        BY <1>r, <1>2, TreeRecursion
    <1>4. g = [x \in Block |-> IF x = Genesis THEN {x} ELSE {x} \cup g[Parent[x]]]
      <2>1. ASSUME NEW x \in Block PROVE g[x] = IF x = Genesis THEN {x} ELSE {x} \cup g[Parent[x]]
        BY <1>3, TreeAssumption DEF TreeStep, TreeSolution
      <2>2. QED
        BY <2>1, <1>3 DEF TreeSolution
    <1>5. Ancestors = [x \in Block |-> IF x = Genesis THEN {x} ELSE {x} \cup Ancestors[Parent[x]]]
      BY <1>4, Zenon DEF Ancestors
    <1>6. \A x \in Block : Ancestors[x] = g[x]
      <2>1. \A x \in B : Ancestors[x] = base[x]
        BY <1>5, TreeAssumption
      <2>2. \A x \in Block \ B : Ancestors[Parent[x]] \in V => Ancestors[x] = st[x][Ancestors[Parent[x]]]
        BY <1>5
      <2> HIDE DEF B, base, st, V
      <2>3. QED
        BY <1>r, <1>2, <1>3, <2>1, <2>2, TreeUnique
    <1>7. Ancestors \in [Block -> V]
      BY <1>5, <1>6, <1>3 DEF TreeSolution
    <1>8. QED
      BY <1>7, <1>5, TreeAssumption

(* A block is its own ancestor and Genesis is everybody's.                 *)
LEMMA AncestorsEnds ==
    ASSUME NEW b \in Block
    PROVE  b \in Ancestors[b] /\ Genesis \in Ancestors[b] /\ Ancestors[b] \subseteq Block
    <1> DEFINE T == {x \in Block : Genesis \in Ancestors[x]}
    <1>1. Genesis \in T /\ \A x \in Block \ {Genesis} : Parent[x] \in T => x \in T
      BY AncestorsIs, TreeAssumption
    <1> HIDE DEF T
    <1>2. Block \subseteq T
      BY <1>1, BlockInduction
    <1>3. QED
      BY <1>2, AncestorsIs DEF T

(* An ancestor of an ancestor is one.                                      *)
LEMMA AncestorsTransitive ==
    ASSUME NEW b \in Block, NEW x \in Ancestors[b]
    PROVE  Ancestors[x] \subseteq Ancestors[b]
    <1> DEFINE T == {z \in Block : \A y \in Ancestors[z] : Ancestors[y] \subseteq Ancestors[z]}
    <1>1. Genesis \in T
      BY AncestorsIs, TreeAssumption
    <1>2. ASSUME NEW z \in Block \ {Genesis}, Parent[z] \in T PROVE z \in T
      BY <1>2, AncestorsIs, TreeAssumption
    <1> HIDE DEF T
    <1>3. Block \subseteq T
      BY <1>1, <1>2, BlockInduction
    <1>4. QED
      BY <1>3 DEF T

(* An ancestor is lower, and the parent of an ancestor is one.             *)
LEMMA AncestorsBelow ==
    ASSUME NEW b \in Block, NEW x \in Ancestors[b], x # b
    PROVE  b # Genesis /\ x \in Ancestors[Parent[b]] /\ Height[x] < Height[b]
    <1> DEFINE T == {z \in Block : \A y \in Ancestors[z] : Height[y] <= Height[z]}
    <1>1. Genesis \in T
      BY AncestorsIs, TreeAssumption
    <1>2. ASSUME NEW z \in Block \ {Genesis}, Parent[z] \in T PROVE z \in T
      <2>1. Height[z] \in Nat /\ Height[Parent[z]] \in Nat /\ Height[z] = Height[Parent[z]] + 1
        BY TreeAssumption
      <2>2. ASSUME NEW y \in Ancestors[z] PROVE Height[y] <= Height[z]
        <3>1. y \in Block /\ Height[y] \in Nat
          BY AncestorsIs, TreeAssumption
        <3>2. y = z \/ y \in Ancestors[Parent[z]]
          BY AncestorsIs
        <3>3. y = z \/ Height[y] <= Height[Parent[z]]
          BY <3>2, <1>2
        <3>4. QED
          BY <3>1, <3>3, <2>1
      <2>3. QED
        BY <2>2
    <1> HIDE DEF T
    <1>3. Block \subseteq T
      BY <1>1, <1>2, BlockInduction
    <1>4. b # Genesis /\ x \in Ancestors[Parent[b]] /\ Parent[b] \in Block
      BY AncestorsIs, TreeAssumption
    <1>5. x \in Block /\ Height[x] <= Height[Parent[b]]
      BY <1>4, <1>3, AncestorsIs DEF T
    <1>6. QED
      BY <1>4, <1>5, TreeAssumption

(* The parent of an ancestor is an ancestor.                               *)
LEMMA AncestorsClosed ==
    ASSUME NEW b \in Block, NEW x \in Ancestors[b], x # Genesis
    PROVE  Parent[x] \in Ancestors[b] /\ Parent[x] \in Ancestors[x]
    <1>1. x \in Block /\ Parent[x] \in Block
      BY AncestorsIs, TreeAssumption
    <1>2. Parent[x] \in Ancestors[x]
      BY <1>1, AncestorsIs, AncestorsEnds
    <1>3. QED
      BY <1>1, <1>2, AncestorsTransitive

(* Two blocks that descend from each other are one.                        *)
LEMMA AncestorsAntisymmetric ==
    ASSUME NEW b \in Block, NEW x \in Ancestors[b], b \in Ancestors[x]
    PROVE  x = b
    <1>1. x \in Block
      BY AncestorsIs
    <1>2. Height[x] \in Nat /\ Height[b] \in Nat
      BY <1>1, TreeAssumption
    <1>3. x # b => Height[x] < Height[b] /\ Height[b] < Height[x]
      BY <1>1, AncestorsBelow
    <1>4. QED
      BY <1>2, <1>3

(* Of two ancestors of a block one is an ancestor of the other.            *)
LEMMA AncestorsLinear ==
    ASSUME NEW b \in Block, NEW x \in Ancestors[b], NEW y \in Ancestors[b]
    PROVE  x \in Ancestors[y] \/ y \in Ancestors[x]
    <1> DEFINE T == {z \in Block : \A u, v \in Ancestors[z] : u \in Ancestors[v] \/ v \in Ancestors[u]}
    <1>1. Genesis \in T
      BY AncestorsIs, TreeAssumption
    <1>2. ASSUME NEW z \in Block \ {Genesis}, Parent[z] \in T PROVE z \in T
      BY <1>2, AncestorsIs, TreeAssumption
    <1> HIDE DEF T
    <1>3. Block \subseteq T
      BY <1>1, <1>2, BlockInduction
    <1>4. QED
      BY <1>3 DEF T

(* What an ancestor of b but not of f has, if f is one: it has f below.    *)
LEMMA AncestorsBetween ==
    ASSUME NEW b \in Block, NEW f \in Ancestors[b], NEW x \in Ancestors[b], x \notin Ancestors[f]
    PROVE  /\ f \in Ancestors[x] /\ x # f /\ x # Genesis /\ x \in Block
           /\ f \in Ancestors[Parent[x]] /\ Parent[x] \in Ancestors[b]
    <1>1. f \in Ancestors[x] /\ x \in Block /\ f \in Block
      BY AncestorsLinear, AncestorsIs
    <1>2. x # f /\ x # Genesis
      BY <1>1, AncestorsEnds
    <1>3. QED
      BY <1>1, <1>2, AncestorsBelow, AncestorsClosed

(* Lowest is the lowest of a set of blocks.                                *)
LEMMA LowestIs ==
    ASSUME NEW S \in SUBSET Block, S # {}
    PROVE  Lowest(S) \in S /\ \A x \in S : Height[Lowest(S)] <= Height[x]
    <1>1. {Height[x] : x \in S} \in SUBSET Nat /\ {Height[x] : x \in S} # {}
      BY TreeAssumption
    <1>2. PICK n \in {Height[x] : x \in S} : \A m \in {Height[x] : x \in S} : n <= m
      BY <1>1, LeastNat
    <1>3. \E b \in S : \A x \in S : Height[b] <= Height[x]
      BY <1>2
    <1>4. QED
      BY <1>3, Zenon DEF Lowest

(* Highest is the highest of the ancestors of a block.                     *)
LEMMA HighestIs ==
    ASSUME NEW b \in Block, NEW S \in SUBSET Ancestors[b], S # {}
    PROVE  Highest(S) \in S /\ \A x \in S : Height[x] <= Height[Highest(S)]
    <1> DEFINE D == {Height[b] - Height[x] : x \in S}
    <1>1. \A x \in S : x \in Block /\ Height[x] \in Nat /\ Height[b] \in Nat /\ Height[x] <= Height[b]
      BY AncestorsIs, AncestorsBelow, TreeAssumption
    <1>2. D \in SUBSET Nat /\ D # {}
      BY <1>1
    <1>3. PICK n \in D : \A m \in D : n <= m
      BY <1>2, LeastNat
    <1>4. PICK h \in S : n = Height[b] - Height[h]
      OBVIOUS
    <1>5. ASSUME NEW x \in S PROVE Height[x] <= Height[h]
      <2>1. Height[b] - Height[h] <= Height[b] - Height[x]
        BY <1>3, <1>4
      <2>2. QED
        BY <2>1, <1>1
    <1>6. \E y \in S : \A x \in S : Height[x] <= Height[y]
      BY <1>5
    <1>7. QED
      BY <1>6, Zenon DEF Highest

(* Among the ancestors of a block the height decides who descends from     *)
(* whom.                                                                   *)
LEMMA HigherDescends ==
    ASSUME NEW b \in Block, NEW x \in Ancestors[b], NEW y \in Ancestors[b], Height[x] <= Height[y]
    PROVE  x \in Ancestors[y]
    <1>1. x \in Block /\ y \in Block /\ Height[x] \in Nat /\ Height[y] \in Nat
      BY AncestorsIs, TreeAssumption
    <1>2. CASE y \in Ancestors[x] /\ x # y
      BY <1>1, <1>2, AncestorsBelow
    <1>3. CASE x = y
      BY <1>1, <1>3, AncestorsEnds
    <1>4. QED
      BY <1>2, <1>3, AncestorsLinear

(* A property that Genesis has and b has not is lost at some ancestor.     *)
LEMMA FirstWithout ==
    ASSUME NEW b \in Block, NEW P, Genesis \in P, b \notin P
    PROVE  \E a \in Ancestors[b] : a # Genesis /\ a \notin P /\ Parent[a] \in P
    <1> DEFINE T == {z \in Block : z \notin P => \E a \in Ancestors[z] : a # Genesis /\ a \notin P /\ Parent[a] \in P}
    <1>1. Genesis \in T
      BY TreeAssumption
    <1>2. ASSUME NEW z \in Block \ {Genesis}, Parent[z] \in T PROVE z \in T
      <2>1. z \in Ancestors[z] /\ Ancestors[Parent[z]] \subseteq Ancestors[z]
        BY AncestorsIs
      <2>2. QED
        BY <1>2, <2>1
    <1> HIDE DEF T
    <1>3. Block \subseteq T
      BY <1>1, <1>2, BlockInduction
    <1>4. QED
      BY <1>3 DEF T

(* CBlockIndexWorkComparator is a strict total order.                      *)
LEMMA WorseOrder ==
    ASSUME NEW seq \in [Block -> Int], NEW x \in Block, NEW y \in Block, NEW z \in Block
    PROVE  /\ ~Worse(x, x, seq)
           /\ x # y => Worse(x, y, seq) \/ Worse(y, x, seq)
           /\ Worse(x, y, seq) /\ Worse(y, z, seq) => Worse(x, z, seq)
    <1>1. Work[x] \in Nat /\ Work[y] \in Nat /\ Work[z] \in Nat
      BY TreeAssumption
    <1>2. Addr[x] \in Nat /\ Addr[y] \in Nat /\ Addr[z] \in Nat /\ (x # y => Addr[x] # Addr[y])
      BY TreeAssumption
    <1>3. seq[x] \in Int /\ seq[y] \in Int /\ seq[z] \in Int
      OBVIOUS
    <1>4. QED
      BY <1>1, <1>2, <1>3 DEF Worse

IsBest(c, S, seq) == c \in S /\ \A x \in S : x = c \/ Worse(x, c, seq)

(* A set of blocks has a best one.                                         *)
LEMMA BestExists ==
    ASSUME NEW seq \in [Block -> Int], NEW S \in SUBSET Block, S # {}
    PROVE  \E c : IsBest(c, S, seq)
    <1> DEFINE T == {s \in SUBSET Block : s # {} /\ ~\E c : IsBest(c, s, seq)}
    <1>1. SUFFICES ASSUME T # {} PROVE FALSE
      OBVIOUS
    <1>2. T \in SUBSET (SUBSET Block)
      OBVIOUS
    <1>3. PICK s \in T : \A r \in T : r \subseteq s => r = s
      <2> HIDE DEF T
      <2>1. IsFiniteSet(Block)
        BY TreeAssumption
      <2>2. QED
        BY <1>1, <1>2, <2>1, MinimalSubset
    <1>4. PICK e \in s : TRUE
      OBVIOUS
    <1>5. s \ {e} \notin T
      BY <1>3
    <1>6. CASE s \ {e} = {}
      <2>1. IsBest(e, s, seq)
        BY <1>6 DEF IsBest
      <2>2. QED
        BY <2>1
    <1>7. CASE s \ {e} # {}
      <2>1. PICK c : IsBest(c, s \ {e}, seq)
        BY <1>5, <1>7
      <2>2. e \in Block /\ c \in Block /\ c # e /\ s \subseteq Block
        BY <2>1 DEF IsBest
      <2>3. CASE Worse(e, c, seq)
        <3>1. IsBest(c, s, seq)
          BY <2>1, <2>3 DEF IsBest
        <3>2. QED
          BY <3>1
      <2>4. CASE Worse(c, e, seq)
        <3>1. ASSUME NEW x \in s PROVE x = e \/ Worse(x, e, seq)
          <4>1. x = e \/ x = c \/ Worse(x, c, seq)
            BY <2>1 DEF IsBest
          <4>2. QED
            BY <4>1, <2>2, <2>4, WorseOrder
        <3>2. IsBest(e, s, seq)
          BY <3>1 DEF IsBest
        <3>3. QED
          BY <3>2
      <2>5. QED
        BY <2>2, <2>3, <2>4, WorseOrder
    <1>8. QED
      BY <1>6, <1>7

(* FindMostWorkChain's choice among candidates.                            *)
LEMMA BestIs ==
    ASSUME NEW seq \in [Block -> Int], NEW S \in SUBSET Block, S # {}
    PROVE  LET best == CHOOSE c \in S : \A x \in S : x = c \/ Worse(x, c, seq)
           IN best \in S /\ \A x \in S : x = best \/ Worse(x, best, seq)
    <1>1. \E c \in S : \A x \in S : x = c \/ Worse(x, c, seq)
      BY BestExists DEF IsBest
    <1>2. QED
      BY <1>1, Zenon

-----------------------------------------------------------------------------
(* What ReceivedBlockTransactions links: b, and whatever waited for a      *)
(* block it links.                                                         *)
LEMMA NowLinkedIs ==
    ASSUME NEW b \in Block
    PROVE  /\ b \in NowLinked(b) /\ NowLinked(b) \subseteq Block
           /\ IsFiniteSet(NowLinked(b)) /\ Cardinality(NowLinked(b)) \in Nat
           /\ \A d \in NowLinked(b) \ {b} :
                 d # Genesis /\ Parent[d] \in NowLinked(b) /\ <<Parent[d], d>> \in unlinked
           /\ \A d \in Block \ {Genesis} :
                 Parent[d] \in NowLinked(b) /\ <<Parent[d], d>> \in unlinked => d \in NowLinked(b)
    <1>1. b \in NowLinked(b) /\ NowLinked(b) \subseteq Block
      BY AncestorsEnds DEF NowLinked
    <1>2. IsFiniteSet(NowLinked(b)) /\ Cardinality(NowLinked(b)) \in Nat
      BY <1>1, FS_Subset, FS_CardinalityType, TreeAssumption
    <1>3. ASSUME NEW d \in NowLinked(b) \ {b}
          PROVE  d # Genesis /\ Parent[d] \in NowLinked(b) /\ <<Parent[d], d>> \in unlinked
      <2>1. d \in Block /\ b \in Ancestors[d]
        BY DEF NowLinked
      <2>2. d # Genesis /\ b \in Ancestors[Parent[d]] /\ Parent[d] \in Block
        BY <2>1, <1>3, AncestorsBelow, TreeAssumption
      <2>3. d \in Ancestors[d] /\ d \notin Ancestors[b]
        BY <2>1, <1>3, AncestorsEnds, AncestorsAntisymmetric
      <2>4. Ancestors[Parent[d]] \subseteq Ancestors[d]
        BY <2>1, <2>2, AncestorsIs
      <2>5. QED
        BY <2>1, <2>2, <2>3, <2>4 DEF NowLinked
    <1>4. ASSUME NEW d \in Block \ {Genesis}, Parent[d] \in NowLinked(b), <<Parent[d], d>> \in unlinked
          PROVE  d \in NowLinked(b)
      <2>1. Ancestors[d] = {d} \cup Ancestors[Parent[d]]
        BY AncestorsIs
      <2>2. QED
        BY <2>1, <1>4 DEF NowLinked
    <1>5. QED
      BY <1>1, <1>2, <1>3, <1>4

-----------------------------------------------------------------------------
(* What IndexInv says, in the form the steps need it.                      *)
LEMMA Typed ==
    ASSUME TypeOK
    PROVE  /\ data \in [Block -> BOOLEAN] /\ undo \in [Block -> BOOLEAN]
           /\ processed \in [Block -> BOOLEAN] /\ linked \in [Block -> BOOLEAN]
           /\ sequenceId \in [Block -> Int] /\ failed \in [Block -> SUBSET {"VALID", "CHILD"}]
           /\ tip \in Block /\ candidates \subseteq Block /\ known \subseteq Block
           /\ unlinked \subseteq Block \X Block
    BY DEF TypeOK

(* The parents of a linked block are linked, and were received.            *)
LEMMA LinkedDown ==
    ASSUME IndexInv, NEW b \in Block, linked[b], NEW a \in Ancestors[b]
    PROVE  linked[a] /\ processed[a] /\ a \in known /\ a \in Block
    <1> DEFINE T == {z \in Block : linked[z] => \A x \in Ancestors[z] : linked[x]}
    <1>1. Genesis \in T
      BY AncestorsIs, TreeAssumption
    <1>2. ASSUME NEW z \in Block \ {Genesis}, Parent[z] \in T PROVE z \in T
      BY <1>2, AncestorsIs DEF IndexInv, Rooted
    <1> HIDE DEF T
    <1>3. Block \subseteq T
      BY <1>1, <1>2, BlockInduction
    <1>4. linked[a] /\ a \in Block
      BY <1>3, AncestorsIs DEF T
    <1>5. QED
      BY <1>4 DEF IndexInv, Rooted, Unseen

(* The ancestors of a block of the index are in it.                        *)
LEMMA KnownDown ==
    ASSUME IndexInv, NEW b \in known, NEW a \in Ancestors[b]
    PROVE  a \in known
    <1> DEFINE T == {z \in Block : z \in known => \A x \in Ancestors[z] : x \in known}
    <1>1. Genesis \in T
      BY AncestorsIs, TreeAssumption
    <1>2. ASSUME NEW z \in Block \ {Genesis}, Parent[z] \in T PROVE z \in T
      BY <1>2, AncestorsIs DEF IndexInv, Rooted
    <1> HIDE DEF T
    <1>3. Block \subseteq T
      BY <1>1, <1>2, BlockInduction
    <1>4. b \in Block
      BY DEF IndexInv, TypeOK
    <1>5. QED
      BY <1>3, <1>4 DEF T

-----------------------------------------------------------------------------
(* FindMostWorkChain.  What its loop may have changed after some turns:    *)
(* candidates are dropped; linked blocks outside the active chain are      *)
(* marked or put in mapBlocksUnlinked.                                     *)
SearchState ==
    [candidates : SUBSET Block, failed : [Block -> SUBSET {"VALID", "CHILD"}],
     unlinked : SUBSET (Block \X Block)]

Marks(flags) ==
    \A x \in Block :
        /\ failed[x] \subseteq flags[x]
        /\ flags[x] # failed[x] =>
              /\ flags[x] = failed[x] \cup {"CHILD"} /\ linked[x] /\ x \notin Chain
              /\ \E a \in Ancestors[x] : failed[a] # {}

Holds(entries) ==
    /\ unlinked \subseteq entries
    /\ \A p \in entries \ unlinked : \E x \in Block \ {Genesis} :
          p = <<Parent[x], x>> /\ linked[x] /\ \E a \in Ancestors[x] : linked[a] /\ ~data[a]

(* Only candidates that cannot be activated are dropped.                   *)
Spares(cand) ==
    \A c \in candidates \ cand : \E a \in Ancestors[c] : failed[a] # {} \/ (a \notin Chain /\ ~data[a])

Follows(s) ==
    /\ s \in SearchState /\ s.candidates \subseteq candidates /\ Spares(s.candidates)
    /\ Marks(s.failed) /\ Holds(s.unlinked)

BestOf(S) == CHOOSE c \in S : \A x \in S : x = c \/ Worse(x, c, sequenceId)

(* One turn that drops something.                                          *)
Dropped(s, best, first) ==
    LET above == Ancestors[best] \ Ancestors[first]
    IN [candidates |-> s.candidates \ (above \cup {first}),
        failed     |-> IF s.failed[first] = {} THEN s.failed
                       ELSE [x \in Block |-> IF x \in above THEN s.failed[x] \cup {"CHILD"}
                                                            ELSE s.failed[x]],
        unlinked   |-> IF s.failed[first] # {} THEN s.unlinked
                       ELSE s.unlinked \cup {<<Parent[x], x>> : x \in above}]

Settled(s) == s.candidates = {} \/ Unusable(BestOf(s.candidates), s.failed) = {}

(* A turn of FindMostWorkChain as one record.                              *)
LEMMA DiscardIs ==
    ASSUME NEW s
    PROVE  /\ Settled(s) => Discard(s) = s
           /\ ~Settled(s) => LET best == BestOf(s.candidates)
                             IN Discard(s) = Dropped(s, best, Highest(Unusable(best, s.failed)))
    <1>1. Settled(s) => Discard(s) = s
      BY DEF Settled, BestOf, Discard
    <1>2. ~Settled(s) => LET best == BestOf(s.candidates)
                             IN Discard(s) = Dropped(s, best, Highest(Unusable(best, s.failed)))
      BY Zenon DEF Settled, BestOf, Discard, Dropped
    <1>3. QED
      BY <1>1, <1>2

(* The first unusable block of a candidate.                                *)
LEMMA FirstUnusable ==
    ASSUME IndexInv, NEW s \in SearchState, s.candidates \subseteq candidates, ~Settled(s),
           NEW best, best = BestOf(s.candidates), NEW first, first = Highest(Unusable(best, s.failed))
    PROVE  /\ best \in s.candidates /\ best \in Block /\ linked[best]
           /\ first \in Ancestors[best] /\ first \notin Chain
           /\ s.failed[first] # {} \/ ~data[first]
           /\ \A x \in Ancestors[best] \ Ancestors[first] : s.failed[x] = {} /\ data[x] /\ x \notin Chain
    <1>1. s.candidates # {} /\ s.candidates \in SUBSET Block /\ Unusable(best, s.failed) # {}
      BY DEF Settled, SearchState
    <1>2. sequenceId \in [Block -> Int]
      BY DEF IndexInv, TypeOK
    <1>3. best \in s.candidates
      BY <1>1, <1>2, BestIs DEF BestOf
    <1>4. best \in Block /\ linked[best]
      BY <1>1, <1>3 DEF IndexInv, UsesLinked
    <1> DEFINE U == Unusable(best, s.failed)
    <1>5. U \in SUBSET Ancestors[best]
      BY DEF Unusable
    <1>6. first \in U /\ \A x \in U : Height[x] <= Height[first]
      <2> HIDE DEF U
      <2>1. U # {} /\ first = Highest(U)
        BY <1>1 DEF U
      <2>2. QED
        BY <1>4, <1>5, <2>1, HighestIs
    <1>7. first \in Ancestors[best] /\ first \notin Chain /\ (s.failed[first] # {} \/ ~data[first])
      BY <1>6 DEF Unusable
    <1>8. ASSUME NEW x \in Ancestors[best] \ Ancestors[first]
          PROVE  s.failed[x] = {} /\ data[x] /\ x \notin Chain
      <2>1. tip \in Block
        BY Typed DEF IndexInv
      <2>2. first \in Ancestors[x] /\ x \in Block /\ first \in Block
        BY <1>4, <1>7, AncestorsBetween, AncestorsIs
      <2>3. x \notin Chain
        BY <1>7, <2>1, <2>2, AncestorsTransitive DEF Chain
      <2>4. x \notin U
        BY <1>4, <1>6, <1>7, HigherDescends
      <2>5. QED
        BY <2>3, <2>4 DEF Unusable
    <1>9. QED
      BY <1>3, <1>4, <1>7, <1>8

(* A turn keeps what the start of the search had: marks only spread        *)
(* upwards from marks, and candidates that can be connected stay.          *)
LEMMA DiscardFollows ==
    ASSUME IndexInv, NEW s, Follows(s)
    PROVE  Follows(Discard(s))
    <1>1. CASE Settled(s)
      BY <1>1, DiscardIs
    <1>2. CASE ~Settled(s)
      <2>1. PICK best : best = BestOf(s.candidates)
        OBVIOUS
      <2>2. PICK first : first = Highest(Unusable(best, s.failed))
        OBVIOUS
      <2>3. Discard(s) = Dropped(s, best, first)
        BY <1>2, <2>1, <2>2, DiscardIs
      <2>4. s \in SearchState /\ s.candidates \subseteq candidates
        BY DEF Follows
      <2>5. /\ best \in Block /\ linked[best] /\ first \in Ancestors[best]
            /\ \A x \in Ancestors[best] \ Ancestors[first] : x \notin Chain
        BY <1>2, <2>1, <2>2, <2>4, FirstUnusable
      <2> DEFINE above == Ancestors[best] \ Ancestors[first]
                 r == Dropped(s, best, first)
      <2>6. ASSUME NEW x \in above
            PROVE  /\ x \in Block \ {Genesis} /\ linked[x] /\ x \notin Chain /\ Parent[x] \in Block
                   /\ Ancestors[first] \subseteq Ancestors[x]
        <3>1. x \in Block \ {Genesis} /\ first \in Ancestors[x]
          BY <2>5, AncestorsBetween
        <3>2. linked[x]
          BY <2>5, LinkedDown
        <3>3. Ancestors[first] \subseteq Ancestors[x]
          BY <3>1, AncestorsTransitive
        <3>4. QED
          BY <3>1, <3>2, <3>3, <2>5, TreeAssumption
      <2>7. r \in SearchState
        <3>1. s.failed \in [Block -> SUBSET {"VALID", "CHILD"}] /\ s.unlinked \subseteq Block \X Block
              /\ s.candidates \subseteq Block
          BY <2>4 DEF SearchState
        <3>2. {<<Parent[x], x>> : x \in above} \subseteq Block \X Block
          BY <2>6
        <3>3. [x \in Block |-> IF x \in above THEN s.failed[x] \cup {"CHILD"} ELSE s.failed[x]]
                 \in [Block -> SUBSET {"VALID", "CHILD"}]
          BY <3>1
        <3>4. QED
          BY <3>1, <3>2, <3>3 DEF SearchState, Dropped
      <2>8. r.candidates \subseteq candidates
        BY <2>4 DEF Dropped
      <2>9. Marks(r.failed)
        <3>1. CASE s.failed[first] = {}
          BY <3>1 DEF Dropped, Follows
        <3>2. CASE s.failed[first] # {}
          <4>1. r.failed = [x \in Block |-> IF x \in above THEN s.failed[x] \cup {"CHILD"} ELSE s.failed[x]]
            BY <3>2 DEF Dropped
          <4>2. Marks(s.failed)
            BY DEF Follows
          <4>3. \E a \in Ancestors[first] : failed[a] # {}
            <5>1. first \in Block /\ first \in Ancestors[first]
              BY <2>5, AncestorsIs, AncestorsEnds
            <5>2. QED
              BY <5>1, <3>2, <4>2 DEF Marks
          <4>4. ASSUME NEW x \in Block
                PROVE  /\ failed[x] \subseteq r.failed[x]
                       /\ r.failed[x] # failed[x] =>
                             /\ r.failed[x] = failed[x] \cup {"CHILD"} /\ linked[x] /\ x \notin Chain
                             /\ \E a \in Ancestors[x] : failed[a] # {}
            <5> HIDE DEF r
            <5>1. CASE x \in above
              <6>1. r.failed[x] = s.failed[x] \cup {"CHILD"}
                BY <4>1, <5>1
              <6>2. s.failed[x] = failed[x] \/ s.failed[x] = failed[x] \cup {"CHILD"}
                BY <4>2 DEF Marks
              <6>3. QED
                BY <6>1, <6>2, <2>6, <5>1, <4>3
            <5>2. CASE x \notin above
              <6>1. r.failed[x] = s.failed[x]
                BY <4>1, <5>2
              <6>2. QED
                BY <6>1, <4>2 DEF Marks
            <5>3. QED
              BY <5>1, <5>2
          <4>5. QED
            BY <4>4 DEF Marks
        <3>3. QED
          BY <3>1, <3>2
      <2>10. Holds(r.unlinked)
        <3>1. Holds(s.unlinked)
          BY DEF Follows
        <3>2. r.unlinked = s.unlinked \/ r.unlinked = s.unlinked \cup {<<Parent[x], x>> : x \in above}
          BY DEF Dropped
        <3>3. r.unlinked # s.unlinked => ~data[first]
          BY <1>2, <2>1, <2>2, <2>4, FirstUnusable DEF Dropped
        <3>4. linked[first] /\ \A x \in above : first \in Ancestors[x]
          BY <2>5, <2>6, LinkedDown, AncestorsEnds, AncestorsIs
        <3> HIDE DEF above, r
        <3>5. QED
          BY <3>1, <3>2, <3>3, <3>4, <2>6 DEF Holds
      <2>11. Spares(r.candidates)
        <3>1. first \in Block /\ first \in Ancestors[first] /\ first \notin Chain
              /\ (s.failed[first] # {} \/ ~data[first])
          BY <1>2, <2>1, <2>2, <2>4, <2>5, FirstUnusable, AncestorsIs, AncestorsEnds
        <3>2. r.candidates = s.candidates \ (above \cup {first})
          BY DEF Dropped
        <3>3. ASSUME NEW c \in above \cup {first}
              PROVE  \E a \in Ancestors[c] : failed[a] # {} \/ (a \notin Chain /\ ~data[a])
          <4>1. first \in Ancestors[c] /\ Ancestors[first] \subseteq Ancestors[c]
            BY <3>1, <2>6, AncestorsEnds
          <4>2. s.failed[first] # {} => failed[first] # {} \/ \E a \in Ancestors[first] : failed[a] # {}
            BY <3>1 DEF Follows, Marks
          <4>3. QED
            BY <4>1, <4>2, <3>1
        <3> HIDE DEF above, r
        <3>4. QED
          BY <3>2, <3>3 DEF Follows, Spares
      <2>12. QED
        BY <2>3, <2>7, <2>8, <2>9, <2>10, <2>11 DEF Follows
    <1>3. QED
      BY <1>1, <1>2

(* A turn that is not the last drops a candidate.                          *)
LEMMA DiscardDrops ==
    ASSUME IndexInv, NEW s, Follows(s), ~Settled(s)
    PROVE  /\ IsFiniteSet(s.candidates) /\ IsFiniteSet(Discard(s).candidates)
           /\ Cardinality(Discard(s).candidates) < Cardinality(s.candidates)
    <1>1. PICK best : best = BestOf(s.candidates)
      OBVIOUS
    <1>2. PICK first : first = Highest(Unusable(best, s.failed))
      OBVIOUS
    <1>3. Discard(s) = Dropped(s, best, first)
      BY <1>1, <1>2, DiscardIs
    <1>4. s \in SearchState /\ s.candidates \subseteq candidates /\ s.candidates \subseteq Block
      BY DEF Follows, SearchState
    <1>5. best \in s.candidates /\ best \in Block /\ first \in Ancestors[best]
      BY <1>1, <1>2, <1>4, FirstUnusable
    <1>6. best \in (Ancestors[best] \ Ancestors[first]) \cup {first}
      BY <1>5, AncestorsEnds, AncestorsAntisymmetric
    <1>7. Discard(s).candidates \subseteq s.candidates /\ best \notin Discard(s).candidates
      BY <1>3, <1>6 DEF Dropped
    <1>8. IsFiniteSet(Block)
      BY TreeAssumption
    <1>9. IsFiniteSet(s.candidates) /\ Cardinality(s.candidates) \in Nat
      BY <1>4, <1>8, FS_Subset, FS_CardinalityType
    <1>10. /\ IsFiniteSet(Discard(s).candidates) /\ Cardinality(Discard(s).candidates) \in Nat
           /\ Cardinality(Discard(s).candidates) <= Cardinality(s.candidates)
           /\ Cardinality(Discard(s).candidates) # Cardinality(s.candidates)
      BY <1>5, <1>7, <1>9, FS_Subset, FS_CardinalityType
    <1>11. QED
      BY <1>9, <1>10

(* The search starts from the sets as they are.                            *)
LEMMA StartFollows ==
    ASSUME IndexInv PROVE Follows(Start)
    BY Typed DEF Start, Follows, SearchState, Marks, Holds, Spares, IndexInv

Turns(turn, N) ==
    /\ Search = turn[N]
    /\ turn \in [0 .. N -> SUBSET {s \in SearchState : Follows(s)}]
    /\ turn[0] = {Start}
    /\ \A n \in 1 .. N : turn[n] = {Discard(s) : s \in turn[n - 1]}

(* The search is a sequence of as many turns as there are candidates.      *)
LEMMA SearchIs ==
    ASSUME IndexInv, Cardinality(candidates) \in Nat
    PROVE  \E turn : Turns(turn, Cardinality(candidates))
    <1> DEFINE N == Cardinality(candidates)
               D == 0 .. N
               B == {0}
               V == SUBSET {s \in SearchState : Follows(s)}
               par == [n \in D |-> n - 1]
               level == [n \in D |-> n]
               base == [n \in B |-> {Start}]
               st == [n \in D \ B |-> [v \in V |-> {Discard(s) : s \in v}]]
    <1>1. {Start} \in V
      BY StartFollows DEF Follows
    <1>2. ASSUME NEW v \in V PROVE {Discard(s) : s \in v} \in V
      <2>1. \A s \in v : Discard(s) \in SearchState /\ Follows(Discard(s))
        BY DiscardFollows DEF Follows
      <2>2. QED
        BY <2>1
    <1>3. TreeRecursive(D, B, V, base, st)
      <2> HIDE DEF V, D
      <2>1. base \in [B -> V] /\ st \in [D \ B -> [V -> V]]
        BY <1>1, <1>2
      <2>2. QED
        BY <2>1 DEF TreeRecursive
    <1>4. Forest(D, B, par, level)
      <2>1. N \in Nat
        OBVIOUS
      <2> HIDE DEF N
      <2>2. \A n \in D : n \in Int /\ par[n] = n - 1 /\ level[n] = n
        BY <2>1
      <2>3. \A n \in D \ B : n - 1 \in D /\ level[n - 1] = n - 1
        BY <2>1
      <2> HIDE DEF par, level
      <2>4. QED
        BY <2>1, <2>2, <2>3 DEF Forest
    <1>5. PICK g : TreeSolution(g, D, B, par, V, base, st)
      <2> HIDE DEF D, B, V, par, level, base, st
      <2>1. QED
        BY <1>3, <1>4, TreeRecursion
    <1>6. \A n \in D \ B : n - 1 \in D
      <2>1. N \in Nat
        OBVIOUS
      <2> HIDE DEF N
      <2>2. QED
        BY <2>1
    <1>7. ASSUME NEW n \in D PROVE g[n] = IF n = 0 THEN {Start} ELSE {Discard(s) : s \in g[n - 1]}
      <2> HIDE DEF V, D
      <2>1. g[n] = TreeStep(g, n, B, par, base, st)
        BY <1>5 DEF TreeSolution
      <2>2. n \notin B => g[n - 1] \in V /\ par[n] = n - 1
        BY <1>5, <1>6 DEF TreeSolution
      <2>3. QED
        BY <2>1, <2>2 DEF TreeStep
    <1> DEFINE turn == CHOOSE turn : turn = [n \in 0 .. Cardinality(candidates) |->
                          IF n = 0 THEN {Start} ELSE {Discard(s) : s \in turn[n - 1]}]
    <1>8. g = [n \in 0 .. Cardinality(candidates) |-> IF n = 0 THEN {Start} ELSE {Discard(s) : s \in g[n - 1]}]
      <2>1. DOMAIN g = D /\ g = [n \in D |-> g[n]]
        BY <1>5 DEF TreeSolution
      <2>2. QED
        BY <1>7, <2>1
    <1>9. turn = [n \in 0 .. Cardinality(candidates) |-> IF n = 0 THEN {Start} ELSE {Discard(s) : s \in turn[n - 1]}]
      BY <1>8, Zenon
    <1>10. Search = turn[N]
      BY Zenon DEF Search
    <1> HIDE DEF turn
    <1>11. \A n \in D : turn[n] = g[n]
      <2>1. \A n \in B : turn[n] = base[n]
        BY <1>9, Cardinality(candidates) \in Nat
      <2>2. \A n \in D \ B : turn[par[n]] \in V => turn[n] = st[n][turn[par[n]]]
        <3> HIDE DEF V
        <3>1. QED
          BY <1>9
      <2> HIDE DEF D, B, V, par, level, base, st
      <2>3. QED
        BY <1>3, <1>4, <1>5, <2>1, <2>2, TreeUnique
    <1>12. turn \in [D -> V]
      <2> HIDE DEF V
      <2>1. turn = [n \in D |-> turn[n]]
        BY <1>9
      <2>2. QED
        BY <2>1, <1>5, <1>11 DEF TreeSolution
    <1>13. turn[0] = {Start}
      BY <1>9, Cardinality(candidates) \in Nat
    <1>14. ASSUME NEW n \in 1 .. N PROVE turn[n] = {Discard(s) : s \in turn[n - 1]}
      BY <1>9, Cardinality(candidates) \in Nat
    <1>15. QED
      BY <1>10, <1>12, <1>13, <1>14 DEF Turns

(* FindMostWorkChain ends with a candidate whose chain can be activated,   *)
(* or without candidates.                                                  *)
LEMMA SearchSettles ==
    ASSUME IndexInv, NEW found \in Search
    PROVE  Follows(found) /\ Settled(found)
    <1> DEFINE N == Cardinality(candidates)
    <1>1. IsFiniteSet(candidates) /\ N \in Nat
      <2>1. candidates \subseteq Block /\ IsFiniteSet(Block)
        BY Typed, TreeAssumption DEF IndexInv
      <2>2. QED
        BY <2>1, FS_Subset, FS_CardinalityType
    <1>2. PICK turn : Turns(turn, N)
      BY <1>1, SearchIs
    <1> HIDE DEF N
    <1>3. /\ Search = turn[N] /\ turn[0] = {Start}
          /\ \A n \in 0 .. N : \A s \in turn[n] : Follows(s)
          /\ \A n \in 1 .. N : turn[n] = {Discard(s) : s \in turn[n - 1]}
      BY <1>2 DEF Turns
    <1> DEFINE Few(s, n) == /\ IsFiniteSet(s.candidates)
                            /\ Cardinality(s.candidates) \in Nat /\ Cardinality(s.candidates) + n <= N
               T == {n \in 0 .. N : \A s \in turn[n] : Settled(s) \/ Few(s, n)}
               D == 0 .. N
               par == [n \in D |-> n - 1]
               level == [n \in D |-> n]
    <1>4. 0 \in T
      BY <1>1, <1>3, FS_CardinalityType DEF Start, N
    <1>5. ASSUME NEW n \in D \ {0}, n - 1 \in T PROVE n \in T
      <2>1. n \in 1 .. N /\ n - 1 \in 0 .. N /\ n \in Int
        BY <1>1
      <2>2. ASSUME NEW s \in turn[n - 1] PROVE Settled(Discard(s)) \/ Few(Discard(s), n)
        <3>1. CASE Settled(s)
          BY <3>1, DiscardIs
        <3>2. CASE ~Settled(s)
          <4>1. Few(s, n - 1) /\ Follows(s)
            BY <1>5, <3>2, <2>1, <1>3
          <4>2. /\ IsFiniteSet(Discard(s).candidates)
                /\ Cardinality(Discard(s).candidates) < Cardinality(s.candidates)
            BY <4>1, <3>2, DiscardDrops
          <4>3. Cardinality(Discard(s).candidates) \in Nat
            BY <4>2, FS_CardinalityType
          <4>4. QED
            BY <4>1, <4>2, <4>3, <2>1, <1>1
        <3>3. QED
          BY <3>1, <3>2
      <2> HIDE DEF Few
      <2>3. turn[n] = {Discard(s) : s \in turn[n - 1]}
        BY <2>1, <1>3
      <2>4. QED
        BY <2>1, <2>2, <2>3
    <1>6. D \subseteq T
      <2>1. \A n \in D : n \in Int /\ par[n] = n - 1 /\ level[n] = n
        BY <1>1
      <2>2. \A n \in D \ {0} : n - 1 \in D /\ level[n - 1] = n - 1
        BY <1>1
      <2>t. \A n \in D \ {0} : par[n] \in T => n \in T
        <3> HIDE DEF T
        <3>1. QED
          BY <1>5, <2>1
      <2> HIDE DEF par, level
      <2>3. Forest(D, {0}, par, level)
        BY <1>1, <2>1, <2>2 DEF Forest
      <2> HIDE DEF T, D
      <2>4. {0} \subseteq T
        BY <1>4
      <2>5. QED
        BY <2>3, <2>4, <2>t, TreeInduction
    <1>7. N \in T
      BY <1>1, <1>6
    <1>8. Settled(found) \/ Few(found, N)
      BY <1>7, <1>3
    <1>9. Few(found, N) => found.candidates = {}
      <2>1. SUFFICES ASSUME Few(found, N) PROVE found.candidates = {}
        OBVIOUS
      <2>2. Cardinality(found.candidates) = 0
        BY <2>1, <1>1
      <2>3. QED
        BY <2>1, <2>2, FS_EmptySet
    <1>10. QED
      BY <1>1, <1>3, <1>8, <1>9 DEF Settled

-----------------------------------------------------------------------------
(* A turn of ActivateBestChain's loop: what FindMostWorkChain gives.       *)
LEMMA TargetIs ==
    ASSUME IndexInv, NEW t \in Thread, NEW found \in Found(t), NEW target, target = Target(t, found)
    PROVE  /\ Follows(found)
           /\ target # None => target \in Block /\ linked[target]
           /\ target # None /\ mostWork[t] = None => Unusable(target, found.failed) = {}
           /\ mostWork[t] # None => found = Start /\ target = mostWork[t]
           /\ mostWork[t] = None => \A c \in found.candidates : c = target \/ Worse(c, target, sequenceId)
           /\ target = None => found.candidates = {}
    <1>1. mostWork[t] \in Block \cup {None}
      BY DEF IndexInv, TypeOK
    <1>2. CASE mostWork[t] # None
      <2>1. found = Start /\ target = mostWork[t]
        BY <1>2 DEF Found, Target
      <2>2. QED
        BY <1>1, <1>2, <2>1, StartFollows DEF IndexInv, UsesLinked
    <1>3. CASE mostWork[t] = None
      <2>1. found \in Search /\ target = MostWork(found.candidates)
        BY <1>3 DEF Found, Target
      <2>2. Follows(found) /\ Settled(found)
        BY <2>1, SearchSettles
      <2>3. found.candidates = {} => target = None
        BY <2>1 DEF MostWork
      <2>4. found.candidates # {} => target = BestOf(found.candidates)
        BY <2>1 DEF MostWork, BestOf
      <2>5. found.candidates \in SUBSET Block /\ found.candidates \subseteq candidates
        BY <2>2 DEF Follows, SearchState
      <2>6. sequenceId \in [Block -> Int]
        BY DEF IndexInv, TypeOK
      <2>7. found.candidates # {} => target \in found.candidates
        BY <2>4, <2>5, <2>6, BestIs DEF BestOf
      <2>8. target # None => target \in Block /\ linked[target]
        BY <2>3, <2>5, <2>7 DEF IndexInv, UsesLinked
      <2>9. target # None => Unusable(target, found.failed) = {}
        BY <2>2, <2>3, <2>4 DEF Settled
      <2>10. \A c \in found.candidates : c = target \/ Worse(c, target, sequenceId)
        BY <2>4, <2>5, <2>6, BestIs DEF BestOf
      <2>11. found.candidates # {} => target # None
        BY <2>5, <2>7, OtherAssumption
      <2>12. QED
        BY <1>3, <2>2, <2>8, <2>9, <2>10, <2>11
    <1>4. QED
      BY <1>2, <1>3

(* ActivateBestChainStep: the last block tried, and the tip it ends on.    *)
StepLast(target) == IF Path(target) = {} THEN target ELSE LastTried(target)
StepInvalid(target) == Path(target) # {} /\ StepLast(target) \in BadConnect
StepTip(target) == IF StepInvalid(target) THEN Parent[StepLast(target)] ELSE StepLast(target)

(* ActivateBestChainStep goes up the path to its target and stops below    *)
(* the first block that fails.                                             *)
LEMMA StepIs ==
    ASSUME IndexInv, NEW target \in Block, linked[target], ~DataGone(target),
           NEW last, last = StepLast(target), NEW newTip, newTip = StepTip(target)
    PROVE  /\ newTip \in Block /\ linked[newTip]
           /\ \A x \in Ancestors[newTip] \ Chain :
                 /\ x \in Block \ {Genesis} /\ x \in Path(target)
                 /\ data[x] /\ x \notin BadConnect /\ linked[x]
           /\ StepInvalid(target) => /\ last \in Path(target) /\ last \notin Ancestors[newTip]
                                     /\ last \in Block \ {Genesis} /\ linked[last]
           /\ newTip \in Ancestors[target]
    <1>1. tip \in Block /\ Chain \subseteq Block /\ Genesis \in Chain /\ Ancestors[target] \subseteq Block
      BY Typed, AncestorsEnds DEF IndexInv, Chain
    <1>2. CASE Path(target) = {}
      <2>1. last = target /\ ~StepInvalid(target) /\ newTip = target
        BY <1>2 DEF StepLast, StepInvalid, StepTip
      <2>2. QED
        BY <1>2, <2>1, AncestorsEnds DEF Path
    <1>3. CASE Path(target) # {}
      <2> DEFINE S == {x \in Path(target) : x = target \/ x \in BadConnect \/ Work[x] > Work[tip]}
      <2>1. last = Lowest(S)
        BY <1>3 DEF StepLast, LastTried
      <2>2. target \in Path(target)
        <3>1. target \in Chain => Ancestors[target] \subseteq Chain
          BY <1>1, AncestorsTransitive DEF Chain
        <3>2. QED
          BY <1>3, <3>1, AncestorsEnds DEF Path
      <2>3. S \in SUBSET Block /\ S # {}
        BY <1>1, <2>2 DEF Path
      <2>4. last \in S /\ \A x \in S : Height[last] <= Height[x]
        <3> HIDE DEF S
        <3>1. QED
          BY <2>1, <2>3, LowestIs
      <2>5. last \in Path(target) /\ last \in Block \ {Genesis} /\ last \in Ancestors[target]
        BY <2>4, <1>1 DEF Path
      <2>6. linked[last] /\ Ancestors[last] \subseteq Ancestors[target]
        BY <2>5, LinkedDown, AncestorsTransitive
      <2>7. ASSUME NEW x \in Ancestors[last] \ Chain
            PROVE  /\ x \in Block \ {Genesis} /\ x \in Path(target) /\ data[x] /\ linked[x]
                   /\ x # last => x \notin BadConnect
        <3>1. x \in Path(target) /\ x \in Block \ {Genesis}
          BY <2>6, <1>1 DEF Path
        <3>2. data[x]
          BY <1>3, <2>1 DEF DataGone, LastTried
        <3>3. linked[x]
          BY <2>5, <2>6, LinkedDown
        <3>4. ASSUME x # last PROVE x \notin BadConnect
          <4>1. Height[x] < Height[last] /\ Height[x] \in Nat /\ Height[last] \in Nat
            BY <2>5, <3>1, <3>4, AncestorsBelow, TreeAssumption
          <4>2. x \notin S
            BY <4>1, <2>4
          <4>3. QED
            BY <4>2, <3>1
        <3>5. QED
          BY <3>1, <3>2, <3>3, <3>4
      <2>8. CASE StepInvalid(target)
        <3>1. newTip = Parent[last] /\ Parent[last] \in Block
          BY <2>5, <2>8, TreeAssumption DEF StepTip
        <3>2. Ancestors[last] = {last} \cup Ancestors[newTip] /\ Parent[last] \in Ancestors[last]
          BY <2>5, <3>1, AncestorsIs, AncestorsEnds
        <3>3. last \notin Ancestors[newTip]
          <4>1. last \in Ancestors[newTip] => last = newTip
            BY <3>1, <3>2, <2>5, AncestorsAntisymmetric
          <4>2. Height[last] # Height[newTip]
            BY <2>5, <3>1, TreeAssumption
          <4>3. QED
            BY <4>1, <4>2
        <3>4. linked[newTip] /\ newTip \in Ancestors[target]
          BY <2>5, <2>6, <3>1, <3>2, LinkedDown
        <3>5. QED
          BY <3>1, <3>2, <3>3, <3>4, <2>5, <2>6, <2>7
      <2>9. CASE ~StepInvalid(target)
        <3>1. newTip = last /\ last \notin BadConnect
          BY <2>9, <1>3 DEF StepTip, StepInvalid
        <3>2. QED
          BY <2>9, <3>1, <2>5, <2>6, <2>7
      <2>10. QED
        BY <2>8, <2>9
    <1>4. QED
      BY <1>2, <1>3

(* ActivateStep, in these terms.                                           *)
Stepped(t, found, target, newTip, kept) ==
    LET connected == Ancestors[newTip] \ Chain IN
    /\ tip' = newTip
    /\ valid' = [x \in Block |-> IF x \in connected /\ failed[x] = {} THEN VALID_SCRIPTS ELSE valid[x]]
    /\ undo' = [x \in Block |-> x \in connected \/ undo[x]]
    /\ unlinked' = found.unlinked
    /\ node' \in {"running", "assert", node}
    /\ kept \subseteq found.candidates
    /\ \A c \in found.candidates : ~Worse(c, newTip, sequenceId) => c \in kept
    /\ \/ /\ StepInvalid(target)
          /\ failed' = [found.failed EXCEPT ![StepLast(target)] = @ \cup {"VALID"}]
          /\ failedBlocks' = failedBlocks \cup {StepLast(target)}
          /\ candidates' = kept \ {StepLast(target)}
          /\ mostWork' = [mostWork EXCEPT ![t] = None]
          /\ UNCHANGED activating
       \/ /\ ~StepInvalid(target)
          /\ failed' = found.failed
          /\ candidates' = kept
          /\ UNCHANGED failedBlocks
          /\ \/ /\ newTip = target
                /\ activating' = activating \ {t} /\ mostWork' = [mostWork EXCEPT ![t] = None]
             \/ mostWork' = [mostWork EXCEPT ![t] = target] /\ UNCHANGED activating
    /\ UNCHANGED <<known, data, processed, linked, sequenceId, counters, havePruned, commands>>

(* What a step of ActivateBestChain changes.                               *)
LEMMA SteppedIs ==
    ASSUME NEW t, NEW found, NEW target, ActivateStep(t, found, target)
    PROVE  /\ target \notin {None, tip} /\ ~DataGone(target)
           /\ \E kept : Stepped(t, found, target, StepTip(target), kept)
    <1> DEFINE newTip == StepTip(target)
               connected == Ancestors[newTip] \ Chain
               kept == IF connected = {} THEN found.candidates
                       ELSE PruneCandidates(found.candidates, newTip, sequenceId)
    <1>1. target \notin {None, tip} /\ ~DataGone(target)
      BY DEF ActivateStep
    <1>2. /\ kept \subseteq found.candidates
          /\ \A c \in found.candidates : ~Worse(c, newTip, sequenceId) => c \in kept
      BY DEF PruneCandidates
    <1>3. Stepped(t, found, target, newTip, kept)
      BY <1>2 DEF ActivateStep, Stepped, StepTip, StepLast, StepInvalid, AfterInvalid, LeaveActivation
    <1>4. QED
      BY <1>1, <1>3

-----------------------------------------------------------------------------
(* The index after LoadGenesisBlock.                                       *)
LEMMA InitIndex == Init => IndexInv
    <1> SUFFICES ASSUME Init PROVE IndexInv
      OBVIOUS
    <1> USE TreeAssumption, OtherAssumption DEF Init, VALID_TREE, VALID_TRANSACTIONS, VALID_SCRIPTS
    <1>a. /\ valid \in [Block -> {0, VALID_TREE, VALID_TRANSACTIONS, VALID_SCRIPTS}]
          /\ data \in [Block -> BOOLEAN] /\ undo \in [Block -> BOOLEAN]
          /\ processed \in [Block -> BOOLEAN] /\ linked \in [Block -> BOOLEAN]
          /\ failed \in [Block -> SUBSET {"VALID", "CHILD"}]
          /\ mostWork \in [Thread -> Block \cup {None}]
      OBVIOUS
    <1>b. sequenceId \in [Block -> Int]
      OBVIOUS
    <1>c. commands \in 0 .. MaxCommands
      OBVIOUS
    <1>d. /\ known = {Genesis} /\ candidates = {Genesis} /\ unlinked = {} /\ failedBlocks = {}
          /\ tip = Genesis /\ nextSequenceId = 2 /\ reverseSequenceId = -1 /\ lastPrecious = 0
          /\ activating = {} /\ node = "running"
      OBVIOUS
    <1>e. havePruned \in BOOLEAN
      OBVIOUS
    <1>f. ASSUME NEW b \in Block \ {Genesis}
          PROVE  /\ valid[b] = 0 /\ failed[b] = {} /\ sequenceId[b] = 0
                 /\ ~data[b] /\ ~undo[b] /\ ~processed[b] /\ ~linked[b]
      OBVIOUS
    <1>g. /\ valid[Genesis] = 5 /\ data[Genesis] /\ ~undo[Genesis] /\ processed[Genesis] /\ linked[Genesis]
          /\ ~havePruned
      OBVIOUS
    <1>1. TypeOK
      <2> HIDE DEF Init
      <2>1. Genesis \in Block
        OBVIOUS
      <2>2. QED
        BY <1>a, <1>b, <1>c, <1>d, <1>e, <2>1 DEF TypeOK
    <1>2. Unseen
      <2> HIDE DEF Init
      <2>1. QED
        BY <1>d, <1>f DEF Unseen
    <1>r. Received
      <2> HIDE DEF Init
      <2>1. QED
        BY <1>a, <1>d, <1>g DEF Received
    <1>3. Rooted /\ UsesLinked
      BY DEF Rooted, UsesLinked
    <1>4. QED
      BY <1>1, <1>2, <1>r, <1>3 DEF IndexInv

(* The new entry AddToBlockIndex makes, on a parent in the index.          *)
LEMMA HeaderIs ==
    ASSUME IndexInv, NEW b \in Block, HeaderOk(b)
    PROVE  /\ failed[b] = {} /\ (b # Genesis => Parent[b] \in known)
           /\ ValidWith(b) \in [Block -> {0, VALID_TREE, VALID_TRANSACTIONS, VALID_SCRIPTS}]
           /\ \A x \in Block \ {b} : ValidWith(b)[x] = valid[x]
           /\ ValidWith(b)[b] = IF b \in known THEN valid[b] ELSE VALID_TREE
    <1>1. failed[b] = {} /\ (b # Genesis => Parent[b] \in known)
      BY DEF HeaderOk, IndexInv, Unseen, Rooted
    <1>2. valid \in [Block -> {0, VALID_TREE, VALID_TRANSACTIONS, VALID_SCRIPTS}]
      BY DEF IndexInv, TypeOK
    <1>3. QED
      BY <1>1, <1>2 DEF ValidWith

(* IndexInv, operation by operation.                                       *)
LEMMA AcceptHeaderIndex ==
    ASSUME IndexInv, NEW b \in Block, AcceptHeader(b)
    PROVE  IndexInv'
    <1> USE TreeAssumption DEF AcceptHeader, KnownWith, VALID_TREE, VALID_TRANSACTIONS, VALID_SCRIPTS,
            sets, counters, threads
    <1>0. HeaderOk(b) /\ b \notin known /\ b # Genesis
      BY DEF IndexInv, TypeOK
    <1>1. /\ Parent[b] \in known /\ valid' \in [Block -> {0, VALID_TREE, VALID_TRANSACTIONS, VALID_SCRIPTS}]
          /\ \A x \in Block \ {b} : valid'[x] = valid[x]
          /\ valid'[b] = VALID_TREE
      BY <1>0, HeaderIs
    <1>2. TypeOK'
      BY <1>1 DEF IndexInv, TypeOK
    <1>3. Unseen'
      BY <1>1 DEF IndexInv, Unseen
    <1>4. Rooted'
      BY <1>0, <1>1 DEF IndexInv, Rooted
    <1>5. UsesLinked'
      BY DEF IndexInv, UsesLinked
    <1>6. Received'
      BY <1>0, <1>1 DEF IndexInv, Received, Unseen, TypeOK
    <1>7. QED
      BY <1>2, <1>3, <1>4, <1>5, <1>6 DEF IndexInv

(* A header that AcceptBlockHeader refuses marks the blocks between it and *)
(* the failed block below it, and keeps the index sound.                   *)
LEMMA RejectHeaderIndex ==
    ASSUME IndexInv, NEW b \in Block, RejectHeader(b)
    PROVE  IndexInv'
    <1> USE TreeAssumption DEF RejectHeader, sets, counters, threads
    <1>1. /\ failed' \in [Block -> SUBSET {"VALID", "CHILD"}]
          /\ node' \in {"running", "aborted", "assert"}
          /\ \A x \in Block \ known : failed'[x] = failed[x]
      <2>1. failed \in [Block -> SUBSET {"VALID", "CHILD"}] /\ node \in {"running", "aborted", "assert"}
        BY DEF IndexInv, TypeOK
      <2>2. \A x \in Ancestors[Parent[b]] : x \in known
        BY KnownDown
      <2>3. PICK f \in FailedAncestors(Parent[b]) :
               IF "VALID" \in failed[f]
               THEN /\ failed' = [x \in Block |-> IF x \in MarkedPath(b, f)
                                                  THEN failed[x] \cup {"CHILD"} ELSE failed[x]]
                    /\ UNCHANGED node
               ELSE node' = "assert" /\ UNCHANGED failed
        OBVIOUS
      <2>4. QED
        BY <2>1, <2>2, <2>3 DEF MarkedPath
    <1>2. TypeOK'
      BY <1>1 DEF IndexInv, TypeOK
    <1>3. Unseen'
      BY <1>1 DEF IndexInv, Unseen
    <1>4. Rooted' /\ UsesLinked' /\ Received'
      BY DEF IndexInv, Rooted, UsesLinked, Received
    <1>7. QED
      BY <1>2, <1>3, <1>4 DEF IndexInv

(* Pruning takes data away and nothing that IndexInv speaks of otherwise.  *)
LEMMA PruneIndex ==
    ASSUME IndexInv, NEW b \in Block, Prune(b)
    PROVE  IndexInv'
    <1> USE TreeAssumption, OtherAssumption DEF Prune, Command, counters, threads
    <1>0. /\ data' \in [Block -> BOOLEAN] /\ ~data'[b] /\ \A x \in Block \ {b} : data'[x] = data[x]
          /\ undo' \in [Block -> BOOLEAN] /\ ~undo'[b] /\ \A x \in Block \ {b} : undo'[x] = undo[x]
          /\ commands' \in 0 .. MaxCommands
      BY Typed DEF IndexInv, TypeOK
    <1>2. TypeOK'
      BY <1>0 DEF IndexInv, TypeOK
    <1>3. Unseen'
      BY <1>0 DEF IndexInv, Unseen
    <1>4. Rooted' /\ UsesLinked'
      BY <1>0 DEF IndexInv, Rooted, UsesLinked
    <1>5. Received'
      BY <1>0, Typed DEF IndexInv, Received
    <1>7. QED
      BY <1>2, <1>3, <1>4, <1>5 DEF IndexInv

(* ReceivedBlockTransactions, when the parent is linked: what LinkBlocks   *)
(* does, and that it keeps linked blocks closed under parents.             *)
LEMMA LinkBlocksIs ==
    ASSUME IndexInv, NEW b \in Block, LinkBlocks(b)
    PROVE  /\ linked' \in [Block -> BOOLEAN]
           /\ \A x \in Block : linked'[x] <=> x \in NowLinked(b) \/ linked[x]
           /\ sequenceId' \in [Block -> Int]
           /\ \A x \in Block \ NowLinked(b) : sequenceId'[x] = sequenceId[x]
           /\ nextSequenceId' \in Nat
           /\ \A x \in NowLinked(b) : sequenceId'[x] >= 0
           /\ \A x \in NowLinked(b) : ~Worse(x, tip, sequenceId') => x \in candidates'
           /\ candidates \subseteq candidates' /\ candidates' \subseteq candidates \cup NowLinked(b)
           /\ unlinked' = {p \in unlinked : p[1] \notin NowLinked(b)}
    <1> DEFINE new == NowLinked(b)
    <1>1. new \subseteq Block /\ Cardinality(new) \in Nat
      BY NowLinkedIs
    <1>2. nextSequenceId \in Nat /\ sequenceId \in [Block -> Int] /\ linked \in [Block -> BOOLEAN]
      BY Typed DEF IndexInv, TypeOK
    <1> HIDE DEF new
    <1>3. PICK rank \in QueueOrders(new) :
             LET seq == [x \in Block |-> IF x \in new THEN nextSequenceId + rank[x] ELSE sequenceId[x]]
             IN /\ sequenceId' = seq
                /\ candidates' = candidates \cup {x \in new : ~Worse(x, tip, seq)}
      BY DEF LinkBlocks, new
    <1>4. \A x \in new : rank[x] \in Int /\ rank[x] >= 0
      BY <1>1 DEF QueueOrders
    <1>5. /\ sequenceId' \in [Block -> Int]
          /\ \A x \in Block \ new : sequenceId'[x] = sequenceId[x]
          /\ \A x \in new : sequenceId'[x] >= 0
      BY <1>1, <1>2, <1>3, <1>4
    <1>6. /\ candidates \subseteq candidates' /\ candidates' \subseteq candidates \cup new
          /\ \A x \in new : ~Worse(x, tip, sequenceId') => x \in candidates'
      BY <1>3
    <1>7. /\ linked' = [x \in Block |-> x \in new \/ linked[x]]
          /\ nextSequenceId' = nextSequenceId + Cardinality(new)
          /\ unlinked' = {p \in unlinked : p[1] \notin new}
      BY DEF LinkBlocks, new
    <1>8. linked' \in [Block -> BOOLEAN] /\ \A x \in Block : linked'[x] <=> x \in new \/ linked[x]
      BY <1>2, <1>7
    <1>9. QED
      BY <1>1, <1>2, <1>5, <1>6, <1>7, <1>8 DEF new

(* The blocks it links are in the index and were received.                 *)
LEMMA NowLinkedKnown ==
    ASSUME IndexInv, NEW b \in Block, NEW d \in NowLinked(b), d # b
    PROVE  d \in known /\ processed[d]
    <1>1. <<Parent[d], d>> \in unlinked
      BY NowLinkedIs
    <1>2. PICK x \in known \ {Genesis} : <<Parent[d], d>> = <<Parent[x], x>> /\ processed[x]
      BY <1>1 DEF IndexInv, Rooted
    <1>3. QED
      BY <1>2

(* A block's transactions arrive.                                          *)
Arrives(b) ==
    /\ b # Genesis /\ HeaderOk(b) /\ b \notin BadContext
    /\ known' = KnownWith(b)
    /\ ReceivedBlockTransactions(b)
    /\ UNCHANGED <<undo, failed, failedBlocks, reverseSequenceId, lastPrecious, tip, havePruned, node, commands>>

(* AcceptBlock writes b and nothing else.                                  *)
LEMMA ArrivesIs ==
    ASSUME IndexInv, NEW b \in Block, Arrives(b)
    PROVE  /\ data' \in [Block -> BOOLEAN] /\ data'[b] /\ \A x \in Block \ {b} : data'[x] <=> data[x]
           /\ processed' \in [Block -> BOOLEAN] /\ processed'[b]
           /\ \A x \in Block \ {b} : processed'[x] <=> processed[x]
           /\ valid' \in [Block -> {0, VALID_TREE, VALID_TRANSACTIONS, VALID_SCRIPTS}]
           /\ valid'[b] >= VALID_TRANSACTIONS /\ valid'[b] # 0
           /\ valid'[b] = VALID_SCRIPTS => valid[b] = VALID_SCRIPTS
           /\ \A x \in Block \ {b} : valid'[x] = valid[x]
           /\ known' = known \cup {b} /\ Parent[b] \in known /\ Parent[b] \in Block /\ failed[b] = {}
           /\ valid[b] = VALID_SCRIPTS => valid'[b] = VALID_SCRIPTS
           /\ (linked[Parent[b]] /\ LinkBlocks(b)) \/ (~linked[Parent[b]] /\ HoldBlock(b))
    <1> USE DEF VALID_TREE, VALID_TRANSACTIONS, VALID_SCRIPTS
    <1>1. /\ failed[b] = {} /\ Parent[b] \in known /\ Parent[b] \in Block
          /\ ValidWith(b) \in [Block -> {0, VALID_TREE, VALID_TRANSACTIONS, VALID_SCRIPTS}]
          /\ \A x \in Block \ {b} : ValidWith(b)[x] = valid[x]
          /\ ValidWith(b)[b] = IF b \in known THEN valid[b] ELSE VALID_TREE
      BY HeaderIs, TreeAssumption DEF Arrives
    <1>2. /\ data' = [data EXCEPT ![b] = TRUE] /\ processed' = [processed EXCEPT ![b] = TRUE]
          /\ valid' = [ValidWith(b) EXCEPT ![b] = IF @ < VALID_TRANSACTIONS THEN VALID_TRANSACTIONS ELSE @]
          /\ known' = known \cup {b}
      BY DEF Arrives, ReceivedBlockTransactions, KnownWith
    <1>l. (linked[Parent[b]] /\ LinkBlocks(b)) \/ (~linked[Parent[b]] /\ HoldBlock(b))
      <2>1. IF linked[Parent[b]] THEN LinkBlocks(b) ELSE HoldBlock(b)
        BY DEF Arrives, ReceivedBlockTransactions
      <2>2. CASE linked[Parent[b]]
        BY <2>1, <2>2
      <2>3. CASE ~linked[Parent[b]]
        BY <2>1, <2>3
      <2>4. QED
        BY <2>2, <2>3
    <1>3. /\ data' \in [Block -> BOOLEAN] /\ data'[b] /\ \A x \in Block \ {b} : data'[x] <=> data[x]
          /\ processed' \in [Block -> BOOLEAN] /\ processed'[b]
          /\ \A x \in Block \ {b} : processed'[x] <=> processed[x]
      BY <1>2, Typed DEF IndexInv
    <1>4. b \notin known => valid[b] = 0
      BY DEF IndexInv, Unseen
    <1>5. /\ valid' \in [Block -> {0, VALID_TREE, VALID_TRANSACTIONS, VALID_SCRIPTS}]
          /\ valid'[b] >= VALID_TRANSACTIONS /\ valid'[b] # 0
          /\ valid'[b] = VALID_SCRIPTS => valid[b] = VALID_SCRIPTS
          /\ valid[b] = VALID_SCRIPTS => valid'[b] = VALID_SCRIPTS
          /\ \A x \in Block \ {b} : valid'[x] = valid[x]
      <2> DEFINE w == ValidWith(b)
      <2>1. /\ w \in [Block -> {0, VALID_TREE, VALID_TRANSACTIONS, VALID_SCRIPTS}]
            /\ \A x \in Block \ {b} : w[x] = valid[x]
            /\ w[b] = IF b \in known THEN valid[b] ELSE VALID_TREE
            /\ valid' = [w EXCEPT ![b] = IF @ < VALID_TRANSACTIONS THEN VALID_TRANSACTIONS ELSE @]
        BY <1>1, <1>2
      <2> HIDE DEF w
      <2>2. QED
        BY <2>1, <1>4
    <1>6. QED
      BY <1>1, <1>2, <1>l, <1>3, <1>5

(* A block whose parents are all there links what waited for it.           *)
LEMMA ArrivesLinked ==
    ASSUME IndexInv, NEW b \in Block, Arrives(b), linked[Parent[b]], LinkBlocks(b)
    PROVE  Unseen' /\ Rooted' /\ Received' /\ \A c \in candidates' : linked'[c]
    <1> DEFINE new == NowLinked(b)
    <1>1. /\ linked' \in [Block -> BOOLEAN]
          /\ \A x \in Block : linked'[x] <=> x \in new \/ linked[x]
          /\ \A x \in Block \ new : sequenceId'[x] = sequenceId[x]
          /\ candidates' \subseteq candidates \cup new
          /\ unlinked' \subseteq unlinked
      BY LinkBlocksIs
    <1>2. /\ b \in new /\ new \subseteq Block
          /\ \A d \in new \ {b} : d # Genesis /\ Parent[d] \in new /\ d \in known /\ processed[d]
      BY NowLinkedIs, NowLinkedKnown
    <1> HIDE DEF new
    <1>3. /\ \A x \in Block \ {b} : data'[x] <=> data[x]
          /\ \A x \in Block \ {b} : processed'[x] <=> processed[x]
          /\ \A x \in Block \ {b} : valid'[x] = valid[x]
          /\ data'[b] /\ processed'[b] /\ valid'[b] >= VALID_TRANSACTIONS
          /\ valid[b] = VALID_SCRIPTS => valid'[b] = VALID_SCRIPTS
          /\ known' = known \cup {b} /\ Parent[b] \in known /\ Parent[b] \in Block
      BY ArrivesIs
    <1>4. UNCHANGED <<undo, failed, tip, havePruned>> /\ b # Genesis /\ b \notin BadContext
      BY DEF Arrives
    <1>5. Unseen'
      BY <1>1, <1>2, <1>3, <1>4 DEF IndexInv, Unseen
    <1>6. Rooted'
      <2>1. \A x \in known' : Parent[x] \in known'
        BY <1>3 DEF IndexInv, Rooted
      <2>2. ASSUME NEW x \in Block, linked'[x] PROVE processed'[x] /\ linked'[Parent[x]]
        <3>1. Parent[x] \in Block
          BY TreeAssumption
        <3>2. CASE linked[x]
          BY <3>1, <3>2, <1>1, <1>3 DEF IndexInv, Rooted
        <3>3. CASE x \in new
          BY <3>1, <3>3, <1>1, <1>2, <1>3
        <3>4. QED
          BY <2>2, <3>2, <3>3, <1>1
      <2>3. ASSUME NEW p \in unlinked'
            PROVE  \E x \in known' \ {Genesis} : p = <<Parent[x], x>> /\ processed'[x]
        <3>1. PICK x \in known \ {Genesis} : p = <<Parent[x], x>> /\ processed[x]
          BY <1>1 DEF IndexInv, Rooted
        <3>2. x \in known' /\ processed'[x]
          BY <3>1, <1>3 DEF IndexInv, TypeOK
        <3>3. QED
          BY <3>1, <3>2
      <2>4. \A x \in BadContext : ~processed'[x]
        BY <1>3, <1>4, OtherAssumption DEF IndexInv, Rooted
      <2>5. linked'[Genesis] /\ valid'[Genesis] = VALID_SCRIPTS /\ ~undo'[Genesis]
        BY <1>1, <1>3, <1>4, TreeAssumption DEF IndexInv, Rooted
      <2>6. QED
        BY <2>1, <2>2, <2>3, <2>4, <2>5 DEF Rooted
    <1>7. Received'
      <2>1. ASSUME NEW x \in known'
            PROVE  /\ ~linked'[x] => sequenceId'[x] <= 0
                   /\ data'[x] => processed'[x]
                   /\ ~havePruned' => (processed'[x] => data'[x])
                   /\ undo'[x] => data'[x]
                   /\ valid'[x] >= VALID_TRANSACTIONS <=> processed'[x]
        <3>1. x \in Block
          BY <1>3 DEF IndexInv, TypeOK
        <3>2. CASE x = b
          BY <3>2, <1>1, <1>2, <1>3
        <3>3. CASE x # b
          BY <3>1, <3>3, <1>1, <1>3, <1>4 DEF IndexInv, Received
        <3>4. QED
          BY <3>2, <3>3
      <2>2. QED
        BY <2>1 DEF Received
    <1>8. \A c \in candidates' : linked'[c]
      BY <1>1, <1>2, Typed DEF IndexInv, UsesLinked
    <1>9. QED
      BY <1>5, <1>6, <1>7, <1>8

(* A block that waits for a parent only joins mapBlocksUnlinked.           *)
LEMMA ArrivesHeld ==
    ASSUME IndexInv, NEW b \in Block, Arrives(b), ~linked[Parent[b]], HoldBlock(b)
    PROVE  /\ Unseen' /\ Rooted' /\ Received'
           /\ linked' = linked /\ candidates' = candidates /\ sequenceId' = sequenceId
           /\ nextSequenceId' = nextSequenceId /\ unlinked \subseteq unlinked'
           /\ unlinked' \subseteq unlinked \cup {<<Parent[b], b>>}
    <1>1. ~linked[b]
      BY DEF IndexInv, Rooted
    <1>2. linked' = linked
      <2>1. linked \in [Block -> BOOLEAN] /\ linked' = [linked EXCEPT ![b] = FALSE]
        BY Typed DEF IndexInv, HoldBlock
      <2>2. linked[b] = FALSE
        BY <2>1, <1>1
      <2>3. QED
        BY <2>1, <2>2
    <1>3. /\ candidates' = candidates /\ sequenceId' = sequenceId
          /\ nextSequenceId' = nextSequenceId /\ unlinked \subseteq unlinked'
          /\ unlinked' \subseteq unlinked \cup {<<Parent[b], b>>}
      BY DEF HoldBlock
    <1>4. /\ \A x \in Block \ {b} : data'[x] <=> data[x]
          /\ \A x \in Block \ {b} : processed'[x] <=> processed[x]
          /\ \A x \in Block \ {b} : valid'[x] = valid[x]
          /\ data'[b] /\ processed'[b] /\ valid'[b] >= VALID_TRANSACTIONS
          /\ known' = known \cup {b} /\ Parent[b] \in known /\ Parent[b] \in Block
      BY ArrivesIs
    <1>5. UNCHANGED <<undo, failed, tip, havePruned>> /\ b # Genesis /\ b \notin BadContext
      BY DEF Arrives
    <1>6. Unseen'
      BY <1>2, <1>3, <1>4, <1>5 DEF IndexInv, Unseen
    <1>7. Rooted'
      <2>1. \A x \in known' : Parent[x] \in known'
        BY <1>4 DEF IndexInv, Rooted
      <2>2. \A x \in Block : linked'[x] => processed'[x] /\ linked'[Parent[x]]
        BY <1>2, <1>4 DEF IndexInv, Rooted
      <2>3. ASSUME NEW p \in unlinked'
            PROVE  \E x \in known' \ {Genesis} : p = <<Parent[x], x>> /\ processed'[x]
        <3>1. CASE p = <<Parent[b], b>>
          BY <3>1, <1>4, <1>5
        <3>2. CASE p \in unlinked
          <4>1. PICK x \in known \ {Genesis} : p = <<Parent[x], x>> /\ processed[x]
            BY <3>2 DEF IndexInv, Rooted
          <4>2. x \in known' /\ processed'[x]
            BY <4>1, <1>4 DEF IndexInv, TypeOK
          <4>3. QED
            BY <4>1, <4>2
        <3>3. QED
          BY <3>1, <3>2, <1>3
      <2>4. \A x \in BadContext : ~processed'[x]
        BY <1>4, <1>5, OtherAssumption DEF IndexInv, Rooted
      <2>5. linked'[Genesis] /\ valid'[Genesis] = VALID_SCRIPTS /\ ~undo'[Genesis]
        BY <1>2, <1>4, <1>5, TreeAssumption DEF IndexInv, Rooted
      <2>6. QED
        BY <2>1, <2>2, <2>3, <2>4, <2>5 DEF Rooted
    <1>8. Received'
      <2>1. ASSUME NEW x \in known'
            PROVE  /\ ~linked'[x] => sequenceId'[x] <= 0
                   /\ data'[x] => processed'[x]
                   /\ ~havePruned' => (processed'[x] => data'[x])
                   /\ undo'[x] => data'[x]
                   /\ valid'[x] >= VALID_TRANSACTIONS <=> processed'[x]
        <3>1. x \in Block
          BY <1>4 DEF IndexInv, TypeOK
        <3>2. CASE x = b
          BY <3>2, <1>1, <1>2, <1>3, <1>4 DEF IndexInv, Received, Unseen
        <3>3. CASE x # b
          BY <3>1, <3>3, <1>2, <1>3, <1>4, <1>5 DEF IndexInv, Received
        <3>4. QED
          BY <3>2, <3>3
      <2>2. QED
        BY <2>1 DEF Received
    <1>9. QED
      BY <1>2, <1>3, <1>6, <1>7, <1>8

(* ProcessNewBlock keeps the index sound, whether the block is refused,    *)
(* marked invalid or stored.                                               *)
LEMMA ProcessNewBlockIndex ==
    ASSUME IndexInv, NEW t \in Thread, NEW b \in Block, NEW requested \in BOOLEAN,
           ProcessNewBlock(t, b, requested)
    PROVE  IndexInv'
    <1>1. /\ b # Genesis /\ HeaderOk(b) /\ known' = known \cup {b}
          /\ UNCHANGED <<reverseSequenceId, lastPrecious, tip, havePruned, node, commands>>
      BY DEF ProcessNewBlock, KnownWith
    <1>2. /\ failed[b] = {} /\ Parent[b] \in known
          /\ ValidWith(b) \in [Block -> {0, VALID_TREE, VALID_TRANSACTIONS, VALID_SCRIPTS}]
          /\ \A x \in Block \ {b} : ValidWith(b)[x] = valid[x]
          /\ ValidWith(b)[b] = IF b \in known THEN valid[b] ELSE VALID_TREE
      BY <1>1, HeaderIs
    <1>3. CASE /\ valid' = ValidWith(b)
               /\ failed' \in [Block -> SUBSET {"VALID", "CHILD"}]
               /\ \A x \in Block \ {b} : failed'[x] = failed[x]
               /\ mostWork' \in [Thread -> Block \cup {None}] /\ activating' \subseteq Thread
               /\ \A u \in Thread : mostWork'[u] = mostWork[u] \/ mostWork'[u] = None
               /\ UNCHANGED <<data, undo, processed, linked, sequenceId, sets, nextSequenceId>>
      <2> USE <1>3 DEF sets
      <2>1. TypeOK'
        BY <1>1, <1>2 DEF IndexInv, TypeOK
      <2>2. Unseen'
        BY <1>1, <1>2 DEF IndexInv, Unseen
      <2>3. Rooted'
        BY <1>1, <1>2, TreeAssumption DEF IndexInv, Rooted
      <2>4. UsesLinked'
        BY <1>1 DEF IndexInv, UsesLinked
      <2>5. Received'
        <3>1. \A x \in known' : IF x \in known THEN valid'[x] = valid[x] ELSE x = b /\ valid'[x] = VALID_TREE
          BY <1>1, <1>2 DEF IndexInv, TypeOK
        <3>2. QED
          BY <1>1, <3>1 DEF IndexInv, Received, Unseen, VALID_TREE, VALID_TRANSACTIONS
      <2>6. QED
        BY <2>1, <2>2, <2>3, <2>4, <2>5 DEF IndexInv
    <1>4. CASE Arrives(b) /\ EnterActivation(t)
      <2>1. /\ mostWork' \in [Thread -> Block \cup {None}] /\ activating' \subseteq Thread
            /\ \A u \in Thread : mostWork'[u] = mostWork[u] \/ mostWork'[u] = None
        BY <1>4 DEF EnterActivation, IndexInv, TypeOK
      <2>2. /\ data' \in [Block -> BOOLEAN] /\ processed' \in [Block -> BOOLEAN]
            /\ valid' \in [Block -> {0, VALID_TREE, VALID_TRANSACTIONS, VALID_SCRIPTS}]
            /\ Parent[b] \in Block
            /\ (linked[Parent[b]] /\ LinkBlocks(b)) \/ (~linked[Parent[b]] /\ HoldBlock(b))
        BY <1>4, ArrivesIs
      <2>3. UNCHANGED <<undo, failed, failedBlocks>>
        BY <1>4 DEF Arrives
      <2>4. CASE linked[Parent[b]] /\ LinkBlocks(b)
        <3>1. Unseen' /\ Rooted' /\ Received' /\ \A c \in candidates' : linked'[c]
          BY <1>4, <2>4, ArrivesLinked
        <3>2. /\ linked' \in [Block -> BOOLEAN] /\ sequenceId' \in [Block -> Int] /\ nextSequenceId' \in Nat
              /\ \A x \in Block : linked[x] => linked'[x]
              /\ candidates' \subseteq candidates \cup NowLinked(b) /\ unlinked' \subseteq unlinked
          BY <2>4, LinkBlocksIs
        <3>3. candidates' \subseteq known'
          <4>1. \A d \in NowLinked(b) : d \in known'
            BY <1>1, NowLinkedKnown
          <4>2. QED
            BY <1>1, <3>2, <4>1 DEF IndexInv, TypeOK
        <3>4. TypeOK'
          BY <1>1, <2>1, <2>2, <2>3, <3>2, <3>3 DEF IndexInv, TypeOK
        <3>5. UsesLinked'
          BY <1>1, <2>1, <3>1, <3>2 DEF IndexInv, UsesLinked, TypeOK
        <3>6. QED
          BY <3>1, <3>4, <3>5 DEF IndexInv
      <2>5. CASE ~linked[Parent[b]] /\ HoldBlock(b)
        <3>1. /\ Unseen' /\ Rooted' /\ Received'
              /\ linked' = linked /\ candidates' = candidates /\ sequenceId' = sequenceId
              /\ nextSequenceId' = nextSequenceId
              /\ unlinked' \subseteq unlinked \cup {<<Parent[b], b>>}
          BY <1>4, <2>5, ArrivesHeld
        <3>2. TypeOK'
          BY <1>1, <2>1, <2>2, <2>3, <3>1 DEF IndexInv, TypeOK
        <3>3. UsesLinked'
          BY <1>1, <2>1, <3>1 DEF IndexInv, UsesLinked
        <3>4. QED
          BY <3>1, <3>2, <3>3 DEF IndexInv
      <2>6. QED
        BY <2>2, <2>4, <2>5
    <1>5. QED
      <2>1. CASE /\ NotStored(b, requested) /\ valid' = ValidWith(b) /\ EnterActivation(t)
                 /\ UNCHANGED <<data, undo, failed, processed, linked, sequenceId, sets, nextSequenceId>>
        <3>1. /\ mostWork' \in [Thread -> Block \cup {None}] /\ activating' \subseteq Thread
              /\ \A u \in Thread : mostWork'[u] = mostWork[u] \/ mostWork'[u] = None
          BY <2>1 DEF EnterActivation, IndexInv, TypeOK
        <3>2. QED
          BY <1>3, <2>1, <3>1, Typed DEF IndexInv
      <2>2. CASE /\ b \in BadContext /\ valid' = ValidWith(b)
                 /\ failed' = [failed EXCEPT ![b] = @ \cup {"VALID"}]
                 /\ UNCHANGED <<data, undo, processed, linked, sequenceId, sets, nextSequenceId, threads>>
        <3>1. /\ failed' \in [Block -> SUBSET {"VALID", "CHILD"}]
              /\ \A x \in Block \ {b} : failed'[x] = failed[x]
          BY <2>2, Typed DEF IndexInv
        <3>2. mostWork \in [Thread -> Block \cup {None}] /\ activating \subseteq Thread
          BY DEF IndexInv, TypeOK
        <3>3. QED
          BY <1>3, <2>2, <3>1, <3>2 DEF threads
      <2>3. CASE /\ b \notin BadContext /\ ReceivedBlockTransactions(b) /\ EnterActivation(t)
                 /\ UNCHANGED <<undo, failed, failedBlocks>>
        BY <1>1, <1>4, <2>3 DEF Arrives, KnownWith
      <2>4. QED
        BY <2>1, <2>2, <2>3 DEF ProcessNewBlock

(* A turn of ActivateBestChain keeps the index sound, whether it finds     *)
(* nothing, fails, or connects some blocks.                                *)
LEMMA ActivateIndex ==
    ASSUME IndexInv, NEW t \in Thread, Activate(t)
    PROVE  IndexInv'
    <1>f. PICK found \in Found(t) : \E target \in {Target(t, found)} :
             \/ ActivateDone(t, found, target)
             \/ ActivateAborts(t, found, target)
             \/ ActivateStep(t, found, target)
      BY DEF Activate
    <1>1. PICK target \in {Target(t, found)} :
             \/ ActivateDone(t, found, target)
             \/ ActivateAborts(t, found, target)
             \/ ActivateStep(t, found, target)
      BY <1>f
    <1>2. /\ Follows(found)
          /\ target # None => target \in Block /\ linked[target]
      BY TargetIs
    <1>3. /\ found.candidates \subseteq candidates
          /\ found.failed \in [Block -> SUBSET {"VALID", "CHILD"}]
          /\ found.unlinked \subseteq Block \X Block
      BY <1>2 DEF Follows, SearchState
    <1>4. \A x \in Block : ~linked[x] => found.failed[x] = failed[x]
      BY <1>2 DEF Follows, Marks
    <1>5. \A p \in found.unlinked : \E x \in known \ {Genesis} : p = <<Parent[x], x>> /\ processed[x]
      <2>1. \A x \in Block : linked[x] => x \in known /\ processed[x]
        BY DEF IndexInv, Unseen, Rooted
      <2>2. \A p \in found.unlinked \ unlinked : \E x \in Block \ {Genesis} : p = <<Parent[x], x>> /\ linked[x]
        BY <1>2 DEF Follows, Holds
      <2>3. \A p \in unlinked : \E x \in known \ {Genesis} : p = <<Parent[x], x>> /\ processed[x]
        BY DEF IndexInv, Rooted
      <2>4. QED
        BY <2>1, <2>2, <2>3
    <1>6. \A x \in Block \ known : ~linked[x]
      BY DEF IndexInv, Unseen
    <1>7. CASE ActivateDone(t, found, target)
      <2> USE <1>7 DEF ActivateDone, LeaveActivation, counters
      <2>1. /\ mostWork' \in [Thread -> Block \cup {None}] /\ activating' \subseteq Thread
            /\ \A u \in Thread : mostWork'[u] = mostWork[u] \/ mostWork'[u] = None
        BY DEF IndexInv, TypeOK
      <2>2. TypeOK'
        BY <1>3, <2>1 DEF IndexInv, TypeOK
      <2>3. Unseen'
        BY <1>4 DEF IndexInv, Unseen
      <2>4. Rooted' /\ Received'
        BY <1>5 DEF IndexInv, Rooted, Received
      <2>5. UsesLinked'
        BY <1>3, <2>1 DEF IndexInv, UsesLinked
      <2>6. QED
        BY <2>2, <2>3, <2>4, <2>5 DEF IndexInv
    <1>8. CASE ActivateAborts(t, found, target)
      <2> USE <1>8 DEF ActivateAborts, index, sets, counters, threads
      <2>1. TypeOK'
        BY DEF IndexInv, TypeOK
      <2>2. Unseen' /\ Rooted' /\ Received' /\ UsesLinked'
        BY DEF IndexInv, Unseen, Rooted, Received, UsesLinked
      <2>3. QED
        BY <2>1, <2>2 DEF IndexInv
    <1>9. CASE ActivateStep(t, found, target)
      <2>1. target \in Block /\ linked[target] /\ ~DataGone(target)
        BY <1>2, <1>9, SteppedIs
      <2>2. PICK newTip : newTip = StepTip(target)
        OBVIOUS
      <2>3. PICK kept : Stepped(t, found, target, newTip, kept)
        BY <1>9, <2>2, SteppedIs
      <2>4. PICK last : last = StepLast(target)
        OBVIOUS
      <2>5. /\ newTip \in Block /\ linked[newTip]
            /\ \A x \in Ancestors[newTip] \ Chain : x \in Block \ {Genesis} /\ data[x] /\ linked[x]
            /\ StepInvalid(target) => last \in Block \ {Genesis} /\ linked[last]
        BY <2>1, <2>2, <2>4, StepIs
      <2> DEFINE connected == Ancestors[newTip] \ Chain
      <2>6. /\ tip' = newTip
            /\ valid' = [x \in Block |-> IF x \in connected /\ failed[x] = {} THEN VALID_SCRIPTS ELSE valid[x]]
            /\ undo' = [x \in Block |-> x \in connected \/ undo[x]]
            /\ unlinked' = found.unlinked
            /\ node' \in {"running", "assert", node}
            /\ candidates' \subseteq candidates
            /\ UNCHANGED <<known, data, processed, linked, sequenceId, counters, havePruned, commands>>
        BY <1>3, <2>3 DEF Stepped
      <2>7. /\ failed' \in [Block -> SUBSET {"VALID", "CHILD"}]
            /\ \A x \in Block \ known : failed'[x] = failed[x]
            /\ failedBlocks' \subseteq known
        <3>1. failedBlocks \subseteq known
          BY DEF IndexInv, TypeOK
        <3>2. CASE StepInvalid(target)
          <4>1. /\ failed' = [found.failed EXCEPT ![last] = @ \cup {"VALID"}]
                /\ failedBlocks' = failedBlocks \cup {last} /\ last \in known /\ last \in Block
            BY <2>3, <2>4, <2>5, <3>2, <1>6 DEF Stepped
          <4>2. QED
            BY <4>1, <3>1, <1>3, <1>4, <1>6
        <3>3. CASE ~StepInvalid(target)
          BY <3>1, <3>3, <2>3, <1>3, <1>4, <1>6 DEF Stepped
        <3>4. QED
          BY <3>2, <3>3
      <2>8. /\ mostWork' \in [Thread -> Block \cup {None}] /\ activating' \subseteq Thread
            /\ \A u \in Thread : mostWork'[u] \in {mostWork[u], None, target}
        <3>1. mostWork \in [Thread -> Block \cup {None}] /\ activating \subseteq Thread
          BY DEF IndexInv, TypeOK
        <3>2. /\ mostWork' = [mostWork EXCEPT ![t] = None] \/ mostWork' = [mostWork EXCEPT ![t] = target]
              /\ activating' \subseteq activating
          BY <2>3 DEF Stepped
        <3>3. QED
          BY <3>1, <3>2, <2>1
      <2>9. /\ valid' \in [Block -> {0, VALID_TREE, VALID_TRANSACTIONS, VALID_SCRIPTS}]
            /\ undo' \in [Block -> BOOLEAN]
            /\ \A x \in Block : valid'[x] = valid[x] \/ (x \in connected /\ valid'[x] = VALID_SCRIPTS)
            /\ \A x \in Block : undo'[x] <=> x \in connected \/ undo[x]
        <3>1. /\ valid \in [Block -> {0, VALID_TREE, VALID_TRANSACTIONS, VALID_SCRIPTS}]
              /\ undo \in [Block -> BOOLEAN]
          BY Typed DEF IndexInv, TypeOK
        <3> HIDE DEF connected
        <3>2. QED
          BY <3>1, <2>6
      <2> HIDE DEF connected
      <2>c. \A x \in connected : x \in Block \ {Genesis} /\ data[x] /\ linked[x] /\ x \in known
        BY <2>5, <1>6 DEF connected
      <2>10. TypeOK'
        BY <1>3, <1>6, <2>5, <2>6, <2>7, <2>8, <2>9 DEF IndexInv, TypeOK, counters
      <2>11. Unseen'
        BY <2>6, <2>7, <2>9, <2>c DEF IndexInv, Unseen
      <2>12. Rooted'
        <3>1. valid'[Genesis] = VALID_SCRIPTS /\ ~undo'[Genesis]
          BY <2>9, <2>c, TreeAssumption DEF IndexInv, Rooted
        <3>2. QED
          BY <3>1, <2>6, <1>5 DEF IndexInv, Rooted
      <2>13. UsesLinked'
        BY <2>1, <2>5, <2>6, <2>8 DEF IndexInv, UsesLinked
      <2>14. Received'
        <3>1. ASSUME NEW x \in known
              PROVE  (undo'[x] => data[x]) /\ (valid'[x] >= VALID_TRANSACTIONS <=> processed[x])
          <4>1. x \in Block
            BY DEF IndexInv, TypeOK
          <4>2. CASE x \in connected
            <5>1. data[x] /\ linked[x] /\ processed[x]
              BY <2>c, <4>1, <4>2 DEF IndexInv, Rooted
            <5>2. QED
              BY <5>1, <4>1, <2>9 DEF IndexInv, Received, VALID_SCRIPTS, VALID_TRANSACTIONS
          <4>3. CASE x \notin connected
            BY <4>1, <4>3, <2>9 DEF IndexInv, Received
          <4>4. QED
            BY <4>2, <4>3
        <3>2. QED
          BY <3>1, <2>6 DEF IndexInv, Received
      <2>15. QED
        BY <2>10, <2>11, <2>12, <2>13, <2>14 DEF IndexInv
    <1>10. QED
      BY <1>1, <1>7, <1>8, <1>9

(* invalidateblock: the tip it leaves.                                     *)
LEMMA InvalidateIs ==
    ASSUME IndexInv, NEW t \in Thread, NEW b \in Block, Invalidate(t, b)
    PROVE  \/ /\ tip' \in Chain
              /\ UNCHANGED <<failed, candidates, failedBlocks>>
           \/ /\ b \in Block \ {Genesis} /\ tip' \in Chain /\ b \notin Ancestors[tip'] /\ b \in known
              /\ failed' \in [Block -> SUBSET {"VALID", "CHILD"}]
              /\ failed'[b] = failed[b] \cup {"VALID"}
              /\ \A x \in Block \ {b} :
                    \/ failed'[x] = failed[x]
                    \/ /\ failed'[x] = failed[x] \cup {"CHILD"} /\ x \in known
                       /\ b \in Ancestors[x]
              /\ \A x \in Ancestors[tip'] : failed'[x] = failed[x]
              /\ \A x \in candidates' : x \in candidates \/ (x \in known /\ linked[x])
              /\ Readmitted(failed', tip') \subseteq candidates'
              /\ failedBlocks' = failedBlocks \cup {b}
    <1> DEFINE inChain == b \in Chain
               stuck == {x \in Chain : b \in Ancestors[x] /\ Stuck(x)}
               newTip == IF inChain THEN Parent[b] ELSE tip
               below == IF inChain THEN Chain \ Ancestors[b] ELSE {}
               flags == [x \in Block |-> IF x = b THEN failed[x] \cup {"VALID"}
                                  ELSE IF x \in below THEN failed[x] \cup {"CHILD"} ELSE failed[x]]
    <1>1. IF stuck # {}
          THEN tip' = Highest(stuck) /\ UNCHANGED <<failed, candidates, failedBlocks>>
          ELSE /\ tip' = newTip /\ failed' = flags
               /\ candidates' = (candidates \ (below \cup {b})) \cup Readmitted(flags, newTip)
               /\ failedBlocks' = failedBlocks \cup {b}
      BY DEF Invalidate
    <1>2. tip \in Block /\ b \in known /\ Chain \subseteq Block /\ tip \in Chain /\ Genesis \in Chain
      BY Typed, AncestorsEnds DEF IndexInv, Chain, Invalidate
    <1>3. CASE stuck # {}
      <2>1. stuck \in SUBSET Ancestors[tip]
        BY DEF Chain
      <2>2. Highest(stuck) \in stuck
        <3> HIDE DEF stuck
        <3>1. QED
          BY <1>2, <1>3, <2>1, HighestIs
      <2>3. QED
        BY <1>1, <1>3, <2>2
    <1>4. CASE stuck = {}
      <2>1. b # Genesis
        <3>1. ASSUME b = Genesis PROVE FALSE
          <4>1. Genesis \in Ancestors[Genesis] /\ ~undo[Genesis]
            BY AncestorsEnds, TreeAssumption DEF IndexInv, Rooted
          <4>2. Genesis \in stuck
            BY <1>2, <3>1, <4>1 DEF Stuck
          <4>3. QED
            BY <1>4, <4>2
        <3>2. QED
          BY <3>1
      <2>2. tip' = newTip /\ failed' = flags /\ failedBlocks' = failedBlocks \cup {b}
            /\ candidates' \subseteq candidates \cup Readmitted(flags, newTip)
            /\ Readmitted(failed', tip') \subseteq candidates'
        BY <1>1, <1>4
      <2>3. failed \in [Block -> SUBSET {"VALID", "CHILD"}]
        BY Typed DEF IndexInv
      <2>4. ASSUME NEW x \in below PROVE x \in Block /\ x \in known /\ b \in Ancestors[x] /\ b \in Chain
        <3>1. b \in Chain /\ x \in Chain \ Ancestors[b]
          OBVIOUS
        <3>2. b \in Ancestors[x] /\ x \in Block
          BY <1>2, <3>1, AncestorsBetween DEF Chain
        <3>3. x \in known
          BY <3>1, <1>2, LinkedDown DEF Chain, IndexInv, UsesLinked
        <3>4. QED
          BY <3>1, <3>2, <3>3
      <2>5. newTip \in Chain /\ b \notin Ancestors[newTip] /\ newTip \in Block
        <3>1. CASE inChain
          <4>1. Parent[b] \in Chain /\ Parent[b] \in Ancestors[b] /\ Parent[b] \in Block
            BY <1>2, <2>1, <3>1, AncestorsClosed, TreeAssumption DEF Chain
          <4>2. b \in Ancestors[Parent[b]] => b = Parent[b]
            BY <4>1, AncestorsAntisymmetric
          <4>3. Height[b] # Height[Parent[b]]
            BY <2>1, <4>1, TreeAssumption
          <4>4. QED
            BY <3>1, <4>1, <4>2, <4>3
        <3>2. CASE ~inChain
          BY <3>2, <1>2 DEF Chain
        <3>3. QED
          BY <3>1, <3>2
      <2>6. ASSUME NEW x \in Ancestors[newTip] PROVE x # b /\ x \notin below
        <3>1. x # b
          BY <2>5
        <3>2. x \in Block
          BY <2>5, AncestorsIs
        <3>3. ASSUME x \in below PROVE FALSE
          BY <3>2, <3>3, <2>4, <2>5, AncestorsTransitive
        <3>4. QED
          BY <3>1, <3>3
      <2> HIDE DEF below, newTip
      <2>7. flags \in [Block -> SUBSET {"VALID", "CHILD"}]
        BY <2>3
      <2>8. /\ flags[b] = failed[b] \cup {"VALID"}
            /\ \A x \in Block \ {b} :
                  \/ flags[x] = failed[x]
                  \/ flags[x] = failed[x] \cup {"CHILD"} /\ x \in known /\ b \in Ancestors[x]
        BY <2>4
      <2>9. \A x \in Ancestors[newTip] : flags[x] = failed[x]
        <3>1. Ancestors[newTip] \subseteq Block
          BY <2>5, AncestorsEnds
        <3>2. QED
          BY <2>6, <3>1
      <2> HIDE DEF flags
      <2>10. \A x \in candidates' : x \in candidates \/ (x \in known /\ linked[x])
        BY <2>2 DEF Readmitted
      <2>11. QED
        BY <1>2, <2>1, <2>2, <2>5, <2>7, <2>8, <2>9, <2>10
    <1>5. QED
      BY <1>3, <1>4

(* ActivateBestChain begins with pindexMostWork == nullptr.                *)
LEMMA EnterIs ==
    ASSUME IndexInv, NEW t \in Thread, EnterActivation(t)
    PROVE  /\ mostWork' \in [Thread -> Block \cup {None}] /\ activating' \subseteq Thread
           /\ mostWork'[t] = None
           /\ \A u \in Thread : mostWork'[u] = mostWork[u] \/ mostWork'[u] = None
    BY DEF EnterActivation, IndexInv, TypeOK

(* A command is one of those the instance allows.                          *)
LEMMA CommandIs ==
    ASSUME IndexInv, NEW c, Command(c)
    PROVE  commands' \in 0 .. MaxCommands /\ c \in Commands
    BY OtherAssumption DEF Command, IndexInv, TypeOK

(* InvalidateBlock keeps the index sound.                                  *)
LEMMA InvalidateIndex ==
    ASSUME IndexInv, NEW t \in Thread, NEW b \in Block, Invalidate(t, b)
    PROVE  IndexInv'
    <1>1. /\ UNCHANGED <<known, valid, data, undo, processed, linked, sequenceId, unlinked, counters,
                         havePruned, node>>
          /\ EnterActivation(t) /\ Command("invalidate")
      BY DEF Invalidate
    <1>2. /\ mostWork' \in [Thread -> Block \cup {None}] /\ activating' \subseteq Thread
          /\ \A u \in Thread : mostWork'[u] = mostWork[u] \/ mostWork'[u] = None
          /\ commands' \in 0 .. MaxCommands
      BY <1>1, EnterIs, CommandIs
    <1>3. /\ tip' \in Chain
          /\ failed' \in [Block -> SUBSET {"VALID", "CHILD"}]
          /\ \A x \in Block \ known : failed'[x] = failed[x]
          /\ candidates' \subseteq known /\ \A x \in candidates' : linked[x]
          /\ failedBlocks' \subseteq known
      BY InvalidateIs DEF IndexInv, TypeOK, UsesLinked
    <1>4. tip' \in known /\ linked[tip']
      BY <1>3, Typed, LinkedDown DEF IndexInv, UsesLinked, Chain
    <1>5. TypeOK'
      BY <1>1, <1>2, <1>3, <1>4 DEF IndexInv, TypeOK, counters
    <1>6. Unseen'
      BY <1>1, <1>3 DEF IndexInv, Unseen
    <1>7. Rooted' /\ Received'
      BY <1>1 DEF IndexInv, Rooted, Received
    <1>8. UsesLinked'
      BY <1>1, <1>2, <1>3, <1>4 DEF IndexInv, UsesLinked
    <1>9. QED
      BY <1>5, <1>6, <1>7, <1>8 DEF IndexInv

(* ResetBlockFailureFlags keeps the index sound.                           *)
LEMMA ReconsiderIndex ==
    ASSUME IndexInv, NEW t \in Thread, NEW b \in Block, Reconsider(t, b)
    PROVE  IndexInv'
    <1>1. /\ UNCHANGED <<known, valid, data, undo, processed, linked, sequenceId, unlinked, counters, tip,
                         havePruned, node>>
          /\ EnterActivation(t) /\ Command("reconsider")
      BY DEF Reconsider
    <1>2. /\ mostWork' \in [Thread -> Block \cup {None}] /\ activating' \subseteq Thread
          /\ \A u \in Thread : mostWork'[u] = mostWork[u] \/ mostWork'[u] = None
          /\ commands' \in 0 .. MaxCommands
      BY <1>1, EnterIs, CommandIs
    <1>3. /\ failed' \in [Block -> SUBSET {"VALID", "CHILD"}]
          /\ \A x \in Block : failed'[x] = failed[x] \/ failed'[x] = {}
      BY Typed DEF Reconsider, IndexInv
    <1>4. /\ candidates' \subseteq known /\ \A x \in candidates' : linked[x]
          /\ failedBlocks' \subseteq known
      BY DEF Reconsider, IndexInv, TypeOK, UsesLinked
    <1>5. TypeOK'
      BY <1>1, <1>2, <1>3, <1>4 DEF IndexInv, TypeOK, counters
    <1>6. Unseen'
      BY <1>1, <1>3 DEF IndexInv, Unseen
    <1>7. Rooted' /\ Received'
      BY <1>1 DEF IndexInv, Rooted, Received
    <1>8. UsesLinked'
      BY <1>1, <1>2, <1>4 DEF IndexInv, UsesLinked
    <1>9. QED
      BY <1>5, <1>6, <1>7, <1>8 DEF IndexInv

(* PreciousBlock keeps the index sound.                                    *)
LEMMA PreciousIndex ==
    ASSUME IndexInv, Reversed, NEW t \in Thread, NEW b \in Block, Precious(t, b)
    PROVE  IndexInv'
    <1> DEFINE reverse == IF Work[tip] > lastPrecious THEN -1 ELSE reverseSequenceId
               seq == [sequenceId EXCEPT ![b] = reverse]
               eligible == IsValid(b, VALID_TRANSACTIONS) /\ linked[b]
               kept == PruneCandidates(candidates \cup {b}, tip, seq)
    <1>1. /\ UNCHANGED <<known, valid, data, undo, failed, processed, linked, unlinked, failedBlocks,
                         nextSequenceId, tip, havePruned>>
          /\ EnterActivation(t) /\ Command("precious") /\ b \in known
          /\ lastPrecious' = Work[tip] /\ sequenceId' = seq /\ reverseSequenceId' = reverse - 1
          /\ candidates' = IF eligible THEN kept ELSE candidates \ {b}
          /\ node' = IF eligible /\ kept = {} THEN "assert" ELSE node
      BY DEF Precious
    <1>2. /\ mostWork' \in [Thread -> Block \cup {None}] /\ activating' \subseteq Thread
          /\ \A u \in Thread : mostWork'[u] = mostWork[u] \/ mostWork'[u] = None
          /\ commands' \in 0 .. MaxCommands
      BY <1>1, EnterIs, CommandIs
    <1>3. reverse \in Int /\ seq \in [Block -> Int] /\ \A x \in Block \ {b} : seq[x] = sequenceId[x]
      BY DEF IndexInv, TypeOK
    <1>4. kept \subseteq candidates \cup {b}
      BY DEF PruneCandidates
    <1>5. candidates' \subseteq known /\ \A x \in candidates' : linked[x]
      BY <1>1, <1>4 DEF IndexInv, TypeOK, UsesLinked
    <1>6. Work[tip] \in Nat
      BY Typed, TreeAssumption DEF IndexInv
    <1>7. reverse <= 0
      BY DEF Reversed, IndexInv, TypeOK
    <1> HIDE DEF reverse, kept, eligible
    <1>8. TypeOK'
      BY <1>1, <1>2, <1>3, <1>5, <1>6 DEF IndexInv, TypeOK
    <1>9. seq[b] <= 0
      BY <1>3, <1>7 DEF IndexInv, TypeOK
    <1> HIDE DEF seq
    <1>10. Unseen' /\ Rooted'
      BY <1>1, <1>3, <1>9 DEF IndexInv, Unseen, Rooted
    <1>11. Received'
      BY <1>1, <1>3, <1>9 DEF IndexInv, Received, TypeOK
    <1>12. UsesLinked'
      BY <1>1, <1>2, <1>5 DEF IndexInv, UsesLinked
    <1>13. QED
      BY <1>8, <1>10, <1>11, <1>12 DEF IndexInv

(* A restart: linked blocks stay linked, and the rest is rebuilt.          *)
LEMMA RestartIs ==
    ASSUME IndexInv, NEW t \in Thread, Restart(t)
    PROVE  /\ linked' \in [Block -> BOOLEAN]
           /\ \A x \in Block : linked'[x] <=> \A a \in Ancestors[x] : processed[a]
           /\ \A x \in Block : linked[x] => linked'[x]
           /\ failed' \in [Block -> SUBSET {"VALID", "CHILD"}]
           /\ \A x \in Block : failed'[x] = IF x \in known /\ failed[x] = {} /\ \E a \in Ancestors[x] : failed[a] # {}
                                            THEN {"CHILD"} ELSE failed[x]
           /\ unlinked' = {<<Parent[x], x>> : x \in {y \in known : processed[y] /\ ~linked'[Parent[y]]}}
           /\ candidates' \subseteq known /\ \A x \in candidates' : linked'[x]
           /\ candidates' = PruneCandidates(Reloaded(failed', linked'), tip, sequenceId')
    <1> DEFINE flags == [x \in Block |-> IF x \in known /\ failed[x] = {} /\ \E a \in Ancestors[x] : failed[a] # {}
                                        THEN {"CHILD"} ELSE failed[x]]
               seq == [x \in Block |-> 0]
               kept == PruneCandidates(Reloaded(flags, Loaded), tip, seq)
    <1>1. /\ failed' = flags /\ linked' = Loaded /\ candidates' = kept
          /\ candidates' = PruneCandidates(Reloaded(failed', linked'), tip, sequenceId')
          /\ unlinked' = {<<Parent[x], x>> : x \in {y \in known : processed[y] /\ ~Loaded[Parent[y]]}}
      BY DEF Restart
    <1>2. linked' = [x \in Block |-> \A a \in Ancestors[x] : processed[a]]
      BY <1>1 DEF Loaded
    <1>3. /\ linked' \in [Block -> BOOLEAN]
          /\ \A x \in Block : linked'[x] <=> \A a \in Ancestors[x] : processed[a]
      BY <1>2
    <1>4. \A x \in Block : linked[x] => linked'[x]
      BY <1>3, LinkedDown
    <1>5. /\ flags \in [Block -> SUBSET {"VALID", "CHILD"}]
          /\ \A x \in Block : flags[x] = IF x \in known /\ failed[x] = {} /\ \E a \in Ancestors[x] : failed[a] # {}
                                         THEN {"CHILD"} ELSE failed[x]
      BY Typed DEF IndexInv
    <1> HIDE DEF flags
    <1>6. kept \subseteq known /\ \A x \in kept : Loaded[x]
      BY DEF PruneCandidates, Reloaded
    <1>7. QED
      BY <1>1, <1>3, <1>4, <1>5, <1>6

(* LoadBlockIndexDB builds a sound index from what is on disk.             *)
LEMMA RestartIndex ==
    ASSUME IndexInv, NEW t \in Thread, Restart(t)
    PROVE  IndexInv'
    <1>1. /\ linked' \in [Block -> BOOLEAN]
          /\ \A x \in Block : linked'[x] <=> \A a \in Ancestors[x] : processed[a]
          /\ \A x \in Block : linked[x] => linked'[x]
          /\ failed' \in [Block -> SUBSET {"VALID", "CHILD"}]
          /\ \A x \in Block \ known : failed'[x] = failed[x]
          /\ unlinked' = {<<Parent[x], x>> : x \in {y \in known : processed[y] /\ ~linked'[Parent[y]]}}
          /\ candidates' \subseteq known /\ \A x \in candidates' : linked'[x]
      BY RestartIs
    <1>2. /\ sequenceId' = [x \in Block |-> 0] /\ failedBlocks' = {} /\ nextSequenceId' = 1
          /\ reverseSequenceId' = -1 /\ lastPrecious' = 0 /\ activating' = {t}
          /\ mostWork' = [x \in Thread |-> None] /\ node' \in {"assert", node}
          /\ Command("restart")
          /\ UNCHANGED <<known, valid, data, undo, processed, tip, havePruned>>
      BY DEF Restart
    <1>3. /\ sequenceId' \in [Block -> Int] /\ \A x \in Block : sequenceId'[x] <= 0
          /\ mostWork' \in [Thread -> Block \cup {None}] /\ \A u \in Thread : mostWork'[u] = None
          /\ commands' \in 0 .. MaxCommands
      BY <1>2, CommandIs
    <1>4. unlinked' \subseteq Block \X Block
      BY <1>1, TreeAssumption, Typed DEF IndexInv
    <1>5. TypeOK'
      BY <1>1, <1>2, <1>3, <1>4 DEF IndexInv, TypeOK
    <1>6. Unseen'
      <2>1. ASSUME NEW x \in Block \ known PROVE ~linked'[x]
        BY <1>1, AncestorsEnds DEF IndexInv, Unseen
      <2>2. QED
        BY <2>1, <1>1, <1>2, <1>3 DEF IndexInv, Unseen
    <1>7. Rooted'
      <2>1. ASSUME NEW x \in Block, linked'[x] PROVE processed[x] /\ linked'[Parent[x]]
        <3>1. x \in Ancestors[x] /\ Parent[x] \in Block /\ Parent[x] \in Ancestors[x]
          BY AncestorsEnds, AncestorsClosed, TreeAssumption
        <3>2. Ancestors[Parent[x]] \subseteq Ancestors[x]
          BY <3>1, AncestorsTransitive
        <3>3. QED
          BY <2>1, <3>1, <3>2, <1>1
      <2>2. ASSUME NEW p \in unlinked'
            PROVE  \E x \in known \ {Genesis} : p = <<Parent[x], x>> /\ processed[x]
        <3>1. PICK x \in known : p = <<Parent[x], x>> /\ processed[x] /\ ~linked'[Parent[x]]
          BY <1>1
        <3>2. x # Genesis
          BY <3>1, <1>1, TreeAssumption DEF IndexInv, Rooted
        <3>3. QED
          BY <3>1, <3>2
      <2>3. linked'[Genesis]
        BY <1>1, TreeAssumption DEF IndexInv, Rooted
      <2>4. QED
        BY <2>1, <2>2, <2>3, <1>2 DEF IndexInv, Rooted
    <1>8. UsesLinked'
      BY <1>1, <1>2, <1>3, Typed DEF IndexInv, UsesLinked
    <1>9. Received'
      BY <1>1, <1>2, <1>3, Typed DEF IndexInv, Received
    <1>10. QED
      BY <1>5, <1>6, <1>7, <1>8, <1>9 DEF IndexInv

(* nBlockReverseSequenceId only counts down or is reset to -1.             *)
LEMMA ReversedStep ==
    ASSUME IndexInv, Reversed, [Next]_vars
    PROVE  Reversed'
    <1>1. reverseSequenceId \in Int
      BY DEF IndexInv, TypeOK
    <1>2. ASSUME NEW t \in Thread, NEW b \in Block, Precious(t, b) PROVE Reversed'
      BY <1>1, <1>2 DEF Precious, Reversed
    <1>3. ASSUME NEW t \in Thread, Restart(t) PROVE Reversed'
      BY <1>3 DEF Restart, Reversed
    <1>4. CASE UNCHANGED reverseSequenceId
      BY <1>4 DEF Reversed
    <1>5. ASSUME NEW t \in Thread, Activate(t) PROVE UNCHANGED reverseSequenceId
      <2>1. PICK found \in Found(t) : \E target \in {Target(t, found)} :
               \/ ActivateDone(t, found, target)
               \/ ActivateAborts(t, found, target)
               \/ ActivateStep(t, found, target)
        BY <1>5 DEF Activate
      <2>2. QED
        BY <2>1 DEF ActivateDone, ActivateAborts, ActivateStep, counters
    <1>6. QED
      BY <1>2, <1>3, <1>4, <1>5 DEF Next, vars, counters, AcceptHeader, RejectHeader, Prune, ProcessNewBlock,
         Invalidate, Reconsider

(* IndexInv is inductive.                                                  *)
LEMMA NextIndex ==
    ASSUME IndexInv, Reversed, [Next]_vars
    PROVE  IndexInv' /\ Reversed'
    <1>1. ASSUME UNCHANGED vars PROVE IndexInv'
      BY <1>1 DEF vars, index, sets, counters, threads, IndexInv, TypeOK, Unseen, Rooted, UsesLinked, Received,
                  Chain
    <1>2. ASSUME Next PROVE IndexInv'
      BY <1>2, AcceptHeaderIndex, RejectHeaderIndex, PruneIndex, ActivateIndex, RestartIndex,
         ProcessNewBlockIndex, InvalidateIndex, ReconsiderIndex, PreciousIndex DEF Next
    <1>3. QED
      BY <1>1, <1>2, ReversedStep

(* What every other proof needs of the index, whatever the commands and    *)
(* the threads: entries and linked blocks are closed under parents, only   *)
(* linked blocks are candidates, targets or tips, and what a block's       *)
(* fields say of each other agrees, as CheckBlockIndex asserts of nTx,     *)
(* nChainTx, BLOCK_HAVE_DATA and BLOCK_HAVE_UNDO.                          *)
THEOREM IndexInvariant == Spec => [](IndexInv /\ Reversed)
    <1>1. Init => IndexInv /\ Reversed
      BY InitIndex DEF Init, Reversed
    <1>2. (IndexInv /\ Reversed) /\ [Next]_vars => (IndexInv /\ Reversed)'
      BY NextIndex
    <1>3. QED
      BY <1>1, <1>2, PTL DEF Spec

(* Types: whatever headers, blocks and commands arrive in whatever order,  *)
(* and wherever ActivateBestChain releases cs_main, the index, the sets    *)
(* and the counters of validation.cpp have their types.                    *)
THEOREM TypeCorrect == Spec => []TypeOK
    <1>1. IndexInv => TypeOK
      BY DEF IndexInv
    <1>2. QED
      BY <1>1, IndexInvariant, PTL

-----------------------------------------------------------------------------
(* The marks of failed blocks.  What one action may do to them: marks are  *)
(* added above marked blocks, or start at the blocks of S.                 *)
Spreads(S) ==
    \A x \in Block :
        /\ failed[x] \subseteq failed'[x]
        /\ failed'[x] # failed[x] =>
              \/ x \in S /\ failed'[x] = failed[x] \cup {"VALID"}
              \/ \E a \in Ancestors[x] : failed[a] # {} \/ (a \in S /\ "VALID" \in failed'[a])

(* A turn of ActivateBestChain: a search, and then one of three outcomes.  *)
LEMMA ActivateFound ==
    ASSUME NEW t, Activate(t)
    PROVE  \E found \in Found(t) : \E target :
             /\ target = Target(t, found)
             /\ \/ ActivateDone(t, found, target)
                \/ ActivateAborts(t, found, target)
                \/ ActivateStep(t, found, target)
    BY DEF Activate

(* The blocks at which an action starts to mark.                           *)
LEMMA RejectHeaderMarks ==
    ASSUME IndexInv, NEW b \in Block, RejectHeader(b)
    PROVE  \/ UNCHANGED failed
           \/ \E f \in failedBlocks \cap Ancestors[Parent[b]] :
                 /\ "VALID" \in failed[f]
                 /\ failed' = [x \in Block |-> IF x \in MarkedPath(b, f) THEN failed[x] \cup {"CHILD"} ELSE failed[x]]
                 /\ \A x \in MarkedPath(b, f) : x \in Block /\ f \in Ancestors[x]
    <1>1. PICK f \in FailedAncestors(Parent[b]) :
             IF "VALID" \in failed[f]
             THEN /\ failed' = [x \in Block |-> IF x \in MarkedPath(b, f)
                                                THEN failed[x] \cup {"CHILD"} ELSE failed[x]]
                  /\ UNCHANGED node
             ELSE node' = "assert" /\ UNCHANGED failed
      BY DEF RejectHeader
    <1>2. f \in failedBlocks \cap Ancestors[Parent[b]]
      BY <1>1 DEF FailedAncestors
    <1>3. Parent[b] \in Block
      BY TreeAssumption
    <1>4. \A x \in MarkedPath(b, f) : x \in Block /\ f \in Ancestors[x]
      BY <1>2, <1>3, AncestorsBetween DEF MarkedPath
    <1>5. QED
      BY <1>1, <1>2, <1>4

(* Reasoned, operation by operation.                                       *)
LEMMA RejectHeaderSpreads ==
    ASSUME IndexInv, NEW b \in Block, RejectHeader(b)
    PROVE  Spreads({})
    <1>1. failed \in [Block -> SUBSET {"VALID", "CHILD"}]
      BY Typed DEF IndexInv
    <1>2. CASE UNCHANGED failed
      BY <1>2 DEF Spreads
    <1>3. CASE ~UNCHANGED failed
      <2>1. PICK f \in failedBlocks \cap Ancestors[Parent[b]] :
                 /\ "VALID" \in failed[f]
                 /\ failed' = [x \in Block |-> IF x \in MarkedPath(b, f) THEN failed[x] \cup {"CHILD"} ELSE failed[x]]
                 /\ \A x \in MarkedPath(b, f) : x \in Block /\ f \in Ancestors[x]
        BY <1>3, RejectHeaderMarks
      <2>2. failed[f] # {}
        BY <2>1
      <2>3. ASSUME NEW x \in Block PROVE failed[x] \subseteq failed'[x]
        BY <2>1, <1>1
      <2>4. ASSUME NEW x \in Block, failed'[x] # failed[x] PROVE \E a \in Ancestors[x] : failed[a] # {}
        <3>1. x \in MarkedPath(b, f)
          BY <2>1, <2>4
        <3>2. QED
          BY <3>1, <2>1, <2>2
      <2>5. QED
        BY <2>3, <2>4 DEF Spreads
    <1>4. QED
      BY <1>2, <1>3

(* ProcessNewBlock marks at most the block it is given, if that fails the  *)
(* checks of AcceptBlock.                                                  *)
LEMMA ProcessNewBlockSpreads ==
    ASSUME IndexInv, NEW t \in Thread, NEW b \in Block, NEW requested \in BOOLEAN,
           ProcessNewBlock(t, b, requested)
    PROVE  \/ UNCHANGED failed
           \/ /\ b \in BadContext /\ Spreads({b}) /\ ~data[b] /\ UNCHANGED <<data, linked, unlinked>>
              /\ \A x \in Block \ {b} : failed'[x] = failed[x]
              /\ failed'[b] = failed[b] \cup {"VALID"}
    <1>1. failed \in [Block -> SUBSET {"VALID", "CHILD"}]
      BY Typed DEF IndexInv
    <1>2. \/ UNCHANGED failed
          \/ /\ b \in BadContext /\ ~NotStored(b, requested)
             /\ failed' = [failed EXCEPT ![b] = @ \cup {"VALID"}] /\ UNCHANGED <<data, linked, sets>>
      BY DEF ProcessNewBlock
    <1>3. ASSUME failed' = [failed EXCEPT ![b] = @ \cup {"VALID"}]
          PROVE  /\ Spreads({b}) /\ \A x \in Block \ {b} : failed'[x] = failed[x]
                 /\ failed'[b] = failed[b] \cup {"VALID"}
      BY <1>1, <1>3 DEF Spreads
    <1>4. QED
      BY <1>2, <1>3 DEF NotStored, sets

(* ActivateBestChain marks above marked blocks and, if a block turns out   *)
(* invalid, that one.                                                      *)
LEMMA ActivateSpreads ==
    ASSUME IndexInv, NEW t \in Thread, Activate(t)
    PROVE  /\ Spreads({x \in BadConnect : linked[x]})
           /\ \A x \in Block : failed'[x] # failed[x] => linked[x]
           /\ unlinked \subseteq unlinked' /\ UNCHANGED <<data, linked>>
    <1>f. PICK found \in Found(t) : \E target :
             /\ target = Target(t, found)
             /\ \/ ActivateDone(t, found, target)
                \/ ActivateAborts(t, found, target)
                \/ ActivateStep(t, found, target)
      BY ActivateFound
    <1>1. PICK target : /\ target = Target(t, found)
                        /\ \/ ActivateDone(t, found, target)
                           \/ ActivateAborts(t, found, target)
                           \/ ActivateStep(t, found, target)
      BY <1>f
    <1>2. Follows(found) /\ (target # None => target \in Block /\ linked[target])
      BY <1>1, TargetIs
    <1> DEFINE S == {x \in BadConnect : linked[x]}
    <1>3. found.failed \in [Block -> SUBSET {"VALID", "CHILD"}] /\ unlinked \subseteq found.unlinked
      BY <1>2 DEF Follows, SearchState, Holds
    <1>4. \A x \in Block :
             /\ failed[x] \subseteq found.failed[x]
             /\ found.failed[x] # failed[x] => linked[x] /\ \E a \in Ancestors[x] : failed[a] # {}
      BY <1>2 DEF Follows, Marks
    <1>5. CASE failed' = found.failed /\ unlinked' = found.unlinked /\ UNCHANGED <<data, linked>>
      BY <1>3, <1>4, <1>5 DEF Spreads
    <1>6. CASE ActivateStep(t, found, target)
      <2>1. target \in Block /\ linked[target] /\ ~DataGone(target)
        BY <1>2, <1>6, SteppedIs
      <2>2. PICK kept : Stepped(t, found, target, StepTip(target), kept)
        BY <1>6, SteppedIs
      <2>3. unlinked' = found.unlinked /\ UNCHANGED <<data, linked>>
        BY <2>2 DEF Stepped
      <2>4. CASE ~StepInvalid(target)
        BY <1>5, <2>2, <2>3, <2>4 DEF Stepped
      <2>5. CASE StepInvalid(target)
        <3>1. PICK last : last = StepLast(target)
          OBVIOUS
        <3>2. last \in Block /\ linked[last] /\ last \in BadConnect
          BY <2>1, <2>5, <3>1, StepIs DEF StepInvalid
        <3>3. failed' = [found.failed EXCEPT ![last] = @ \cup {"VALID"}]
          BY <2>2, <2>5, <3>1 DEF Stepped
        <3>4. /\ \A x \in Block \ {last} : failed'[x] = found.failed[x]
              /\ failed'[last] = found.failed[last] \cup {"VALID"}
          BY <3>2, <3>3, <1>3
        <3>5. last \in S /\ last \in Ancestors[last] /\ "VALID" \in failed'[last]
          BY <3>2, <3>4, AncestorsEnds
        <3>6. ASSUME NEW x \in Block
              PROVE  /\ failed[x] \subseteq failed'[x]
                     /\ failed'[x] # failed[x] => linked[x]
                     /\ failed'[x] # failed[x] =>
                          \E a \in Ancestors[x] : failed[a] # {} \/ (a \in S /\ "VALID" \in failed'[a])
          <4>1. CASE x = last
            BY <4>1, <3>2, <3>4, <3>5, <1>4
          <4>2. CASE x # last
            BY <4>2, <3>4, <1>4
          <4>3. QED
            BY <4>1, <4>2
        <3>7. QED
          BY <3>6, <2>3, <1>3 DEF Spreads
      <2>6. QED
        BY <2>4, <2>5
    <1>7. CASE ActivateAborts(t, found, target)
      BY <1>7 DEF ActivateAborts, index, sets, Spreads
    <1>8. CASE ActivateDone(t, found, target)
      BY <1>5, <1>8 DEF ActivateDone
    <1>9. QED
      BY <1>1, <1>6, <1>7, <1>8

(* InvalidateBlock marks the block it is given, which is then declared     *)
(* invalid, and the blocks above it.                                       *)
LEMMA InvalidateSpreads ==
    ASSUME IndexInv, NEW t \in Thread, NEW b \in Block, Invalidate(t, b)
    PROVE  Spreads({b})
    <1>1. CASE UNCHANGED failed
      BY <1>1 DEF Spreads
    <1>2. CASE ~UNCHANGED failed
      <2>1. /\ failed'[b] = failed[b] \cup {"VALID"}
            /\ \A x \in Block \ {b} :
                    \/ failed'[x] = failed[x]
                    \/ failed'[x] = failed[x] \cup {"CHILD"} /\ b \in Ancestors[x]
        BY <1>2, InvalidateIs
      <2>2. QED
        BY <2>1 DEF Spreads
    <1>3. QED
      BY <1>1, <1>2

(* A restart marks no block that has no marked ancestor.                   *)
LEMMA RestartSpreads ==
    ASSUME IndexInv, NEW t \in Thread, Restart(t)
    PROVE  Spreads({})
    <1>1. \A x \in Block : failed'[x] = IF x \in known /\ failed[x] = {} /\ \E a \in Ancestors[x] : failed[a] # {}
                                        THEN {"CHILD"} ELSE failed[x]
      BY RestartIs
    <1>2. QED
      BY <1>1 DEF Spreads

(* Where marks come from is kept by what spreads them.                     *)
LEMMA SpreadsReasoned ==
    ASSUME Reasoned(failed), NEW S, Spreads(S)
    PROVE  Reasoned(failed')
    <1> SUFFICES ASSUME NEW x \in Block, failed'[x] # {}
                 PROVE  \E a \in Ancestors[x] : "VALID" \in failed'[a]
      BY DEF Reasoned, Marked
    <1>r. ASSUME NEW y \in Block, failed[y] # {}, Ancestors[y] \subseteq Ancestors[x]
          PROVE  \E a \in Ancestors[x] : "VALID" \in failed'[a]
      <2>1. PICK a \in Ancestors[y] : "VALID" \in failed[a]
        BY <1>r DEF Reasoned, Marked
      <2>2. a \in Block
        BY AncestorsIs
      <2>3. "VALID" \in failed'[a]
        BY <2>1, <2>2 DEF Spreads
      <2>4. QED
        BY <2>1, <2>3, <1>r
    <1>1. CASE failed'[x] = failed[x]
      BY <1>1, <1>r
    <1>2. CASE failed'[x] = failed[x] \cup {"VALID"}
      BY <1>2, AncestorsEnds
    <1>3. ASSUME NEW a \in Ancestors[x], failed[a] # {}
          PROVE  \E c \in Ancestors[x] : "VALID" \in failed'[c]
      BY <1>3, <1>r, AncestorsTransitive, AncestorsIs
    <1>4. QED
      BY <1>1, <1>2, <1>3 DEF Spreads

(* Every mark has its reason, unless blocks are reconsidered.              *)
LEMMA NextReasoned ==
    ASSUME IndexInv, "reconsider" \notin Commands, Reasoned(failed), [Next]_vars
    PROVE  Reasoned(failed')
    <1>1. CASE UNCHANGED failed
      BY <1>1
    <1>2. ASSUME NEW b \in Block, RejectHeader(b) PROVE Reasoned(failed')
      BY <1>2, RejectHeaderSpreads, SpreadsReasoned
    <1>3. ASSUME NEW t \in Thread, Activate(t) PROVE Reasoned(failed')
      BY <1>3, ActivateSpreads, SpreadsReasoned
    <1>4. ASSUME NEW t \in Thread, Restart(t) PROVE Reasoned(failed')
      BY <1>4, RestartSpreads, SpreadsReasoned
    <1>5. ASSUME NEW t \in Thread, NEW b \in Block, NEW requested \in BOOLEAN, ProcessNewBlock(t, b, requested)
          PROVE  Reasoned(failed')
      BY <1>1, <1>5, ProcessNewBlockSpreads, SpreadsReasoned
    <1>6. ASSUME NEW t \in Thread, NEW b \in Block, Invalidate(t, b) PROVE Reasoned(failed')
      BY <1>6, InvalidateSpreads, SpreadsReasoned
    <1>7. ASSUME NEW t \in Thread, NEW b \in Block, Reconsider(t, b) PROVE FALSE
      BY <1>7 DEF Reconsider, Command
    <1>8. ASSUME NEW t \in Thread, NEW b \in Block, Precious(t, b) PROVE UNCHANGED failed
      BY <1>8 DEF Precious
    <1>9. ASSUME NEW b \in Block, AcceptHeader(b) \/ Prune(b) PROVE UNCHANGED failed
      BY <1>9 DEF AcceptHeader, Prune
    <1>10. UNCHANGED vars => UNCHANGED failed
      BY DEF vars, index
    <1>11. QED
      BY <1>1, <1>2, <1>3, <1>4, <1>5, <1>6, <1>7, <1>8, <1>9, <1>10 DEF Next

(* Unless blocks are reconsidered, a mark always has its reason: a block   *)
(* marked invalid itself is below it ("The failed mask cannot be set for   *)
(* blocks without invalid parents", CheckBlockIndex), however many threads *)
(* run and however invalidations, restarts and late headers interleave.    *)
THEOREM FailuresHaveReasons ==
    ASSUME "reconsider" \notin Commands
    PROVE  Spec => []FailedHasReason
    <1>1. Init => Reasoned(failed)
      BY DEF Init, Reasoned, Marked
    <1>2. IndexInv /\ Reversed /\ Reasoned(failed) /\ [Next]_vars => Reasoned(failed)'
      BY NextReasoned
    <1>3. IndexInv /\ Reasoned(failed) => FailedHasReason
      BY Typed DEF Reasoned, Marked, FailedHasReason, HasInvalid, IndexInv
    <1>4. QED
      BY <1>1, <1>2, <1>3, IndexInvariant, PTL DEF Spec

-----------------------------------------------------------------------------
(* The active chain.  The next theorems hold for a single caller of        *)
(* ActivateBestChain, or for any number if no block is invalidated.        *)
OneThread == \A t, u \in Thread : t = u
Undisturbed == OneThread \/ "invalidate" \notin Commands

(* A linked block with a marked block below, or marked itself, is above a  *)
(* block that does not connect.                                            *)
LEMMA GoodIsUnmarked ==
    ASSUME IndexInv, NEW flags, BadBelow(flags), NEW x \in Block, linked[x], Ancestors[x] \cap BadConnect = {}
    PROVE  flags[x] = {}
    <1>1. \A a \in Ancestors[x] : a \notin BadContext
      BY LinkedDown DEF IndexInv, Rooted
    <1>2. QED
      BY <1>1 DEF BadBelow, Marked

(* Marks that only spread stay below bad blocks.                           *)
LEMMA SpreadsBadBelow ==
    ASSUME BadBelow(failed), NEW S, S \subseteq BadContext \cup BadConnect, Spreads(S)
    PROVE  BadBelow(failed')
    <1> SUFFICES ASSUME NEW x \in Block, failed'[x] # {}
                 PROVE  Ancestors[x] \cap (BadContext \cup BadConnect) # {}
      BY DEF BadBelow, Marked
    <1>1. CASE failed'[x] = failed[x]
      BY <1>1 DEF BadBelow, Marked
    <1>2. CASE x \in S
      BY <1>2, AncestorsEnds
    <1>3. ASSUME NEW a \in Ancestors[x], failed[a] # {}
          PROVE  Ancestors[x] \cap (BadContext \cup BadConnect) # {}
      <2>1. a \in Block /\ Ancestors[a] \subseteq Ancestors[x]
        BY AncestorsTransitive, AncestorsIs
      <2>2. QED
        BY <1>3, <2>1 DEF BadBelow, Marked
    <1>4. QED
      BY <1>1, <1>2, <1>3 DEF Spreads

(* Steps that leave the tip and the marks alone.                           *)
LEMMA ChainStays ==
    ASSUME IndexInv, ChainInv, UNCHANGED <<tip, failed>>,
           \A b \in Block : valid'[b] = VALID_SCRIPTS <=> valid[b] = VALID_SCRIPTS,
           \A t \in Thread : mostWork'[t] = mostWork[t] \/ mostWork'[t] = None
    PROVE  ChainInv'
    <1>1. tip \in Block /\ \A b \in Block : Ancestors[b] \subseteq Block
      BY Typed, AncestorsIs DEF IndexInv
    <1>2. NoFailedInChain' /\ (Chain' = Chain)
      BY DEF ChainInv, NoFailedInChain, Chain
    <1>3. TargetsClean => TargetsClean'
      BY <1>2 DEF TargetsClean
    <1>4. ChainGood => ChainGood'
      BY <1>2 DEF ChainGood
    <1>5. valid'[tip'] = VALID_SCRIPTS
          /\ \A b \in Block : valid'[b] = VALID_SCRIPTS => \A a \in Ancestors[b] : valid'[a] = VALID_SCRIPTS
      BY <1>1 DEF ChainInv
    <1>6. QED
      BY <1>2, <1>3, <1>4, <1>5 DEF ChainInv

(* Steps that mark blocks but leave the tip alone.                         *)
LEMMA ChainMarked ==
    ASSUME IndexInv, ChainInv, UNCHANGED <<tip, valid>>,
           NEW S, Spreads(S), S \subseteq BadContext \cup BadConnect,
           \A x \in Chain : failed'[x] = failed[x],
           "invalidate" \in Commands => TargetsClean'
    PROVE  ChainInv'
    <1>1. Chain' = Chain
      BY DEF Chain
    <1>2. NoFailedInChain'
      BY <1>1 DEF ChainInv, NoFailedInChain
    <1>3. "invalidate" \notin Commands => BadBelow(failed') /\ ChainGood'
      BY <1>1, SpreadsBadBelow DEF ChainInv, ChainGood
    <1>4. QED
      BY <1>2, <1>3 DEF ChainInv

(* ChainInv, operation by operation.                                       *)
LEMMA RejectHeaderChain ==
    ASSUME IndexInv, ChainInv, NEW b \in Block, RejectHeader(b)
    PROVE  ChainInv'
    <1>1. UNCHANGED <<tip, valid, mostWork>>
      BY DEF RejectHeader, threads
    <1>2. CASE UNCHANGED failed
      BY <1>1, <1>2, ChainStays
    <1>3. CASE ~UNCHANGED failed
      <2>1. PICK f \in failedBlocks \cap Ancestors[Parent[b]] :
                 /\ "VALID" \in failed[f]
                 /\ failed' = [x \in Block |-> IF x \in MarkedPath(b, f) THEN failed[x] \cup {"CHILD"} ELSE failed[x]]
                 /\ \A x \in MarkedPath(b, f) : x \in Block /\ f \in Ancestors[x]
        BY <1>3, RejectHeaderMarks
      <2>2. tip \in Block /\ Chain \subseteq Block /\ failed[f] # {}
        BY <2>1, Typed, AncestorsEnds DEF IndexInv, Chain
      <2>3. f \notin Chain
        BY <2>2 DEF ChainInv, NoFailedInChain
      <2>4. ASSUME NEW x \in Chain PROVE failed'[x] = failed[x]
        <3>1. f \in Ancestors[x] => f \in Chain
          BY <2>2, AncestorsTransitive DEF Chain
        <3>2. QED
          BY <2>1, <2>2, <2>3, <3>1
      <2>5. TargetsClean => TargetsClean'
        <3>1. SUFFICES ASSUME TargetsClean, NEW u \in Thread, mostWork[u] # None,
                              NEW x \in Ancestors[mostWork[u]] \ Chain
                       PROVE  failed'[x] = {}
          BY <1>1 DEF TargetsClean, Chain
        <3>2. mostWork[u] \in Block /\ x \in Block
          BY <3>1, AncestorsIs DEF IndexInv, TypeOK
        <3>3. failed[x] = {}
          BY <3>1 DEF TargetsClean
        <3>4. x \notin MarkedPath(b, f)
          <4>1. ASSUME x \in MarkedPath(b, f) PROVE FALSE
            <5>1. f \in Ancestors[mostWork[u]]
              BY <4>1, <2>1, <3>1, <3>2, AncestorsTransitive
            <5>2. QED
              BY <5>1, <2>2, <2>3, <3>1 DEF TargetsClean
          <4>2. QED
            BY <4>1
        <3>5. QED
          BY <2>1, <3>2, <3>3, <3>4
      <2>6. Spreads({}) /\ {} \subseteq BadContext \cup BadConnect
        BY RejectHeaderSpreads
      <2>7. "invalidate" \in Commands => TargetsClean'
        BY <2>5 DEF ChainInv
      <2>8. QED
        BY <1>1, <2>4, <2>6, <2>7, ChainMarked
    <1>4. QED
      BY <1>2, <1>3

(* ProcessNewBlock marks nothing on the active chain.                      *)
LEMMA ProcessNewBlockChain ==
    ASSUME IndexInv, ChainInv, NEW t \in Thread, NEW b \in Block, NEW requested \in BOOLEAN,
           ProcessNewBlock(t, b, requested)
    PROVE  ChainInv'
    <1>1. UNCHANGED tip /\ HeaderOk(b) /\ b # Genesis
      BY DEF ProcessNewBlock
    <1>2. \A x \in Block : valid'[x] = VALID_SCRIPTS <=> valid[x] = VALID_SCRIPTS
      <2>1. CASE valid' = ValidWith(b)
        <3>1. b \notin known => valid[b] = 0
          BY DEF IndexInv, Unseen
        <3>2. QED
          BY <1>1, <2>1, <3>1, HeaderIs DEF VALID_TREE, VALID_SCRIPTS
      <2>2. CASE Arrives(b)
        BY <2>2, ArrivesIs
      <2>3. QED
        BY <1>1, <2>1, <2>2 DEF ProcessNewBlock, Arrives
    <1>3. \A u \in Thread : mostWork'[u] = mostWork[u] \/ mostWork'[u] = None
      <2>1. EnterActivation(t) \/ UNCHANGED mostWork
        BY DEF ProcessNewBlock, threads
      <2>2. QED
        BY <2>1, EnterIs
    <1>4. CASE UNCHANGED failed
      BY <1>1, <1>2, <1>3, <1>4, ChainStays
    <1>5. CASE ~UNCHANGED failed
      <2>1. /\ b \in BadContext /\ Spreads({b})
            /\ \A x \in Block \ {b} : failed'[x] = failed[x]
        BY <1>5, ProcessNewBlockSpreads
      <2>2. ~linked[b] /\ tip \in Block /\ linked[tip]
        BY <2>1, Typed DEF IndexInv, Rooted, UsesLinked
      <2>3. b \notin Chain /\ Chain \subseteq Block
        BY <2>2, LinkedDown, AncestorsEnds DEF Chain
      <2>4. TargetsClean => TargetsClean'
        <3>1. SUFFICES ASSUME TargetsClean, NEW u \in Thread, mostWork[u] # None,
                              NEW x \in Ancestors[mostWork[u]] \ Chain
                       PROVE  failed'[x] = {}
          BY <1>1, <1>3 DEF TargetsClean, Chain
        <3>2. mostWork[u] \in Block /\ linked[mostWork[u]]
          BY <3>1 DEF IndexInv, TypeOK, UsesLinked
        <3>3. x \in Block /\ x # b
          BY <3>1, <3>2, <2>2, LinkedDown
        <3>4. QED
          BY <3>1, <3>3, <2>1 DEF TargetsClean
      <2>v. UNCHANGED valid \/ \A x \in Block : valid'[x] = VALID_SCRIPTS <=> valid[x] = VALID_SCRIPTS
        BY <1>2
      <2>5. Chain' = Chain
        BY <1>1 DEF Chain
      <2>6. NoFailedInChain'
        BY <2>1, <2>3, <2>5 DEF ChainInv, NoFailedInChain
      <2>7. "invalidate" \notin Commands => BadBelow(failed') /\ ChainGood'
        BY <2>1, <2>5, SpreadsBadBelow DEF ChainInv, ChainGood
      <2>8. /\ valid'[tip'] = VALID_SCRIPTS
            /\ \A x \in Block : valid'[x] = VALID_SCRIPTS => \A a \in Ancestors[x] : valid'[a] = VALID_SCRIPTS
        BY <1>1, <1>2, <2>2, AncestorsIs DEF ChainInv
      <2>9. QED
        BY <2>4, <2>6, <2>7, <2>8 DEF ChainInv
    <1>6. QED
      BY <1>4, <1>5


(* Marks below which a block failed to connect are below a bad block.      *)
LEMMA MarksBadBelow ==
    ASSUME BadBelow(failed), NEW flags, Marks(flags)
    PROVE  BadBelow(flags)
    <1> SUFFICES ASSUME NEW x \in Block, flags[x] # {}
                 PROVE  Ancestors[x] \cap (BadContext \cup BadConnect) # {}
      BY DEF BadBelow, Marked
    <1>1. CASE flags[x] = failed[x]
      BY <1>1 DEF BadBelow, Marked
    <1>2. ASSUME NEW a \in Ancestors[x], failed[a] # {}
          PROVE  Ancestors[x] \cap (BadContext \cup BadConnect) # {}
      <2>1. a \in Block /\ Ancestors[a] \subseteq Ancestors[x]
        BY AncestorsTransitive, AncestorsIs
      <2>2. QED
        BY <1>2, <2>1 DEF BadBelow, Marked
    <1>3. QED
      BY <1>1, <1>2 DEF Marks

(* A step of ActivateBestChain connects no marked block: without           *)
(* invalidateblock because a marked block would not connect; with one      *)
(* thread because the target was clean when it was chosen and nobody else  *)
(* could mark a block since.                                               *)
LEMMA StepConnectsClean ==
    ASSUME IndexInv, ChainInv, Undisturbed, NEW t \in Thread, NEW found \in Found(t),
           NEW target, target = Target(t, found), target \in Block, ~DataGone(target),
           NEW x \in Ancestors[StepTip(target)] \ Chain
    PROVE  x \in Block /\ failed[x] = {} /\ found.failed[x] = {} /\ x \notin BadConnect
    <1>1. /\ Follows(found) /\ linked[target] /\ target # None
          /\ mostWork[t] = None => Unusable(target, found.failed) = {}
          /\ mostWork[t] # None => found = Start /\ target = mostWork[t]
      BY TargetIs, OtherAssumption
    <1>2. PICK newTip : newTip = StepTip(target)
      OBVIOUS
    <1>3. /\ newTip \in Block /\ linked[newTip] /\ x \in Block /\ x \in Path(target) /\ linked[x]
          /\ \A y \in Ancestors[newTip] \ Chain : y \notin BadConnect
          /\ x \in Ancestors[newTip]
      BY <1>1, <1>2, StepIs
    <1>4. Marks(found.failed) /\ failed[x] \subseteq found.failed[x]
      BY <1>1, <1>3 DEF Follows, Marks
    <1>5. CASE "invalidate" \notin Commands
      <2>1. BadBelow(failed) /\ ChainGood
        BY <1>5 DEF ChainInv
      <2>2. BadBelow(found.failed)
        BY <2>1, <1>4, MarksBadBelow
      <2>3. Ancestors[x] \cap BadConnect = {}
        <3>1. Ancestors[x] \subseteq Ancestors[newTip]
          BY <1>3, AncestorsTransitive
        <3>2. QED
          BY <3>1, <2>1, <1>3 DEF ChainGood
      <2>4. QED
        BY <2>1, <2>2, <2>3, <1>3, <1>2, GoodIsUnmarked
    <1>6. CASE "invalidate" \in Commands
      <2>1. CASE mostWork[t] = None
        <3>1. found.failed[x] = {}
          BY <1>1, <1>3, <2>1 DEF Unusable, Path
        <3>2. QED
          BY <3>1, <1>2, <1>3, <1>4
      <2>2. CASE mostWork[t] # None
        <3>1. found.failed = failed /\ target = mostWork[t]
          BY <1>1, <2>2 DEF Start
        <3>2. failed[x] = {}
          BY <3>1, <2>2, <1>3, <1>6 DEF ChainInv, TargetsClean, Path
        <3>3. QED
          BY <3>1, <3>2, <1>2, <1>3
      <2>3. QED
        BY <2>1, <2>2
    <1>7. QED
      BY <1>5, <1>6

(* Nothing on the way to the target of a step is marked, if blocks may be  *)
(* invalidated but there is only one thread.                               *)
LEMMA StepTargetClean ==
    ASSUME IndexInv, ChainInv, "invalidate" \in Commands, NEW t \in Thread, NEW found \in Found(t),
           NEW target, target = Target(t, found), target \in Block, NEW x \in Ancestors[target] \ Chain
    PROVE  found.failed[x] = {}
    <1>1. /\ target # None
          /\ mostWork[t] = None => Unusable(target, found.failed) = {}
          /\ mostWork[t] # None => found = Start /\ target = mostWork[t]
      BY TargetIs, OtherAssumption
    <1>2. CASE mostWork[t] = None
      BY <1>1, <1>2 DEF Unusable
    <1>3. CASE mostWork[t] # None
      <2>1. found.failed = failed
        BY <1>1, <1>3 DEF Start
      <2>2. QED
        BY <2>1, <1>1, <1>3 DEF ChainInv, TargetsClean
    <1>4. QED
      BY <1>2, <1>3

(* What ActivateBestChain connects is not marked.                          *)
LEMMA ActivateChain ==
    ASSUME IndexInv, ChainInv, Undisturbed, NEW t \in Thread, Activate(t)
    PROVE  ChainInv'
    <1>f. PICK found \in Found(t) : \E target :
             /\ target = Target(t, found)
             /\ \/ ActivateDone(t, found, target)
                \/ ActivateAborts(t, found, target)
                \/ ActivateStep(t, found, target)
      BY ActivateFound
    <1>1. PICK target : /\ target = Target(t, found)
                        /\ \/ ActivateDone(t, found, target)
                           \/ ActivateAborts(t, found, target)
                           \/ ActivateStep(t, found, target)
      BY <1>f
    <1>2. Follows(found) /\ (target # None => target \in Block /\ linked[target])
      BY <1>1, TargetIs
    <1>3. /\ found.failed \in [Block -> SUBSET {"VALID", "CHILD"}] /\ Marks(found.failed)
          /\ mostWork \in [Thread -> Block \cup {None}]
          /\ valid \in [Block -> {0, VALID_TREE, VALID_TRANSACTIONS, VALID_SCRIPTS}]
          /\ tip \in Block /\ Chain \subseteq Block
      BY <1>2, Typed, AncestorsEnds DEF Follows, SearchState, IndexInv, TypeOK, Chain
    <1>4. \A x \in Chain : found.failed[x] = failed[x]
      BY <1>3 DEF Marks
    <1> DEFINE S == {x \in BadConnect : linked[x]}
    <1>5. Spreads(S) /\ S \subseteq BadContext \cup BadConnect
      BY ActivateSpreads
    <1>6. "invalidate" \in Commands => \A u \in Thread : u = t
      BY DEF Undisturbed, OneThread
    <1> HIDE DEF S
    <1>7. CASE ActivateDone(t, found, target)
      <2>1. UNCHANGED <<tip, valid>> /\ failed' = found.failed /\ mostWork' = [mostWork EXCEPT ![t] = None]
        BY <1>7 DEF ActivateDone, LeaveActivation
      <2>2. "invalidate" \in Commands => TargetsClean'
        BY <2>1, <1>3, <1>6 DEF TargetsClean
      <2>3. QED
        BY <2>1, <2>2, <1>4, <1>5, ChainMarked
    <1>8. CASE ActivateAborts(t, found, target)
      BY <1>8, ChainStays DEF ActivateAborts, index, threads
    <1>9. CASE ActivateStep(t, found, target)
      <2>1. target \in Block /\ linked[target] /\ ~DataGone(target)
        BY <1>2, <1>9, SteppedIs
      <2>2. PICK newTip : newTip = StepTip(target)
        OBVIOUS
      <2>3. PICK kept : Stepped(t, found, target, newTip, kept)
        BY <1>9, <2>2, SteppedIs
      <2>4. PICK last : last = StepLast(target)
        OBVIOUS
      <2>5. /\ newTip \in Block /\ Ancestors[newTip] \subseteq Block
            /\ StepInvalid(target) => last \notin Ancestors[newTip] /\ last \in Block
        BY <2>1, <2>2, <2>4, StepIs, AncestorsEnds
      <2>6. \A x \in Ancestors[newTip] \ Chain :
                failed[x] = {} /\ found.failed[x] = {} /\ x \notin BadConnect
        BY <1>1, <2>1, <2>2, StepConnectsClean
      <2>7. /\ tip' = newTip /\ Chain' = Ancestors[newTip]
            /\ valid' = [x \in Block |-> IF x \in Ancestors[newTip] \ Chain /\ failed[x] = {}
                                         THEN VALID_SCRIPTS ELSE valid[x]]
        BY <2>3 DEF Stepped, Chain
      <2>8. \A x \in Block : failed'[x] = found.failed[x] \/ (StepInvalid(target) /\ x = last)
        BY <2>3, <2>4, <2>5, <1>3 DEF Stepped
      <2>9. NoFailedInChain'
        <3>1. ASSUME NEW x \in Ancestors[newTip] PROVE failed'[x] = {}
          <4>1. x \in Block /\ failed'[x] = found.failed[x]
            BY <2>5, <2>8
          <4>2. x \in Chain => found.failed[x] = {}
            BY <1>4 DEF ChainInv, NoFailedInChain
          <4>3. QED
            BY <4>1, <4>2, <2>6
        <3>2. QED
          BY <3>1, <2>7 DEF NoFailedInChain
      <2>10. /\ \A x \in Ancestors[newTip] : valid'[x] = VALID_SCRIPTS
             /\ \A x \in Block \ Ancestors[newTip] : valid'[x] = valid[x]
             /\ \A x \in Block : valid[x] = VALID_SCRIPTS => valid'[x] = VALID_SCRIPTS
        <3>1. \A x \in Chain : valid[x] = VALID_SCRIPTS
          BY <1>3 DEF ChainInv, Chain
        <3>2. QED
          BY <3>1, <2>5, <2>6, <2>7
      <2>11. ASSUME NEW x \in Block, valid'[x] = VALID_SCRIPTS, NEW a \in Ancestors[x]
             PROVE  valid'[a] = VALID_SCRIPTS
        <3>1. CASE x \in Ancestors[newTip]
          BY <3>1, <2>5, <2>10, AncestorsTransitive
        <3>2. CASE x \notin Ancestors[newTip]
          BY <3>2, <2>10, <2>11, AncestorsIs DEF ChainInv
        <3>3. QED
          BY <3>1, <3>2
      <2>12. valid'[tip'] = VALID_SCRIPTS
        BY <2>5, <2>7, <2>10, AncestorsEnds
      <2>13. "invalidate" \notin Commands => BadBelow(failed') /\ ChainGood'
        BY <2>6, <2>7, <1>5, SpreadsBadBelow DEF ChainInv, ChainGood
      <2>14. ASSUME "invalidate" \in Commands PROVE TargetsClean'
        <3>1. SUFFICES ASSUME NEW u \in Thread, mostWork'[u] # None, NEW x \in Ancestors[mostWork'[u]] \ Chain'
                       PROVE  failed'[x] = {}
          BY DEF TargetsClean
        <3>2. u = t
          BY <2>14, <1>6
        <3>3. mostWork'[t] = target /\ ~StepInvalid(target)
          BY <3>1, <3>2, <2>3, <1>3 DEF Stepped
        <3>4. x \in Ancestors[target] /\ x \in Block /\ failed'[x] = found.failed[x]
          BY <3>1, <3>2, <3>3, <2>1, <2>8, AncestorsEnds
        <3>5. CASE x \in Chain
          BY <3>4, <3>5, <1>4 DEF ChainInv, NoFailedInChain
        <3>6. CASE x \notin Chain
          BY <3>4, <3>6, <2>1, <2>14, <1>1, StepTargetClean
        <3>7. QED
          BY <3>5, <3>6
      <2>15. QED
        BY <2>9, <2>11, <2>12, <2>13, <2>14 DEF ChainInv
    <1>10. QED
      BY <1>1, <1>7, <1>8, <1>9

(* A new header is in no chain yet.                                        *)
LEMMA AcceptHeaderChain ==
    ASSUME IndexInv, ChainInv, NEW b \in Block, AcceptHeader(b)
    PROVE  ChainInv'
    <1>1. HeaderOk(b) /\ b \notin known /\ valid' = ValidWith(b) /\ UNCHANGED <<tip, failed, mostWork>>
      BY DEF AcceptHeader, threads
    <1>2. \A x \in Block : valid'[x] = VALID_SCRIPTS <=> valid[x] = VALID_SCRIPTS
      <2>1. valid[b] = 0
        BY <1>1 DEF IndexInv, Unseen
      <2>2. QED
        BY <1>1, <2>1, HeaderIs DEF VALID_TREE, VALID_SCRIPTS
    <1>3. QED
      BY <1>1, <1>2, ChainStays

(* InvalidateBlock leaves an active chain below the block it marks.        *)
LEMMA InvalidateChain ==
    ASSUME IndexInv, ChainInv, Undisturbed, NEW t \in Thread, NEW b \in Block, Invalidate(t, b)
    PROVE  ChainInv'
    <1>1. UNCHANGED valid /\ EnterActivation(t) /\ "invalidate" \in Commands
      BY CommandIs DEF Invalidate
    <1>2. \A u \in Thread : mostWork'[u] = None
      BY <1>1, EnterIs DEF Undisturbed, OneThread
    <1>3. TargetsClean'
      BY <1>2 DEF TargetsClean
    <1>4. tip' \in Chain /\ tip \in Block
      BY InvalidateIs, Typed DEF IndexInv
    <1>5. tip' \in Block /\ Ancestors[tip'] \subseteq Chain
      BY <1>4, AncestorsTransitive, AncestorsIs DEF Chain
    <1>6. \A x \in Ancestors[tip'] : failed'[x] = failed[x]
      BY InvalidateIs
    <1>7. NoFailedInChain'
      BY <1>5, <1>6 DEF ChainInv, NoFailedInChain, Chain
    <1>8. valid'[tip'] = VALID_SCRIPTS
      BY <1>1, <1>4 DEF ChainInv, Chain
    <1>9. QED
      BY <1>1, <1>3, <1>7, <1>8 DEF ChainInv

(* Clearing marks does not put one on the chain.                           *)
LEMMA ReconsiderChain ==
    ASSUME IndexInv, ChainInv, NEW t \in Thread, NEW b \in Block, Reconsider(t, b)
    PROVE  ChainInv'
    <1>1. UNCHANGED <<valid, tip>> /\ EnterActivation(t)
      BY DEF Reconsider
    <1>2. \A u \in Thread : mostWork'[u] = mostWork[u] \/ mostWork'[u] = None
      BY <1>1, EnterIs
    <1>3. \A x \in Block : failed'[x] = failed[x] \/ failed'[x] = {}
      BY Typed DEF Reconsider, IndexInv
    <1>4. Chain' = Chain /\ Chain \subseteq Block
      BY <1>1, Typed, AncestorsEnds DEF Chain, IndexInv
    <1>5. NoFailedInChain'
      BY <1>3, <1>4 DEF ChainInv, NoFailedInChain
    <1>6. TargetsClean => TargetsClean'
      <2>1. \A u \in Thread : mostWork[u] # None => Ancestors[mostWork[u]] \subseteq Block
        BY AncestorsIs DEF IndexInv, TypeOK
      <2>2. QED
        BY <2>1, <1>2, <1>3, <1>4 DEF TargetsClean
    <1>7. (BadBelow(failed) => BadBelow(failed')) /\ (ChainGood => ChainGood')
      BY <1>3, <1>4 DEF BadBelow, Marked, ChainGood
    <1>8. QED
      BY <1>1, <1>5, <1>6, <1>7 DEF ChainInv

(* A restart keeps the tip and marks nothing on its chain.                 *)
LEMMA RestartChain ==
    ASSUME IndexInv, ChainInv, NEW t \in Thread, Restart(t)
    PROVE  ChainInv'
    <1>1. UNCHANGED <<tip, valid>> /\ mostWork' = [x \in Thread |-> None]
      BY DEF Restart
    <1>2. TargetsClean'
      BY <1>1 DEF TargetsClean
    <1>3. tip \in Block /\ Chain \subseteq Block
      BY Typed, AncestorsEnds DEF IndexInv, Chain
    <1>4. ASSUME NEW x \in Chain PROVE failed'[x] = failed[x]
      <2>1. \A a \in Ancestors[x] : failed[a] = {}
        BY <1>3, AncestorsTransitive DEF ChainInv, NoFailedInChain, Chain
      <2>2. QED
        BY <2>1, <1>3, RestartIs
    <1>5. Spreads({}) /\ {} \subseteq BadContext \cup BadConnect
      BY RestartSpreads
    <1>6. QED
      BY <1>1, <1>2, <1>4, <1>5, ChainMarked

(* ChainInv is inductive for one caller, or without invalidateblock.       *)
LEMMA NextChain ==
    ASSUME IndexInv, ChainInv, Undisturbed, [Next]_vars
    PROVE  ChainInv'
    <1>1. ASSUME UNCHANGED vars PROVE ChainInv'
      BY <1>1, ChainStays DEF vars, index, threads
    <1>2. ASSUME NEW b \in Block, Prune(b) PROVE ChainInv'
      BY <1>2, ChainStays DEF Prune, threads
    <1>3. ASSUME NEW t \in Thread, NEW b \in Block, Precious(t, b) PROVE ChainInv'
      <2>1. UNCHANGED <<tip, failed, valid>> /\ EnterActivation(t)
        BY <1>3 DEF Precious
      <2>2. QED
        BY <2>1, EnterIs, ChainStays
    <1>4. QED
      BY <1>1, <1>2, <1>3, AcceptHeaderChain, RejectHeaderChain, ActivateChain, RestartChain,
         ProcessNewBlockChain, InvalidateChain, ReconsiderChain DEF Next

(* Genesis is connected and not marked.                                    *)
LEMMA InitChain == Init => ChainInv
    <1> SUFFICES ASSUME Init PROVE ChainInv
      OBVIOUS
    <1>1. /\ tip = Genesis /\ Chain = {Genesis} /\ mostWork = [t \in Thread |-> None]
          /\ failed = [b \in Block |-> {}]
          /\ valid = [b \in Block |-> IF b = Genesis THEN VALID_SCRIPTS ELSE 0]
      BY AncestorsIs DEF Init, Chain
    <1>2. Genesis \in Block /\ Genesis \notin BadConnect
      BY TreeAssumption, OtherAssumption
    <1>3. NoFailedInChain /\ TargetsClean /\ BadBelow(failed) /\ ChainGood
      BY <1>1, <1>2 DEF NoFailedInChain, TargetsClean, BadBelow, Marked, ChainGood
    <1>4. \A b \in Block : valid[b] = VALID_SCRIPTS => \A a \in Ancestors[b] : valid[a] = VALID_SCRIPTS
      BY <1>1, AncestorsIs DEF VALID_SCRIPTS
    <1>5. QED
      BY <1>1, <1>2, <1>3, <1>4 DEF ChainInv

(* ChainInv in every reachable state.                                      *)
LEMMA ChainInvariant ==
    ASSUME Undisturbed
    PROVE  Spec => []ChainInv
    <1>1. IndexInv /\ Reversed /\ ChainInv /\ [Next]_vars => ChainInv'
      BY NextChain
    <1>2. QED
      BY <1>1, InitChain, IndexInvariant, PTL DEF Spec

(* The active chain holds no block that is marked invalid, wherever        *)
(* ActivateBestChain releases cs_main between two of its steps, if it has  *)
(* one caller, or any number but no block is invalidated in between.       *)
THEOREM ChainNotFailed ==
    ASSUME Undisturbed
    PROVE  Spec => []NoFailedInChain
    <1>1. ChainInv => NoFailedInChain
      BY DEF ChainInv
    <1>2. QED
      BY <1>1, ChainInvariant, PTL

(* CheckBlockIndex on what a block's status, nTx, nChainTx and undo data   *)
(* say of each other and of its ancestors, under the same condition: a     *)
(* linked block's ancestors were all received, a fully valid block's       *)
(* ancestors are fully valid.                                              *)
THEOREM FieldsAreConsistent ==
    ASSUME Undisturbed
    PROVE  Spec => []FieldsConsistent
    <1>1. ASSUME IndexInv, ChainInv PROVE FieldsConsistent
      <2>1. SUFFICES ASSUME NEW b \in known
                     PROVE  /\ ~linked[b] => sequenceId[b] <= 0
                            /\ IF havePruned THEN data[b] => processed[b] ELSE data[b] = processed[b]
                            /\ undo[b] => data[b]
                            /\ (valid[b] >= VALID_TRANSACTIONS) = processed[b]
                            /\ linked[b] => ~HasUnprocessed(b)
                            /\ valid[b] = VALID_SCRIPTS => \A a \in Ancestors[b] : valid[a] = VALID_SCRIPTS
        BY DEF FieldsConsistent
      <2>2. b \in Block /\ data[b] \in BOOLEAN /\ processed[b] \in BOOLEAN /\ (valid[b] >= VALID_TRANSACTIONS) \in BOOLEAN
        BY <1>1, Typed DEF IndexInv
      <2>3. /\ ~linked[b] => sequenceId[b] <= 0
            /\ undo[b] => data[b]
            /\ data[b] => processed[b]
            /\ ~havePruned => (processed[b] => data[b])
            /\ valid[b] >= VALID_TRANSACTIONS <=> processed[b]
        BY <1>1 DEF IndexInv, Received
      <2>4. IF havePruned THEN data[b] => processed[b] ELSE data[b] = processed[b]
        <3>1. ~havePruned => data[b] = processed[b]
          BY <2>2, <2>3
        <3>2. QED
          BY <2>3, <3>1
      <2>5. (valid[b] >= VALID_TRANSACTIONS) = processed[b]
        BY <2>2, <2>3
      <2>6. linked[b] => ~HasUnprocessed(b)
        BY <1>1, <2>2, LinkedDown DEF HasUnprocessed
      <2>7. valid[b] = VALID_SCRIPTS => \A a \in Ancestors[b] : valid[a] = VALID_SCRIPTS
        BY <1>1, <2>2 DEF ChainInv
      <2>8. QED
        BY <2>3, <2>4, <2>5, <2>6, <2>7
    <1>2. QED
      BY <1>1, IndexInvariant, ChainInvariant, PTL

-----------------------------------------------------------------------------
(* Stored blocks and mapBlocksUnlinked, when no block is invalidated or    *)
(* reconsidered by hand.                                                   *)
Unforced == "invalidate" \notin Commands /\ "reconsider" \notin Commands

(* What no step but a restart undoes: a barred block stays so.             *)
KeepsDoomed == \A a \in Block : Barred(a) => Barred(a)'

(* A doomed block stays doomed.                                            *)
LEMMA DoomedStays ==
    ASSUME KeepsDoomed, NEW b \in Block, Doomed(b)
    PROVE  Doomed(b)'
    BY AncestorsEnds DEF KeepsDoomed, Doomed

(* The blocks above a doomed block are doomed.                             *)
LEMMA DoomedAbove ==
    ASSUME NEW b \in Block, NEW a \in Ancestors[b], Doomed(a)
    PROVE  Doomed(b)
    BY AncestorsTransitive DEF Doomed

(* A barred block is not on disk and waits for nothing.                    *)
LEMMA BarredIs ==
    ASSUME IndexInv, LinkInv, NEW a \in Block, Barred(a)
    PROVE  /\ a # Genesis /\ ~data[a] /\ ~linked[a] /\ failed[a] # {}
           /\ <<Parent[a], a>> \notin unlinked
    <1>1. ~data[a] /\ ~linked[a] /\ failed[a] # {}
      BY DEF Barred, Forgotten, IndexInv, Rooted, Received, Unseen
    <1>2. a # Genesis
      BY <1>1 DEF IndexInv, Rooted
    <1>3. CASE ~processed[a]
      <2>1. SUFFICES ASSUME <<Parent[a], a>> \in unlinked PROVE FALSE
        BY <1>1, <1>2
      <2>2. PICK x \in known : <<Parent[a], a>> = <<Parent[x], x>> /\ processed[x]
        BY <2>1 DEF IndexInv, Rooted
      <2>3. QED
        BY <2>2, <1>3
    <1>4. CASE linked[Parent[a]]
      BY <1>1, <1>2, <1>4 DEF LinkInv
    <1>5. QED
      BY <1>1, <1>2, <1>3, <1>4 DEF Barred

(* Steps that receive and take no data and mark more blocks.               *)
LEMMA BarredStays ==
    ASSUME UNCHANGED <<data, processed, linked>>, \A x \in Block : failed[x] \subseteq failed'[x]
    PROVE  KeepsDoomed
    BY DEF KeepsDoomed, Barred, Forgotten

(* Steps that also drop no entry of mapBlocksUnlinked, put only linked     *)
(* blocks there and mark only linked blocks.                               *)
LEMMA LinkStays ==
    ASSUME IndexInv, LinkInv, UNCHANGED <<data, processed, linked>>, unlinked \subseteq unlinked',
           \A x \in Block \ {Genesis} : <<Parent[x], x>> \in unlinked' => <<Parent[x], x>> \in unlinked \/ linked[x],
           \A x \in Block : failed[x] \subseteq failed'[x],
           \A x \in Block : failed'[x] # failed[x] => linked[x]
    PROVE  LinkInv'
    <1>1. KeepsDoomed
      BY BarredStays
    <1>2. \A x \in Block : Doomed(x) => Doomed(x)'
      BY <1>1, DoomedStays
    <1>3. \A x \in Block : ~linked'[x] /\ failed'[x] # {} => Doomed(x)'
      BY <1>2 DEF LinkInv
    <1>4. \A x \in Block \ {Genesis} : data'[x] /\ ~linked'[x] => <<Parent[x], x>> \in unlinked' \/ Doomed(x)'
      BY <1>2 DEF LinkInv
    <1>5. /\ \A x \in Block \ {Genesis} : data'[x] /\ linked'[Parent[x]] => linked'[x]
          /\ \A x \in Block \ {Genesis} : <<Parent[x], x>> \in unlinked' /\ linked'[Parent[x]] => linked'[x]
      BY DEF LinkInv
    <1>6. QED
      BY <1>3, <1>4, <1>5 DEF LinkInv

(* The path a refused header marks leads to a block that will never be     *)
(* linked, if it leads out of the linked blocks.                           *)
LEMMA RejectHeaderLink ==
    ASSUME IndexInv, LinkInv, NEW b \in Block, RejectHeader(b)
    PROVE  LinkInv'
    <1>1. UNCHANGED <<data, processed, linked, unlinked>>
      BY DEF RejectHeader, sets
    <1>2. CASE UNCHANGED failed
      BY <1>1, <1>2, LinkStays
    <1>3. CASE ~UNCHANGED failed
      <2>1. PICK f \in failedBlocks \cap Ancestors[Parent[b]] :
                 /\ "VALID" \in failed[f]
                 /\ failed' = [x \in Block |-> IF x \in MarkedPath(b, f) THEN failed[x] \cup {"CHILD"} ELSE failed[x]]
                 /\ \A x \in MarkedPath(b, f) : x \in Block /\ f \in Ancestors[x]
        BY <1>3, RejectHeaderMarks
      <2>2. failed[f] # {} /\ f \in Block /\ Parent[b] \in Block
        BY <2>1, AncestorsIs, TreeAssumption
      <2>3. \A x \in Block : failed[x] \subseteq failed'[x]
        BY <2>1
      <2>4. KeepsDoomed
        BY <1>1, <2>3, BarredStays
      <2>5. \A x \in Block : Doomed(x) => Doomed(x)'
        BY <2>4, DoomedStays
      <2>6. ASSUME NEW x \in MarkedPath(b, f), ~linked[x] PROVE Doomed(x)'
        <3>1. x \in Block /\ f \in Ancestors[x] /\ x \in Ancestors[Parent[b]]
          BY <2>1 DEF MarkedPath
        <3>2. CASE ~linked[f]
          <4>1. Doomed(f)
            BY <3>2, <2>2 DEF LinkInv
          <4>2. QED
            BY <4>1, <3>1, <2>5, DoomedAbove
        <3>3. CASE linked[f]
          <4> DEFINE L == {z \in Block : linked[z]}
          <4>1. Genesis \in L /\ x \notin L
            BY <2>6, TreeAssumption DEF IndexInv, Rooted
          <4>2. PICK a \in Ancestors[x] : a # Genesis /\ a \notin L /\ Parent[a] \in L
            <5> HIDE DEF L
            <5>1. QED
              BY <3>1, <4>1, FirstWithout
          <4>3. a \in Block \ {Genesis} /\ ~linked[a] /\ linked[Parent[a]]
            BY <4>2, <3>1, AncestorsIs
          <4>4. a \notin Ancestors[f]
            BY <4>3, <3>3, <2>2, LinkedDown
          <4>5. a \in MarkedPath(b, f)
            BY <4>4, <4>2, <3>1, <2>2, AncestorsTransitive DEF MarkedPath
          <4>6. failed'[a] # {}
            BY <4>3, <4>5, <2>1
          <4>7. ~data[a]
            BY <4>3 DEF LinkInv
          <4>8. Barred(a)'
            BY <4>3, <4>6, <4>7, <1>1 DEF Barred, Forgotten
          <4>9. QED
            BY <4>2, <4>8 DEF Doomed
        <3>4. QED
          BY <3>2, <3>3
      <2>7. ASSUME NEW x \in Block, ~linked'[x], failed'[x] # {} PROVE Doomed(x)'
        <3>1. CASE x \in MarkedPath(b, f)
          BY <3>1, <2>6, <2>7, <1>1
        <3>2. CASE x \notin MarkedPath(b, f)
          BY <3>2, <2>1, <2>5, <2>7, <1>1 DEF LinkInv
        <3>3. QED
          BY <3>1, <3>2
      <2>8. \A x \in Block \ {Genesis} : data'[x] /\ ~linked'[x] => <<Parent[x], x>> \in unlinked' \/ Doomed(x)'
        BY <2>5, <1>1 DEF LinkInv
      <2>9. /\ \A x \in Block \ {Genesis} : data'[x] /\ linked'[Parent[x]] => linked'[x]
            /\ \A x \in Block \ {Genesis} : <<Parent[x], x>> \in unlinked' /\ linked'[Parent[x]] => linked'[x]
        BY <1>1 DEF LinkInv
      <2>10. QED
        BY <2>7, <2>8, <2>9 DEF LinkInv
    <1>4. QED
      BY <1>2, <1>3

(* LinkInv, operation by operation.                                        *)
LEMMA PruneLink ==
    ASSUME IndexInv, LinkInv, NEW b \in Block, Prune(b)
    PROVE  LinkInv'
    <1>1. /\ UNCHANGED <<processed, linked, failed>> /\ unlinked' = unlinked \ {<<Parent[b], b>>}
          /\ data' = [data EXCEPT ![b] = FALSE]
      BY DEF Prune
    <1>2. ~data'[b] /\ \A x \in Block \ {b} : data'[x] <=> data[x]
      BY <1>1, Typed DEF IndexInv
    <1>3. \A x \in Block : data'[x] => data[x]
      BY <1>2
    <1>4. KeepsDoomed
      BY <1>1, <1>3 DEF KeepsDoomed, Barred, Forgotten
    <1>5. \A x \in Block : Doomed(x) => Doomed(x)'
      BY <1>4, DoomedStays
    <1>6. \A x \in Block : ~linked'[x] /\ failed'[x] # {} => Doomed(x)'
      BY <1>1, <1>5 DEF LinkInv
    <1>7. ASSUME NEW x \in Block \ {Genesis}, data'[x], ~linked'[x]
          PROVE  <<Parent[x], x>> \in unlinked' \/ Doomed(x)'
      BY <1>1, <1>2, <1>3, <1>5, <1>7 DEF LinkInv
    <1>8. /\ \A x \in Block \ {Genesis} : data'[x] /\ linked'[Parent[x]] => linked'[x]
          /\ \A x \in Block \ {Genesis} : <<Parent[x], x>> \in unlinked' /\ linked'[Parent[x]] => linked'[x]
      BY <1>1, <1>3 DEF LinkInv
    <1>9. QED
      BY <1>6, <1>7, <1>8 DEF LinkInv

(* A block's data arrives: what hung on it is linked with it, and it hangs *)
(* on its parent itself unless it will never be linked.                    *)
LEMMA ArrivesLink ==
    ASSUME IndexInv, LinkInv, NEW b \in Block, Arrives(b)
    PROVE  LinkInv'
    <1>1. /\ data'[b] /\ \A x \in Block \ {b} : data'[x] <=> data[x]
          /\ \A x \in Block \ {b} : processed'[x] <=> processed[x]
          /\ failed[b] = {} /\ Parent[b] \in Block
          /\ (linked[Parent[b]] /\ LinkBlocks(b)) \/ (~linked[Parent[b]] /\ HoldBlock(b))
      BY ArrivesIs
    <1>2. UNCHANGED failed /\ b # Genesis
      BY DEF Arrives
    <1>3. \A x \in Block \ {Genesis} : Parent[x] \in Block
      BY TreeAssumption
    <1>4. CASE linked[Parent[b]] /\ LinkBlocks(b)
      <2> DEFINE new == NowLinked(b)
      <2>1. /\ \A x \in Block : linked'[x] <=> x \in new \/ linked[x]
            /\ unlinked' = {p \in unlinked : p[1] \notin new}
        BY <1>4, LinkBlocksIs
      <2>2. /\ b \in new /\ new \subseteq Block
            /\ \A d \in new \ {b} : <<Parent[d], d>> \in unlinked
            /\ \A d \in Block \ {Genesis} : Parent[d] \in new /\ <<Parent[d], d>> \in unlinked => d \in new
        BY NowLinkedIs
      <2>3. \A d \in new : \A a \in Ancestors[d] : a \in Ancestors[b] \/ <<Parent[a], a>> \in unlinked
        BY DEF NowLinked
      <2> HIDE DEF new
      <2>4. ASSUME NEW a \in Block, Barred(a) PROVE Barred(a)'
        <3>1. a # b /\ a \notin new /\ ~linked[a] /\ ~data[a] /\ a # Genesis
          BY <2>2, <2>4, <1>1, BarredIs
        <3>2. linked[Parent[a]] => linked'[Parent[a]]
          BY <2>1, <3>1, <1>3
        <3>3. QED
          BY <3>1, <3>2, <2>1, <2>4, <1>1, <1>2 DEF Barred, Forgotten
      <2>5. \A x \in Block : Doomed(x) => Doomed(x)'
        BY <2>4, DoomedStays DEF KeepsDoomed
      <2>6. \A x \in Block : ~linked'[x] /\ failed'[x] # {} => Doomed(x)'
        BY <1>2, <2>1, <2>5 DEF LinkInv
      <2>7. ASSUME NEW x \in Block \ {Genesis}, data'[x], ~linked'[x]
            PROVE  <<Parent[x], x>> \in unlinked' \/ Doomed(x)'
        <3>1. x \notin new /\ ~linked[x] /\ data[x]
          BY <2>1, <2>2, <2>7, <1>1
        <3>2. <<Parent[x], x>> \in unlinked \/ Doomed(x)
          BY <3>1 DEF LinkInv
        <3>3. QED
          BY <3>1, <3>2, <2>1, <2>2, <2>5
      <2>8. ASSUME NEW x \in Block \ {Genesis}, data'[x], linked'[Parent[x]]
            PROVE  linked'[x]
        <3>1. CASE x = b
          BY <3>1, <2>1, <2>2
        <3>2. CASE x # b /\ linked[Parent[x]]
          BY <3>2, <2>1, <2>8, <1>1 DEF LinkInv
        <3>3. CASE x # b /\ ~linked[Parent[x]]
          <4>1. SUFFICES ASSUME ~linked[x], x \notin new PROVE FALSE
            BY <2>1
          <4>2. Parent[x] \in new /\ data[x]
            BY <3>3, <2>1, <2>8, <1>1, <1>3
          <4>3. Doomed(x)
            BY <4>1, <4>2, <2>2 DEF LinkInv
          <4>4. PICK a \in Ancestors[x] : Barred(a)
            BY <4>3 DEF Doomed
          <4>5. a \in Block /\ a # b /\ ~data[a] /\ ~linked[a] /\ <<Parent[a], a>> \notin unlinked
            BY <4>4, <1>1, AncestorsIs, BarredIs
          <4>6. a \in Ancestors[Parent[x]]
            BY <4>2, <4>5, AncestorsIs
          <4>7. a \in Ancestors[b]
            BY <4>2, <4>5, <4>6, <2>3
          <4>8. a \in Ancestors[Parent[b]]
            BY <4>5, <4>7, <1>2, AncestorsIs
          <4>9. QED
            BY <4>5, <4>8, <1>1, <1>4, LinkedDown
        <3>4. QED
          BY <3>1, <3>2, <3>3
      <2>9. ASSUME NEW x \in Block \ {Genesis}, <<Parent[x], x>> \in unlinked', linked'[Parent[x]]
            PROVE  linked'[x]
        <3>1. <<Parent[x], x>> \in unlinked /\ Parent[x] \notin new
          BY <2>1, <2>9
        <3>2. linked[Parent[x]]
          BY <3>1, <2>1, <2>9, <1>3
        <3>3. QED
          BY <3>1, <3>2, <2>1 DEF LinkInv
      <2>10. QED
        BY <2>6, <2>7, <2>8, <2>9 DEF LinkInv
    <1>5. CASE ~linked[Parent[b]] /\ HoldBlock(b)
      <2>1. /\ linked' = linked /\ unlinked \subseteq unlinked'
            /\ unlinked' \subseteq unlinked \cup {<<Parent[b], b>>}
        BY <1>5, ArrivesHeld
      <2>2. ASSUME NEW a \in Block, Barred(a) PROVE Barred(a)'
        <3>1. a # b
          BY <2>2, <1>1, BarredIs
        <3>2. QED
          BY <3>1, <2>1, <2>2, <1>1, <1>2 DEF Barred, Forgotten
      <2>3. \A x \in Block : Doomed(x) => Doomed(x)'
        BY <2>2, DoomedStays DEF KeepsDoomed
      <2>4. \A x \in Block : ~linked'[x] /\ failed'[x] # {} => Doomed(x)'
        BY <1>2, <2>1, <2>3 DEF LinkInv
      <2>5. failed[Parent[b]] = {} => <<Parent[b], b>> \in unlinked'
        BY <1>5 DEF HoldBlock
      <2>6. failed[Parent[b]] # {} => Doomed(b)
        <3>1. failed[Parent[b]] # {} => Doomed(Parent[b])
          BY <1>1, <1>5 DEF LinkInv
        <3>2. Parent[b] \in Ancestors[b]
          BY <1>2, AncestorsEnds, AncestorsClosed
        <3>3. QED
          BY <3>1, <3>2, DoomedAbove
      <2>7. ASSUME NEW x \in Block \ {Genesis}, data'[x], ~linked'[x]
            PROVE  <<Parent[x], x>> \in unlinked' \/ Doomed(x)'
        <3>1. CASE x = b
          BY <3>1, <2>3, <2>5, <2>6
        <3>2. CASE x # b
          BY <3>2, <2>1, <2>3, <2>7, <1>1 DEF LinkInv
        <3>3. QED
          BY <3>1, <3>2
      <2>8. ASSUME NEW x \in Block \ {Genesis}, data'[x], linked'[Parent[x]] PROVE linked'[x]
        BY <2>1, <2>8, <1>1, <1>5 DEF LinkInv
      <2>9. ASSUME NEW x \in Block \ {Genesis}, <<Parent[x], x>> \in unlinked', linked'[Parent[x]]
            PROVE  linked'[x]
        <3>1. x # b
          BY <2>1, <2>9, <1>5
        <3>2. <<Parent[x], x>> \in unlinked
          BY <3>1, <2>1, <2>9
        <3>3. QED
          BY <3>2, <2>1, <2>9 DEF LinkInv
      <2>10. QED
        BY <2>4, <2>7, <2>8, <2>9 DEF LinkInv
    <1>6. QED
      BY <1>1, <1>4, <1>5

(* A block that arrives is linked or put in mapBlocksUnlinked.             *)
LEMMA ProcessNewBlockLink ==
    ASSUME IndexInv, LinkInv, NEW t \in Thread, NEW b \in Block, NEW requested \in BOOLEAN,
           ProcessNewBlock(t, b, requested)
    PROVE  LinkInv'
    <1>1. CASE UNCHANGED <<data, processed, linked, unlinked, failed>>
      BY <1>1, LinkStays
    <1>2. CASE Arrives(b)
      BY <1>2, ArrivesLink
    <1>3. CASE ~UNCHANGED failed
      <2>1. /\ ~data[b] /\ UNCHANGED <<data, linked, unlinked>>
            /\ \A x \in Block \ {b} : failed'[x] = failed[x]
            /\ failed'[b] = failed[b] \cup {"VALID"}
        BY <1>3, ProcessNewBlockSpreads
      <2>2. b \in BadContext /\ UNCHANGED processed
        BY <1>3 DEF ProcessNewBlock
      <2>3. ~processed'[b]
        BY <2>2 DEF IndexInv, Rooted
      <2>4. \A x \in Block : Doomed(x) => Doomed(x)'
        BY <2>1, <2>2, BarredStays, DoomedStays
      <2>5. Doomed(b)'
        BY <2>1, <2>3, AncestorsEnds DEF Doomed, Barred
      <2>6. \A x \in Block : ~linked'[x] /\ failed'[x] # {} => Doomed(x)'
        BY <2>1, <2>4, <2>5 DEF LinkInv
      <2>7. \A x \in Block \ {Genesis} : data'[x] /\ ~linked'[x] => <<Parent[x], x>> \in unlinked' \/ Doomed(x)'
        BY <2>1, <2>4 DEF LinkInv
      <2>8. /\ \A x \in Block \ {Genesis} : data'[x] /\ linked'[Parent[x]] => linked'[x]
            /\ \A x \in Block \ {Genesis} : <<Parent[x], x>> \in unlinked' /\ linked'[Parent[x]] => linked'[x]
        BY <2>1 DEF LinkInv
      <2>9. QED
        BY <2>6, <2>7, <2>8 DEF LinkInv
    <1>4. UNCHANGED failed => Arrives(b) \/ UNCHANGED <<data, processed, linked, unlinked>>
      BY DEF ProcessNewBlock, Arrives, sets
    <1>5. QED
      BY <1>1, <1>2, <1>3, <1>4

(* LoadBlockIndexDB links and files the blocks that were received again.   *)
LEMMA RestartLink ==
    ASSUME IndexInv, LinkInv, NEW t \in Thread, Restart(t)
    PROVE  LinkInv'
    <1>1. /\ \A x \in Block : linked'[x] <=> \A a \in Ancestors[x] : processed[a]
          /\ \A x \in Block : linked[x] => linked'[x]
          /\ \A x \in Block : failed'[x] = IF x \in known /\ failed[x] = {} /\ \E a \in Ancestors[x] : failed[a] # {}
                                           THEN {"CHILD"} ELSE failed[x]
          /\ unlinked' = {<<Parent[x], x>> : x \in {y \in known : processed[y] /\ ~linked'[Parent[y]]}}
      BY RestartIs
    <1>2. UNCHANGED <<data, processed>>
      BY DEF Restart
    <1>3. \A x \in Block : data[x] => x \in known /\ processed[x]
      BY DEF IndexInv, Unseen, Received
    <1>4. ASSUME NEW x \in Block, linked'[x], NEW a \in Ancestors[x] PROVE linked'[a]
      BY <1>1, <1>4, AncestorsIs, AncestorsTransitive
    <1>5. ASSUME NEW x \in Block \ {Genesis}, processed[x], linked'[Parent[x]] PROVE linked'[x]
      <2>1. Parent[x] \in Block /\ Ancestors[x] = {x} \cup Ancestors[Parent[x]]
        BY AncestorsIs, TreeAssumption
      <2>2. QED
        BY <2>1, <1>1, <1>5
    <1>6. ASSUME NEW x \in known, ~linked'[x], NEW f \in Ancestors[x], failed[f] # {}, linked'[f]
          PROVE  Doomed(x)'
      <2> DEFINE L == {z \in Block : linked'[z]}
      <2>1. x \in Block /\ f \in Block
        BY AncestorsIs, Typed DEF IndexInv
      <2>2. Genesis \in L /\ x \notin L
        BY <1>1, <1>6, TreeAssumption DEF IndexInv, Rooted
      <2>3. PICK a \in Ancestors[x] : a # Genesis /\ a \notin L /\ Parent[a] \in L
        <3> HIDE DEF L
        <3>1. QED
          BY <2>1, <2>2, FirstWithout
      <2>4. a \in Block \ {Genesis} /\ ~linked'[a] /\ linked'[Parent[a]] /\ a \in known
        BY <2>1, <2>3, AncestorsIs, KnownDown
      <2>5. ~processed[a]
        BY <2>4, <1>5
      <2>6. a \notin Ancestors[f]
        BY <2>1, <2>4, <1>4, <1>6
      <2>7. f \in Ancestors[a]
        BY <2>1, <2>3, <2>6, AncestorsLinear
      <2>8. failed'[a] # {}
        BY <2>4, <2>7, <1>1, <1>6
      <2>9. QED
        BY <2>3, <2>5, <2>8, <1>2 DEF Doomed, Barred
    <1>7. ASSUME NEW x \in Block, ~linked'[x], failed'[x] # {} PROVE Doomed(x)'
      <2>1. x \in known /\ \E f \in Ancestors[x] : failed[f] # {}
        <3>1. CASE failed[x] # {}
          BY <3>1, AncestorsEnds DEF IndexInv, Unseen
        <3>2. CASE failed[x] = {}
          BY <3>2, <1>1, <1>7
        <3>3. QED
          BY <3>1, <3>2
      <2>2. PICK f \in Ancestors[x] : failed[f] # {}
        BY <2>1
      <2>3. f \in Block
        BY AncestorsIs
      <2>4. CASE linked'[f]
        BY <2>1, <2>2, <2>4, <1>6, <1>7
      <2>5. CASE ~linked'[f]
        <3>1. Doomed(f)
          BY <2>2, <2>3, <2>5, <1>1 DEF LinkInv
        <3>2. PICK a \in Ancestors[f] : Barred(a)
          BY <3>1 DEF Doomed
        <3>3. a \in Block /\ a \in Ancestors[x] /\ failed[a] # {} /\ a # Genesis
          BY <3>2, <2>2, <2>3, AncestorsIs, AncestorsTransitive, BarredIs
        <3>4. CASE ~processed[a]
          <4>1. failed'[a] # {}
            BY <3>3, <1>1
          <4>2. QED
            BY <3>3, <3>4, <4>1, <1>2 DEF Doomed, Barred
        <3>5. CASE processed[a]
          <4>1. linked[Parent[a]] /\ Parent[a] \in Block
            BY <3>2, <3>3, <3>5, TreeAssumption DEF Barred
          <4>2. linked'[a]
            BY <3>3, <3>5, <4>1, <1>1, <1>5
          <4>3. QED
            BY <3>3, <4>2, <2>1, <1>6, <1>7
        <3>6. QED
          BY <3>4, <3>5
      <2>6. QED
        BY <2>4, <2>5
    <1>8. ASSUME NEW x \in Block \ {Genesis}, data'[x], ~linked'[x]
          PROVE  <<Parent[x], x>> \in unlinked' \/ Doomed(x)'
      <2>1. x \in known /\ processed[x]
        BY <1>2, <1>3, <1>8
      <2>2. ~linked'[Parent[x]]
        BY <2>1, <1>5, <1>8
      <2>3. QED
        BY <2>1, <2>2, <1>1
    <1>9. \A x \in Block \ {Genesis} : data'[x] /\ linked'[Parent[x]] => linked'[x]
      BY <1>2, <1>3, <1>5
    <1>10. ASSUME NEW x \in Block \ {Genesis}, <<Parent[x], x>> \in unlinked', linked'[Parent[x]]
           PROVE  linked'[x]
      <2>1. PICK y \in known : <<Parent[x], x>> = <<Parent[y], y>> /\ ~linked'[Parent[y]]
        BY <1>1, <1>10
      <2>2. QED
        BY <2>1, <1>10
    <1>11. QED
      BY <1>7, <1>8, <1>9, <1>10 DEF LinkInv

(* FindMostWorkChain files linked blocks only.                             *)
LEMMA ActivateFiles ==
    ASSUME IndexInv, NEW t \in Thread, Activate(t)
    PROVE  /\ UNCHANGED processed
           /\ \A x \in Block \ {Genesis} :
                 <<Parent[x], x>> \in unlinked' => <<Parent[x], x>> \in unlinked \/ linked[x]
    <1>f. PICK found \in Found(t) : \E target :
             /\ target = Target(t, found)
             /\ \/ ActivateDone(t, found, target)
                \/ ActivateAborts(t, found, target)
                \/ ActivateStep(t, found, target)
      BY ActivateFound
    <1>1. PICK target : /\ target = Target(t, found)
                        /\ \/ ActivateDone(t, found, target)
                           \/ ActivateAborts(t, found, target)
                           \/ ActivateStep(t, found, target)
      BY <1>f
    <1>2. Follows(found)
      BY <1>1, TargetIs
    <1>3. ASSUME NEW x \in Block \ {Genesis}, <<Parent[x], x>> \in found.unlinked
          PROVE  <<Parent[x], x>> \in unlinked \/ linked[x]
      BY <1>2, <1>3 DEF Follows, Holds
    <1>4. UNCHANGED processed /\ (unlinked' = unlinked \/ unlinked' = found.unlinked)
      BY <1>1 DEF ActivateDone, ActivateAborts, ActivateStep, index, sets
    <1>5. QED
      BY <1>3, <1>4

(* LinkInv is inductive, unless blocks are invalidated or reconsidered.    *)
LEMMA NextLink ==
    ASSUME IndexInv, LinkInv, Unforced, [Next]_vars
    PROVE  LinkInv'
    <1>1. CASE UNCHANGED <<data, processed, linked, unlinked, failed>>
      BY <1>1, LinkStays
    <1>2. ASSUME NEW t \in Thread, Activate(t) PROVE LinkInv'
      <2>1. /\ \A x \in Block : failed[x] \subseteq failed'[x]
            /\ \A x \in Block : failed'[x] # failed[x] => linked[x]
            /\ unlinked \subseteq unlinked' /\ UNCHANGED <<data, linked>>
        BY <1>2, ActivateSpreads DEF Spreads
      <2>2. QED
        BY <1>2, <2>1, ActivateFiles, LinkStays
    <1>3. ASSUME NEW t \in Thread, NEW b \in Block, Invalidate(t, b) \/ Reconsider(t, b) PROVE FALSE
      BY <1>3 DEF Invalidate, Reconsider, Command, Unforced
    <1>4. ASSUME NEW t \in Thread, NEW b \in Block, Precious(t, b) PROVE LinkInv'
      BY <1>1, <1>4 DEF Precious
    <1>5. ASSUME NEW b \in Block, AcceptHeader(b) PROVE LinkInv'
      BY <1>1, <1>5 DEF AcceptHeader, sets
    <1>6. UNCHANGED vars => LinkInv'
      BY <1>1 DEF vars, index, sets
    <1>7. QED
      BY <1>2, <1>3, <1>4, <1>5, <1>6, RejectHeaderLink, PruneLink, ProcessNewBlockLink, RestartLink DEF Next

(* Nothing waits at first.                                                 *)
LEMMA InitLink == Init => LinkInv
    <1> SUFFICES ASSUME Init PROVE LinkInv
      OBVIOUS
    <1>1. unlinked = {} /\ \A x \in Block : failed[x] = {} /\ (x # Genesis => ~data[x])
      BY DEF Init
    <1>2. QED
      BY <1>1 DEF LinkInv

(* LinkInv is an invariant if nothing is invalidated or reconsidered.      *)
LEMMA LinkInvariant ==
    ASSUME Unforced
    PROVE  Spec => []LinkInv
    <1>1. IndexInv /\ Reversed /\ LinkInv /\ [Next]_vars => LinkInv'
      BY NextLink
    <1>2. QED
      BY <1>1, InitLink, IndexInvariant, PTL DEF Spec

(* A block that is on disk with all its ancestors is linked, in whatever   *)
(* order headers and blocks came and however often they were pruned,       *)
(* downloaded again and loaded after a restart: ReceivedBlockTransactions  *)
(* never loses a waiting block, if none is invalidated or reconsidered by  *)
(* hand.                                                                   *)
THEOREM StoredAreLinked ==
    ASSUME Unforced
    PROVE  Spec => []StoredIsLinked
    <1>1. IndexInv /\ Reversed /\ LinkInv /\ [Next]_vars => LinkInv'
      BY NextLink
    <1>2. ASSUME IndexInv, LinkInv PROVE StoredIsLinked
      <2> DEFINE T == {x \in Block : (\A a \in Ancestors[x] : data[a]) => linked[x]}
      <2>1. Genesis \in T
        BY <1>2, TreeAssumption DEF IndexInv, Rooted
      <2>2. ASSUME NEW x \in Block \ {Genesis}, Parent[x] \in T, \A a \in Ancestors[x] : data[a] PROVE linked[x]
        <3>1. Ancestors[x] = {x} \cup Ancestors[Parent[x]]
          BY AncestorsIs
        <3>2. data[x] /\ linked[Parent[x]]
          BY <3>1, <2>2
        <3>3. QED
          BY <3>2, <1>2 DEF LinkInv
      <2>3. \A x \in Block \ {Genesis} : Parent[x] \in T => x \in T
        BY <2>2
      <2> HIDE DEF T
      <2>4. Block \subseteq T
        BY <2>1, <2>3, BlockInduction
      <2>5. QED
        BY <1>2, <2>4, Typed DEF T, StoredIsLinked, HasMissing, IndexInv
    <1>3. QED
      BY <1>1, <1>2, InitLink, IndexInvariant, PTL DEF Spec

-----------------------------------------------------------------------------
(* CheckBlockIndex on what a block's status, nTx, nChainTx and undo data   *)
(* say of each other and of its ancestors, with pruning and restarts, if   *)
(* no block is invalidated or reconsidered by hand: nChainTx is set if and *)
(* only if the block and all its ancestors were received, unless one of    *)
(* them was pruned while it waited for its parent and nothing has linked   *)
(* it since.                                                               *)
THEOREM ReceiptsConsistent ==
    ASSUME Unforced
    PROVE  Spec => []ReceiptConsistent
    <1>1. ASSUME IndexInv, LinkInv, FieldsConsistent PROVE ReceiptConsistent
      <2>1. SUFFICES ASSUME NEW b \in known
                     PROVE  linked[b] <=> ~HasUnprocessed(b) /\ \A a \in Ancestors[b] : ~Forgotten(a)
        BY <1>1 DEF ReceiptConsistent
      <2>2. b \in Block
        BY <1>1, Typed DEF IndexInv
      <2>3. linked[b] => ~HasUnprocessed(b) /\ \A a \in Ancestors[b] : ~Forgotten(a)
        BY <1>1, <2>2, LinkedDown DEF HasUnprocessed, Forgotten
      <2>4. ASSUME ~linked[b], ~HasUnprocessed(b), \A a \in Ancestors[b] : ~Forgotten(a) PROVE FALSE
        <3> DEFINE L == {z \in Block : linked[z]}
        <3>1. Genesis \in L /\ b \notin L
          BY <1>1, <2>4, TreeAssumption DEF IndexInv, Rooted
        <3>2. PICK a \in Ancestors[b] : a # Genesis /\ a \notin L /\ Parent[a] \in L
          <4> HIDE DEF L
          <4>1. QED
            BY <2>2, <3>1, FirstWithout
        <3>3. a \in Block \ {Genesis} /\ ~linked[a] /\ linked[Parent[a]]
          BY <2>2, <3>2, AncestorsIs
        <3>4. data[a]
          BY <2>4, <3>2, <3>3 DEF HasUnprocessed, Forgotten
        <3>5. QED
          BY <1>1, <3>3, <3>4 DEF LinkInv
      <2>5. QED
        BY <2>3, <2>4
    <1>2. Undisturbed
      BY DEF Unforced, Undisturbed
    <1>3. QED
      BY <1>1, <1>2, IndexInvariant, LinkInvariant, FieldsAreConsistent, PTL

-----------------------------------------------------------------------------
(* Without pruning, what is linked is on disk, and mapBlocksUnlinked holds *)
(* blocks that are not linked only.                                        *)
Unpruned == "prune" \notin Commands

Kept ==
    /\ ~havePruned
    /\ \A b \in Block \ {Genesis} : <<Parent[b], b>> \in unlinked => ~linked[b]

(* Without pruning a linked block is on disk.                              *)
LEMMA HasData ==
    ASSUME IndexInv, Kept, NEW b \in Block, linked[b]
    PROVE  data[b] /\ processed[b] /\ b \in known
    BY DEF IndexInv, Kept, Rooted, Unseen, Received

(* FindMostWorkChain then adds nothing to mapBlocksUnlinked.               *)
LEMMA FoundKept ==
    ASSUME IndexInv, Kept, NEW s, Follows(s)
    PROVE  s.unlinked = unlinked
    <1>1. \A p \in s.unlinked \ unlinked : \E x \in Block : \E a \in Ancestors[x] : linked[a] /\ ~data[a]
      BY DEF Follows, Holds
    <1>2. ASSUME NEW x \in Block, NEW a \in Ancestors[x], linked[a] PROVE data[a]
      BY <1>2, AncestorsIs, HasData
    <1>3. unlinked \subseteq s.unlinked
      BY DEF Follows, Holds
    <1>4. QED
      BY <1>1, <1>2, <1>3

(* Kept, operation by operation.                                           *)
LEMMA ActivateKept ==
    ASSUME IndexInv, Kept, NEW t \in Thread, Activate(t)
    PROVE  UNCHANGED <<unlinked, linked, havePruned>>
    <1>f. PICK found \in Found(t) : \E target :
             /\ target = Target(t, found)
             /\ \/ ActivateDone(t, found, target)
                \/ ActivateAborts(t, found, target)
                \/ ActivateStep(t, found, target)
      BY ActivateFound
    <1>1. PICK target : /\ target = Target(t, found)
                        /\ \/ ActivateDone(t, found, target)
                           \/ ActivateAborts(t, found, target)
                           \/ ActivateStep(t, found, target)
      BY <1>f
    <1>2. found.unlinked = unlinked
      BY <1>1, TargetIs, FoundKept
    <1>3. QED
      BY <1>1, <1>2 DEF ActivateDone, ActivateAborts, ActivateStep, index, sets

(* A block that arrives takes those it links out of mapBlocksUnlinked.     *)
LEMMA ArrivesKept ==
    ASSUME IndexInv, Kept, NEW b \in Block, Arrives(b), ~data[b]
    PROVE  Kept' /\ ~linked[b] /\ <<Parent[b], b>> \notin unlinked
    <1>1. ~havePruned' /\ b # Genesis
      BY DEF Kept, Arrives
    <1>2. ~linked[b]
      BY HasData
    <1>3. <<Parent[b], b>> \notin unlinked
      <2>1. SUFFICES ASSUME <<Parent[b], b>> \in unlinked PROVE FALSE
        OBVIOUS
      <2>2. PICK x \in known : <<Parent[b], b>> = <<Parent[x], x>> /\ processed[x]
        BY <2>1 DEF IndexInv, Rooted
      <2>3. b \in known /\ processed[b]
        BY <2>2
      <2>4. QED
        BY <2>3 DEF IndexInv, Received, Kept
    <1>4. ASSUME NEW x \in Block \ {Genesis}, <<Parent[x], x>> \in unlinked' PROVE ~linked'[x]
      <2>1. CASE LinkBlocks(b)
        <3>1. /\ linked'[x] => x \in NowLinked(b) \/ linked[x]
              /\ <<Parent[x], x>> \in unlinked /\ Parent[x] \notin NowLinked(b)
          BY <2>1, <1>4, LinkBlocksIs
        <3>2. x # b
          BY <3>1, <1>3
        <3>3. x \notin NowLinked(b)
          BY <3>1, <3>2, NowLinkedIs
        <3>4. QED
          BY <3>1, <3>3 DEF Kept
      <2>2. CASE ~linked[Parent[b]] /\ HoldBlock(b)
        <3>1. linked' = linked /\ unlinked' \subseteq unlinked \cup {<<Parent[b], b>>}
          BY <2>2, ArrivesHeld
        <3>2. x = b \/ <<Parent[x], x>> \in unlinked
          BY <3>1, <1>4
        <3>3. QED
          BY <3>1, <3>2, <1>2 DEF Kept
      <2>3. QED
        BY <2>1, <2>2, ArrivesIs
    <1>5. QED
      BY <1>1, <1>2, <1>3, <1>4 DEF Kept

(* ProcessNewBlock links the block or holds it.                            *)
LEMMA ProcessNewBlockIs ==
    ASSUME NEW t \in Thread, NEW b \in Block, NEW requested \in BOOLEAN, ProcessNewBlock(t, b, requested)
    PROVE  /\ t \notin activating /\ UNCHANGED <<tip, havePruned>>
           /\ \/ /\ UNCHANGED <<data, linked, unlinked, failed, sequenceId, candidates, nextSequenceId>>
                 /\ EnterActivation(t)
              \/ /\ b \in BadContext
                 /\ UNCHANGED <<data, linked, unlinked, sequenceId, candidates, nextSequenceId,
                                activating, mostWork>>
              \/ Arrives(b) /\ ~data[b] /\ EnterActivation(t)
    BY DEF ProcessNewBlock, Arrives, NotStored, sets, threads

(* Kept is inductive without pruning.                                      *)
LEMMA NextKept ==
    ASSUME IndexInv, Reversed, Kept, Unpruned, [Next]_vars
    PROVE  Kept'
    <1>1. CASE UNCHANGED <<unlinked, linked, havePruned>>
      BY <1>1 DEF Kept
    <1>2. ASSUME NEW t \in Thread, NEW b \in Block, NEW requested \in BOOLEAN, ProcessNewBlock(t, b, requested)
          PROVE  Kept'
      BY <1>1, <1>2, ProcessNewBlockIs, ArrivesKept
    <1>3. ASSUME NEW t \in Thread, Activate(t) PROVE Kept'
      BY <1>1, <1>3, ActivateKept
    <1>4. ASSUME NEW t \in Thread, Restart(t) PROVE Kept'
      <2>1. unlinked' = {<<Parent[x], x>> : x \in {y \in known : processed[y] /\ ~linked'[Parent[y]]}}
        BY <1>4, RestartIs
      <2>2. \A x \in Block : linked'[x] => linked'[Parent[x]]
        BY <1>4, RestartIndex DEF IndexInv, Rooted
      <2>3. UNCHANGED havePruned
        BY <1>4 DEF Restart
      <2>4. ASSUME NEW x \in Block \ {Genesis}, <<Parent[x], x>> \in unlinked' PROVE ~linked'[x]
        <3>1. PICK y \in known : <<Parent[x], x>> = <<Parent[y], y>> /\ ~linked'[Parent[y]]
          BY <2>1, <2>4
        <3>2. QED
          BY <3>1, <2>2
      <2>5. QED
        BY <2>3, <2>4 DEF Kept
    <1>5. ASSUME NEW b \in Block, Prune(b) PROVE FALSE
      BY <1>5, CommandIs DEF Prune, Unpruned
    <1>6. ASSUME NEW t \in Thread, NEW b \in Block, Invalidate(t, b) \/ Reconsider(t, b) \/ Precious(t, b)
          PROVE  Kept'
      BY <1>1, <1>6 DEF Invalidate, Reconsider, Precious
    <1>7. ASSUME NEW b \in Block, AcceptHeader(b) \/ RejectHeader(b) PROVE Kept'
      BY <1>1, <1>7 DEF AcceptHeader, RejectHeader, sets
    <1>8. UNCHANGED vars => Kept'
      BY <1>1 DEF vars, index, sets
    <1>9. QED
      BY <1>2, <1>3, <1>4, <1>5, <1>6, <1>7, <1>8 DEF Next

(* The three other invariants in every reachable state.                    *)
LEMMA KeptInvariant ==
    ASSUME Unpruned
    PROVE  Spec => []Kept
    <1>1. Init => Kept
      BY DEF Init, Kept
    <1>2. IndexInv /\ Reversed /\ Kept /\ [Next]_vars => Kept'
      BY NextKept
    <1>3. QED
      BY <1>1, <1>2, IndexInvariant, PTL DEF Spec

(* Marks have reasons, for blocks in the index and others.                 *)
LEMMA ReasonInvariant ==
    ASSUME "reconsider" \notin Commands
    PROVE  Spec => []Reasoned(failed)
    <1>1. Init => Reasoned(failed)
      BY DEF Init, Reasoned, Marked
    <1>2. IndexInv /\ Reversed /\ Reasoned(failed) /\ [Next]_vars => Reasoned(failed)'
      BY NextReasoned
    <1>3. QED
      BY <1>1, <1>2, IndexInvariant, PTL DEF Spec

(* CheckBlockIndex on mapBlocksUnlinked: it holds every stored block that  *)
(* waits for a parent, unless the block is above an invalid one, and no    *)
(* block that is not stored or whose parents are all stored; if nothing is *)
(* pruned and no block is invalidated or reconsidered by hand.             *)
THEOREM UnlinkedIsExact ==
    ASSUME Unforced, Unpruned
    PROVE  Spec => []UnlinkedExact
    <1>1. ASSUME IndexInv, Kept, LinkInv, Reasoned(failed), StoredIsLinked PROVE UnlinkedExact
      <2>1. SUFFICES ASSUME NEW b \in known \ {Genesis}
                     PROVE  /\ data[b] /\ HasUnprocessed(b) /\ ~HasInvalid(b) => InUnlinked(b)
                            /\ InUnlinked(b) => data[b]
                            /\ ~HasMissing(b) => ~InUnlinked(b)
                            /\ data[b] /\ ~HasUnprocessed(b) => ~HasMissing(b)
        BY DEF UnlinkedExact
      <2>2. b \in Block
        BY <1>1, Typed DEF IndexInv
      <2>3. ASSUME data[b], HasUnprocessed(b), ~HasInvalid(b) PROVE InUnlinked(b)
        <3>1. ~linked[b]
          BY <1>1, <2>2, <2>3, LinkedDown DEF HasUnprocessed
        <3>2. ~Doomed(b)
          <4>1. SUFFICES ASSUME NEW a \in Ancestors[b], failed[a] # {} PROVE FALSE
            BY DEF Doomed, Barred
          <4>2. a \in Block /\ Ancestors[a] \subseteq Ancestors[b]
            BY <2>2, AncestorsTransitive, AncestorsIs
          <4>3. PICK c \in Ancestors[a] : "VALID" \in failed[c]
            BY <1>1, <4>1, <4>2 DEF Reasoned, Marked
          <4>4. QED
            BY <4>2, <4>3, <2>3 DEF HasInvalid
        <3>3. QED
          BY <1>1, <2>2, <2>3, <3>1, <3>2 DEF LinkInv, InUnlinked
      <2>4. ~HasMissing(b) => ~InUnlinked(b)
        BY <1>1, <2>2 DEF StoredIsLinked, Kept, InUnlinked
      <2>5. ~HasUnprocessed(b) => ~HasMissing(b)
        BY <1>1, KnownDown DEF HasUnprocessed, HasMissing, IndexInv, Received, Kept
      <2>6. ASSUME InUnlinked(b) PROVE data[b]
        <3>1. PICK x \in known : <<Parent[b], b>> = <<Parent[x], x>> /\ processed[x]
          BY <1>1, <2>6 DEF IndexInv, Rooted, InUnlinked
        <3>2. QED
          BY <1>1, <3>1 DEF IndexInv, Received, Kept
      <2>7. QED
        BY <2>3, <2>4, <2>5, <2>6
    <1>2. QED
      BY <1>1, IndexInvariant, KeptInvariant, LinkInvariant, ReasonInvariant, StoredAreLinked, PTL DEF Unforced

-----------------------------------------------------------------------------
(* The choice of the active chain, for a single caller of                  *)
(* ActivateBestChain, without pruning and reconsiderblock, and with either *)
(* invalidateblock or preciousblock.                                       *)
Choosing ==
    /\ OneThread
    /\ Commands \subseteq {"invalidate", "restart"} \/ Commands \subseteq {"precious", "restart"}

(* The chains that may become active, and do not fail.                     *)
GoodBlocks == {b \in Block : linked[b] /\ \A a \in Ancestors[b] : failed[a] = {} /\ a \notin BadConnect}

(* setBlockIndexCandidates holds a good chain as good as any good chain.   *)
Covered == \A b \in GoodBlocks : \E c \in candidates \cap GoodBlocks : ~Worse(c, b, sequenceId)

(* A target kept from an earlier step is still the best candidate.         *)
TargetBest ==
    \A t \in Thread : mostWork[t] # None =>
        \A c \in candidates : c = mostWork[t] \/ Worse(c, mostWork[t], sequenceId)

(* Nobody is better than the tip, once ActivateBestChain has returned.     *)
Resting == activating = {} => \A b \in GoodBlocks : b = tip \/ Worse(b, tip, sequenceId)

(* The sequence numbers preciousblock gives to chains as good as the tip   *)
(* are below all earlier ones.                                             *)
Preferred ==
    "invalidate" \notin Commands =>
        /\ \E b \in GoodBlocks : Work[b] >= lastPrecious
        /\ \A b \in GoodBlocks :
              /\ sequenceId[b] < 0 => Work[b] <= lastPrecious
              /\ sequenceId[b] <= reverseSequenceId => Work[b] < lastPrecious

BestInv == Kept /\ ChainGood /\ Covered /\ TargetBest /\ Resting /\ Preferred

(* What Choosing says of the commands.                                     *)
LEMMA ChoosingIs ==
    ASSUME Choosing
    PROVE  /\ Undisturbed /\ Unpruned /\ "reconsider" \notin Commands
           /\ "precious" \in Commands => "invalidate" \notin Commands
           /\ \A t, u \in Thread : t = u
    BY DEF Choosing, Undisturbed, OneThread, Unpruned

(* The tip is a good block.                                                *)
LEMMA TipGood ==
    ASSUME IndexInv, ChainInv, ChainGood
    PROVE  tip \in GoodBlocks
    BY Typed DEF GoodBlocks, ChainInv, NoFailedInChain, ChainGood, Chain, IndexInv, UsesLinked

(* Marks on bad blocks, on blocks that are not linked and above those      *)
(* change nothing for the good chains.                                     *)
LEMMA GoodStays ==
    ASSUME IndexInv, UNCHANGED linked, NEW S, Spreads(S), \A b \in S : b \in BadConnect \/ ~linked[b]
    PROVE  GoodBlocks' = GoodBlocks
    <1>1. ASSUME NEW b \in GoodBlocks, NEW a \in Ancestors[b] PROVE failed'[a] = {}
      <2>1. b \in Block /\ linked[b] /\ a \in Block /\ failed[a] = {}
        BY AncestorsIs DEF GoodBlocks
      <2>2. Ancestors[a] \subseteq Ancestors[b]
        BY <2>1, AncestorsTransitive
      <2>3. \A c \in Ancestors[b] : failed[c] = {} /\ c \notin S
        BY <2>1, LinkedDown DEF GoodBlocks
      <2>4. QED
        BY <2>1, <2>2, <2>3 DEF Spreads
    <1>2. ASSUME NEW b \in Block, NEW a \in Ancestors[b], failed'[a] = {} PROVE failed[a] = {}
      BY <1>2, AncestorsIs DEF Spreads
    <1>3. QED
      BY <1>1, <1>2 DEF GoodBlocks

(* Good blocks depend on marks, links and the chain only.                  *)
LEMMA GoodSame ==
    ASSUME UNCHANGED <<linked, failed>>
    PROVE  GoodBlocks' = GoodBlocks
    BY DEF GoodBlocks

(* Steps that leave the good chains, the candidates and their order alone. *)
LEMMA BestStays ==
    ASSUME Covered, TargetBest, Resting, Preferred, GoodBlocks' = GoodBlocks,
           UNCHANGED <<candidates, sequenceId, tip, lastPrecious, reverseSequenceId>>,
           UNCHANGED activating \/ activating' # {},
           \A u \in Thread : mostWork'[u] = mostWork[u] \/ mostWork'[u] = None
    PROVE  Covered' /\ TargetBest' /\ Resting' /\ Preferred'
    <1>1. Covered'
      BY DEF Covered
    <1>2. TargetBest'
      BY DEF TargetBest
    <1>3. Resting'
      BY DEF Resting
    <1>4. Preferred'
      BY DEF Preferred
    <1>5. QED
      BY <1>1, <1>2, <1>3, <1>4

(* With one caller, a command finds nobody activating.                     *)
LEMMA EnterAlone ==
    ASSUME IndexInv, Choosing, NEW t \in Thread, EnterActivation(t)
    PROVE  TargetBest' /\ activating' # {} /\ Resting'
    <1>1. \A u \in Thread : mostWork'[u] = None
      BY EnterIs, ChoosingIs
    <1>2. activating' # {}
      BY DEF EnterActivation
    <1>3. QED
      BY <1>1, <1>2 DEF TargetBest, Resting

(* A refused header marks nothing that was good.                           *)
LEMMA RejectHeaderBest ==
    ASSUME IndexInv, BestInv, NEW b \in Block, RejectHeader(b)
    PROVE  Covered' /\ TargetBest' /\ Resting' /\ Preferred' /\ ChainGood'
    <1>1. UNCHANGED <<linked, candidates, sequenceId, tip, lastPrecious, reverseSequenceId, activating, mostWork>>
      BY DEF RejectHeader, sets, counters, threads
    <1>2. GoodBlocks' = GoodBlocks
      BY <1>1, RejectHeaderSpreads, GoodStays
    <1>3. QED
      BY <1>1, <1>2, BestStays DEF BestInv, ChainGood, Chain

(* A block that links others is a candidate with them, or the tip is       *)
(* better.                                                                 *)
LEMMA ArrivesBest ==
    ASSUME IndexInv, Reversed, ChainInv, BestInv, NEW b \in Block, Arrives(b), ~data[b]
    PROVE  Covered' /\ Preferred'
    <1>1. UNCHANGED <<failed, tip, lastPrecious, reverseSequenceId>>
      BY DEF Arrives
    <1>2. CASE ~linked[Parent[b]] /\ HoldBlock(b)
      <2>1. UNCHANGED <<linked, candidates, sequenceId>>
        BY <1>2, ArrivesHeld
      <2>2. GoodBlocks' = GoodBlocks
        BY <1>1, <2>1, GoodSame
      <2>3. QED
        BY <1>1, <2>1, <2>2 DEF BestInv, Covered, Preferred
    <1>3. CASE LinkBlocks(b)
      <2> DEFINE new == NowLinked(b)
      <2>1. /\ \A x \in Block : linked'[x] <=> x \in new \/ linked[x]
            /\ sequenceId' \in [Block -> Int]
            /\ \A x \in Block \ new : sequenceId'[x] = sequenceId[x]
            /\ \A x \in new : sequenceId'[x] >= 0
            /\ \A x \in new : ~Worse(x, tip, sequenceId') => x \in candidates'
            /\ candidates \subseteq candidates'
        BY <1>3, LinkBlocksIs
      <2>2. \A x \in new : x \in Block /\ ~linked[x]
        BY ArrivesKept, NowLinkedIs DEF BestInv, Kept
      <2> HIDE DEF new
      <2>3. GoodBlocks \subseteq GoodBlocks' /\ GoodBlocks' \subseteq GoodBlocks \cup new
        BY <1>1, <2>1 DEF GoodBlocks
      <2>4. \A x \in GoodBlocks : x \in Block /\ x \notin new
        BY <2>2 DEF GoodBlocks
      <2>5. ASSUME NEW x \in GoodBlocks PROVE \E c \in candidates' \cap GoodBlocks' : ~Worse(c, x, sequenceId')
        <3>1. PICK c \in candidates \cap GoodBlocks : ~Worse(c, x, sequenceId)
          BY DEF BestInv, Covered
        <3>2. sequenceId'[c] = sequenceId[c] /\ sequenceId'[x] = sequenceId[x]
          BY <2>1, <2>4, <3>1
        <3>3. ~Worse(c, x, sequenceId')
          BY <3>1, <3>2 DEF Worse
        <3>4. QED
          BY <3>1, <3>3, <2>1, <2>3
      <2>6. ASSUME NEW x \in new, x \in GoodBlocks'
            PROVE  \E c \in candidates' \cap GoodBlocks' : ~Worse(c, x, sequenceId')
        <3>1. CASE ~Worse(x, tip, sequenceId')
          <4>1. ~Worse(x, x, sequenceId')
            BY <2>1, <2>2, WorseOrder
          <4>2. QED
            BY <4>1, <3>1, <2>1, <2>6
        <3>2. CASE Worse(x, tip, sequenceId')
          <4>1. PICK c \in candidates' \cap GoodBlocks' : ~Worse(c, tip, sequenceId')
            BY <2>5, TipGood DEF BestInv
          <4>2. c \in Block /\ x \in Block /\ tip \in Block
            BY <4>1, <2>2, Typed DEF GoodBlocks, IndexInv
          <4>3. ~Worse(c, x, sequenceId')
            BY <4>1, <4>2, <3>2, <2>1, WorseOrder
          <4>4. QED
            BY <4>1, <4>3
        <3>3. QED
          BY <3>1, <3>2
      <2>7. Covered'
        BY <2>3, <2>5, <2>6 DEF Covered
      <2>8. Preferred'
        <3>1. SUFFICES ASSUME "invalidate" \notin Commands
                       PROVE  /\ \E x \in GoodBlocks' : Work[x] >= lastPrecious
                              /\ \A x \in GoodBlocks' :
                                    /\ sequenceId'[x] < 0 => Work[x] <= lastPrecious
                                    /\ sequenceId'[x] <= reverseSequenceId => Work[x] < lastPrecious
          BY <1>1 DEF Preferred
        <3>2. /\ \E x \in GoodBlocks : Work[x] >= lastPrecious
              /\ \A x \in GoodBlocks :
                    /\ sequenceId[x] < 0 => Work[x] <= lastPrecious
                    /\ sequenceId[x] <= reverseSequenceId => Work[x] < lastPrecious
          BY <3>1 DEF BestInv, Preferred
        <3>4. ASSUME NEW x \in GoodBlocks'
              PROVE  /\ sequenceId'[x] < 0 => Work[x] <= lastPrecious
                     /\ sequenceId'[x] <= reverseSequenceId => Work[x] < lastPrecious
          <4>1. CASE x \in GoodBlocks
            BY <4>1, <3>2, <2>1, <2>4
          <4>2. CASE x \in new
            <5>1. sequenceId'[x] >= 0 /\ sequenceId'[x] \in Int
              BY <4>2, <2>1, <2>2
            <5>3. QED
              BY <5>1 DEF Reversed, IndexInv, TypeOK
          <4>3. QED
            BY <4>1, <4>2, <2>3
        <3>5. QED
          BY <3>2, <3>4, <2>3
      <2>9. QED
        BY <2>7, <2>8
    <1>4. QED
      BY <1>2, <1>3, ArrivesIs

(* BestInv, operation by operation.                                        *)
LEMMA ProcessNewBlockBest ==
    ASSUME IndexInv, Reversed, ChainInv, BestInv, Choosing,
           NEW t \in Thread, NEW b \in Block, NEW requested \in BOOLEAN, ProcessNewBlock(t, b, requested)
    PROVE  Covered' /\ TargetBest' /\ Resting' /\ Preferred' /\ ChainGood'
    <1>1. UNCHANGED <<tip, lastPrecious, reverseSequenceId>>
      BY DEF ProcessNewBlock
    <1>2. ChainGood'
      BY <1>1 DEF BestInv, ChainGood, Chain
    <1>3. CASE UNCHANGED <<linked, failed, sequenceId, candidates>> /\ EnterActivation(t)
      <2>1. GoodBlocks' = GoodBlocks
        BY <1>3, GoodSame
      <2>2. \A u \in Thread : mostWork'[u] = mostWork[u] \/ mostWork'[u] = None
        BY <1>3, EnterIs
      <2>3. QED
        BY <1>1, <1>2, <1>3, <2>1, <2>2, EnterAlone, BestStays DEF BestInv
    <1>4. CASE b \in BadContext /\ UNCHANGED <<linked, sequenceId, candidates, activating, mostWork>>
      <2>1. ~linked[b]
        BY <1>4, OtherAssumption DEF IndexInv, Rooted
      <2>2. CASE UNCHANGED failed
        BY <1>1, <1>2, <1>4, <2>2, GoodSame, BestStays DEF BestInv
      <2>3. CASE ~UNCHANGED failed
        <3>1. Spreads({b})
          BY <2>3, ProcessNewBlockSpreads
        <3>2. GoodBlocks' = GoodBlocks
          BY <3>1, <2>1, <1>4, GoodStays
        <3>3. QED
          BY <1>1, <1>2, <1>4, <3>2, BestStays DEF BestInv
      <2>4. QED
        BY <2>2, <2>3
    <1>5. CASE Arrives(b) /\ ~data[b] /\ EnterActivation(t)
      BY <1>2, <1>5, EnterAlone, ArrivesBest
    <1>6. QED
      BY <1>3, <1>4, <1>5, ProcessNewBlockIs

(* FindMostWorkChain keeps a good candidate for each good chain, and its   *)
(* choice is better than the others.                                       *)
LEMMA FoundCovers ==
    ASSUME IndexInv, BestInv, NEW t \in Thread, NEW found \in Found(t), NEW target, target = Target(t, found)
    PROVE  /\ \A b \in GoodBlocks : \E c \in found.candidates \cap GoodBlocks : ~Worse(c, b, sequenceId)
           /\ found.candidates \subseteq candidates
           /\ \A c \in found.candidates : c = target \/ Worse(c, target, sequenceId)
    <1>1. /\ Follows(found)
          /\ mostWork[t] # None => found = Start /\ target = mostWork[t]
          /\ mostWork[t] = None => \A c \in found.candidates : c = target \/ Worse(c, target, sequenceId)
      BY TargetIs
    <1>2. found.candidates \subseteq candidates /\ Spares(found.candidates)
      BY <1>1 DEF Follows
    <1>3. ASSUME NEW c \in candidates \cap GoodBlocks PROVE c \in found.candidates
      <2>1. c \in Block /\ linked[c] /\ \A a \in Ancestors[c] : failed[a] = {}
        BY DEF GoodBlocks
      <2>2. \A a \in Ancestors[c] : data[a]
        BY <2>1, LinkedDown, HasData DEF BestInv
      <2>3. QED
        BY <1>2, <2>1, <2>2 DEF Spares
    <1>4. mostWork[t] # None => \A c \in found.candidates : c = target \/ Worse(c, target, sequenceId)
      BY <1>1 DEF Start, BestInv, TargetBest
    <1>5. QED
      BY <1>1, <1>2, <1>3, <1>4 DEF BestInv, Covered

(* ActivateBestChain ends at the best chain: the target is a candidate as  *)
(* good as any, and a failed one is replaced.                              *)
LEMMA ActivateBest ==
    ASSUME IndexInv, Reversed, ChainInv, BestInv, Choosing, NEW t \in Thread, Activate(t)
    PROVE  Covered' /\ TargetBest' /\ Resting' /\ Preferred' /\ ChainGood'
    <1>f. PICK found \in Found(t) : \E target :
             /\ target = Target(t, found)
             /\ \/ ActivateDone(t, found, target)
                \/ ActivateAborts(t, found, target)
                \/ ActivateStep(t, found, target)
      BY ActivateFound
    <1>1. PICK target : /\ target = Target(t, found)
                        /\ \/ ActivateDone(t, found, target)
                           \/ ActivateAborts(t, found, target)
                           \/ ActivateStep(t, found, target)
      BY <1>f
    <1>2. /\ \A b \in GoodBlocks : \E c \in found.candidates \cap GoodBlocks : ~Worse(c, b, sequenceId)
          /\ found.candidates \subseteq candidates
          /\ \A c \in found.candidates : c = target \/ Worse(c, target, sequenceId)
      BY <1>1, FoundCovers
    <1>3. /\ target # None => target \in Block /\ linked[target]
          /\ target = None => found.candidates = {}
      BY <1>1, TargetIs
    <1>4. /\ sequenceId \in [Block -> Int] /\ tip \in Block /\ candidates \subseteq Block
          /\ mostWork \in [Thread -> Block \cup {None}]
          /\ GoodBlocks \subseteq Block /\ tip \in GoodBlocks
      BY Typed, TipGood DEF IndexInv, TypeOK, GoodBlocks, BestInv
    <1>5. \A u \in Thread : u = t
      BY ChoosingIs
    <1>6. UNCHANGED linked /\ GoodBlocks' = GoodBlocks
      <2> DEFINE S == {x \in BadConnect : linked[x]}
      <2>1. UNCHANGED linked /\ Spreads(S) /\ \A b \in S : b \in BadConnect
        BY ActivateSpreads
      <2> HIDE DEF S
      <2>2. QED
        BY <2>1, GoodStays
    <1>7. CASE ActivateAborts(t, found, target)
      <2>1. UNCHANGED <<candidates, sequenceId, tip, lastPrecious, reverseSequenceId, activating, mostWork>>
        BY <1>7 DEF ActivateAborts, index, sets, counters, threads
      <2>2. QED
        BY <2>1, <1>6, BestStays DEF BestInv, ChainGood, Chain
    <1>8. CASE ActivateDone(t, found, target)
      <2>1. /\ target \in {None, tip} /\ candidates' = found.candidates
            /\ mostWork' = [mostWork EXCEPT ![t] = None]
            /\ UNCHANGED <<sequenceId, tip, lastPrecious, reverseSequenceId>>
        BY <1>8 DEF ActivateDone, LeaveActivation, counters
      <2>2. Covered'
        BY <2>1, <1>2, <1>6 DEF Covered
      <2>3. TargetBest'
        BY <2>1, <1>4, <1>5 DEF TargetBest
      <2>4. Preferred' /\ ChainGood'
        BY <2>1, <1>6 DEF BestInv, Preferred, ChainGood, Chain
      <2>5. target = tip
        BY <2>1, <1>2, <1>3, <1>4
      <2>6. ASSUME NEW b \in GoodBlocks PROVE b = tip \/ Worse(b, tip, sequenceId)
        <3>1. PICK c \in found.candidates \cap GoodBlocks : ~Worse(c, b, sequenceId)
          BY <1>2
        <3>2. c = tip \/ Worse(c, tip, sequenceId)
          BY <3>1, <2>5, <1>2
        <3>3. QED
          BY <3>1, <3>2, <1>4, WorseOrder
      <2>7. Resting'
        BY <2>1, <2>6, <1>6 DEF Resting
      <2>8. QED
        BY <2>2, <2>3, <2>4, <2>7
    <1>9. CASE ActivateStep(t, found, target)
      <2>1. target \in Block /\ linked[target] /\ ~DataGone(target)
        BY <1>3, <1>9, SteppedIs
      <2>2. PICK newTip : newTip = StepTip(target)
        OBVIOUS
      <2>3. PICK kept : Stepped(t, found, target, newTip, kept)
        BY <1>9, <2>2, SteppedIs
      <2>4. PICK last : last = StepLast(target)
        OBVIOUS
      <2>5. /\ tip' = newTip /\ UNCHANGED <<sequenceId, lastPrecious, reverseSequenceId>>
            /\ kept \subseteq found.candidates
            /\ \A c \in found.candidates : ~Worse(c, newTip, sequenceId) => c \in kept
            /\ candidates' = kept \/ (StepInvalid(target) /\ candidates' = kept \ {last})
        BY <2>3, <2>4 DEF Stepped, counters
      <2>6. newTip \in Block
        BY <2>1, <2>2, StepIs
      <2>7. ChainGood'
        <3>1. \A x \in Ancestors[newTip] \ Chain : x \notin BadConnect
          BY <2>1, <2>2, StepIs
        <3>2. QED
          BY <3>1, <2>5 DEF BestInv, ChainGood, Chain
      <2>8. newTip \in GoodBlocks
        <3>1. NoFailedInChain' /\ linked[newTip]
          BY <2>1, <2>2, ActivateChain, ChoosingIs, StepIs DEF ChainInv
        <3>2. newTip \in GoodBlocks'
          BY <3>1, <2>5, <2>6, <2>7, <1>6 DEF GoodBlocks, NoFailedInChain, ChainGood, Chain
        <3>3. QED
          BY <3>2, <1>6
      <2>9. ASSUME NEW c \in kept \cap GoodBlocks PROVE c \in candidates'
        <3>1. c \in Block /\ c \notin BadConnect
          BY AncestorsEnds DEF GoodBlocks
        <3>2. StepInvalid(target) => last \in BadConnect
          BY <2>4 DEF StepInvalid
        <3>3. QED
          BY <3>1, <3>2, <2>5
      <2>10. ASSUME NEW b \in GoodBlocks PROVE \E c \in candidates' \cap GoodBlocks : ~Worse(c, b, sequenceId)
        <3>1. PICK c \in found.candidates \cap GoodBlocks : ~Worse(c, b, sequenceId)
          BY <1>2
        <3>2. CASE ~Worse(c, newTip, sequenceId)
          BY <3>1, <3>2, <2>5, <2>9
        <3>3. CASE Worse(c, newTip, sequenceId)
          <4>1. PICK d \in found.candidates \cap GoodBlocks : ~Worse(d, newTip, sequenceId)
            BY <1>2, <2>8
          <4>2. d \in candidates'
            BY <4>1, <2>5, <2>9
          <4>3. ~Worse(d, b, sequenceId)
            <5>1. d \in Block /\ b \in Block /\ c \in Block
              BY <4>1, <3>1, <1>4
            <5>2. ASSUME Worse(d, b, sequenceId) PROVE FALSE
              <6>1. c = b \/ Worse(b, c, sequenceId)
                BY <5>1, <3>1, <1>4, WorseOrder
              <6>2. Worse(d, c, sequenceId)
                BY <5>1, <5>2, <6>1, <1>4, WorseOrder
              <6>3. QED
                BY <6>2, <5>1, <4>1, <3>3, <2>6, <1>4, WorseOrder
            <5>3. QED
              BY <5>2
          <4>4. QED
            BY <4>1, <4>2, <4>3
        <3>4. QED
          BY <3>2, <3>3
      <2>11. Covered'
        BY <2>10, <2>5, <1>6 DEF Covered
      <2>12. \A c \in candidates' : c = target \/ Worse(c, target, sequenceId)
        BY <2>5, <1>2
      <2>13. TargetBest'
        <3>1. mostWork'[t] \in {None, target}
          BY <2>3, <1>4 DEF Stepped
        <3>2. QED
          BY <3>1, <2>5, <2>12, <1>5 DEF TargetBest
      <2>14. Resting'
        <3>1. activating' = {} => newTip = target
          BY <2>3 DEF Stepped, Activate
        <3>2. ASSUME newTip = target, NEW b \in GoodBlocks PROVE b = newTip \/ Worse(b, newTip, sequenceId)
          <4>1. PICK c \in candidates' \cap GoodBlocks : ~Worse(c, b, sequenceId)
            BY <2>10
          <4>2. c = newTip \/ Worse(c, newTip, sequenceId)
            BY <4>1, <2>12, <3>2
          <4>3. QED
            BY <4>1, <4>2, <2>6, <1>4, WorseOrder
        <3>3. QED
          BY <3>1, <3>2, <2>5, <1>6 DEF Resting
      <2>15. Preferred'
        BY <2>5, <1>6 DEF BestInv, Preferred
      <2>16. QED
        BY <2>7, <2>11, <2>13, <2>14, <2>15
    <1>10. QED
      BY <1>1, <1>7, <1>8, <1>9

(* A good chain of the index is there to be made a candidate again.        *)
LEMMA GoodIsValid ==
    ASSUME IndexInv, NEW b \in GoodBlocks
    PROVE  b \in known /\ linked[b] /\ failed[b] = {} /\ valid[b] >= VALID_TRANSACTIONS
    BY AncestorsEnds DEF GoodBlocks, IndexInv, Unseen, Rooted, Received

(* InvalidateBlock puts back the candidates that stand in for the chain it *)
(* gave up.                                                                *)
LEMMA InvalidateBest ==
    ASSUME IndexInv, ChainInv, BestInv, Choosing, NEW t \in Thread, NEW b \in Block, Invalidate(t, b)
    PROVE  Covered' /\ TargetBest' /\ Resting' /\ Preferred' /\ ChainGood'
    <1>1. UNCHANGED <<known, valid, processed, linked, sequenceId>> /\ EnterActivation(t) /\ "invalidate" \in Commands
      BY CommandIs DEF Invalidate
    <1>2. TargetBest' /\ Resting' /\ Preferred'
      BY <1>1, EnterAlone DEF Preferred
    <1>3. tip' \in Chain /\ tip \in Block
      BY InvalidateIs, Typed DEF IndexInv
    <1>4. Ancestors[tip'] \subseteq Chain /\ tip' \in Block
      BY <1>3, AncestorsTransitive, AncestorsIs DEF Chain
    <1>5. ChainGood'
      BY <1>4 DEF BestInv, ChainGood, Chain
    <1>6. CASE UNCHANGED <<failed, candidates>>
      <2>1. GoodBlocks' = GoodBlocks
        BY <1>1, <1>6, GoodSame
      <2>2. QED
        BY <1>1, <1>2, <1>5, <1>6, <2>1 DEF BestInv, Covered
    <1>7. CASE Readmitted(failed', tip') \subseteq candidates'
      <2>1. IndexInv' /\ ChainInv'
        BY InvalidateIndex, InvalidateChain, ChoosingIs
      <2>2. tip' \in GoodBlocks'
        BY <2>1, <1>4, <1>5 DEF GoodBlocks, ChainInv, NoFailedInChain, ChainGood, Chain, IndexInv, UsesLinked
      <2>3. ASSUME NEW x \in GoodBlocks', ~Worse(x, tip', sequenceId) PROVE x \in candidates'
        <3>1. x \in Block /\ linked[x] /\ failed'[x] = {}
          BY <1>1, AncestorsEnds DEF GoodBlocks
        <3>2. x \in known /\ valid[x] >= VALID_TRANSACTIONS
          BY <3>1 DEF IndexInv, Unseen, Rooted, Received
        <3>3. QED
          BY <3>1, <3>2, <2>3, <1>7 DEF Readmitted
      <2>4. ASSUME NEW x \in GoodBlocks' PROVE \E c \in candidates' \cap GoodBlocks' : ~Worse(c, x, sequenceId)
        <3>1. x \in Block /\ sequenceId \in [Block -> Int]
          BY Typed DEF GoodBlocks, IndexInv
        <3>2. CASE ~Worse(x, tip', sequenceId)
          BY <3>1, <3>2, <2>3, WorseOrder
        <3>3. CASE Worse(x, tip', sequenceId)
          <4>1. ~Worse(tip', tip', sequenceId) /\ ~Worse(tip', x, sequenceId)
            BY <3>1, <3>3, <1>4, WorseOrder
          <4>2. QED
            BY <4>1, <2>2, <2>3
        <3>4. QED
          BY <3>2, <3>3
      <2>5. QED
        BY <1>1, <1>2, <1>5, <2>4 DEF Covered
    <1>8. QED
      BY <1>6, <1>7, InvalidateIs

(* A restart makes every linked chain that is not worse a candidate.       *)
LEMMA RestartBest ==
    ASSUME IndexInv, ChainInv, BestInv, Choosing, NEW t \in Thread, Restart(t)
    PROVE  Covered' /\ TargetBest' /\ Resting' /\ Preferred' /\ ChainGood'
    <1>1. /\ sequenceId' = [x \in Block |-> 0] /\ reverseSequenceId' = -1 /\ lastPrecious' = 0
          /\ activating' = {t} /\ mostWork' = [x \in Thread |-> None]
          /\ UNCHANGED <<known, valid, processed, tip>>
      BY DEF Restart
    <1>2. candidates' = PruneCandidates(Reloaded(failed', linked'), tip, sequenceId')
      BY RestartIs
    <1>3. TargetBest' /\ Resting' /\ ChainGood'
      BY <1>1 DEF TargetBest, Resting, BestInv, ChainGood, Chain
    <1>4. IndexInv' /\ ChainInv'
      BY RestartIndex, RestartChain
    <1>5. tip \in GoodBlocks' /\ tip \in Block
      BY <1>1, <1>3, <1>4, Typed DEF GoodBlocks, ChainInv, NoFailedInChain, ChainGood, Chain, IndexInv, UsesLinked
    <1>6. sequenceId' \in [Block -> Int] /\ \A x \in Block : sequenceId'[x] = 0
      BY <1>1
    <1>7. ASSUME NEW x \in GoodBlocks', ~Worse(x, tip, sequenceId') PROVE x \in candidates'
      <2>1. x \in Block /\ linked'[x] /\ failed'[x] = {}
        BY AncestorsEnds DEF GoodBlocks
      <2>2. x \in known' /\ valid'[x] >= VALID_TRANSACTIONS
        BY <2>1, <1>4 DEF IndexInv, Unseen, Rooted, Received
      <2>3. QED
        BY <2>1, <2>2, <1>1, <1>2, <1>7 DEF PruneCandidates, Reloaded
    <1>8. ASSUME NEW x \in GoodBlocks' PROVE \E c \in candidates' \cap GoodBlocks' : ~Worse(c, x, sequenceId')
      <2>1. x \in Block
        BY DEF GoodBlocks
      <2>2. CASE ~Worse(x, tip, sequenceId')
        BY <2>1, <2>2, <1>6, <1>7, WorseOrder
      <2>3. CASE Worse(x, tip, sequenceId')
        <3>1. ~Worse(tip, tip, sequenceId') /\ ~Worse(tip, x, sequenceId')
          BY <2>1, <2>3, <1>5, <1>6, WorseOrder
        <3>2. QED
          BY <3>1, <1>5, <1>7
      <2>4. QED
        BY <2>2, <2>3
    <1>9. Preferred'
      <2>1. Work[tip] \in Nat
        BY <1>5, TreeAssumption
      <2>2. \A x \in GoodBlocks' : sequenceId'[x] = 0
        BY <1>6 DEF GoodBlocks
      <2>3. QED
        BY <2>1, <2>2, <1>1, <1>5 DEF Preferred
    <1>10. QED
      BY <1>3, <1>8, <1>9 DEF Covered

(* preciousblock is called when ActivateBestChain is not running, so the   *)
(* tip is the best good chain and a candidate.                             *)
LEMMA PreciousBest ==
    ASSUME IndexInv, Reversed, ChainInv, BestInv, Choosing, NEW t \in Thread, NEW b \in Block, Precious(t, b)
    PROVE  Covered' /\ TargetBest' /\ Resting' /\ Preferred' /\ ChainGood'
    <1> DEFINE reverse == IF Work[tip] > lastPrecious THEN -1 ELSE reverseSequenceId
               seq == [sequenceId EXCEPT ![b] = reverse]
               eligible == IsValid(b, VALID_TRANSACTIONS) /\ linked[b]
               kept == PruneCandidates(candidates \cup {b}, tip, seq)
    <1>1. /\ UNCHANGED <<failed, linked, tip>> /\ EnterActivation(t) /\ Command("precious") /\ t \notin activating
          /\ lastPrecious' = Work[tip] /\ sequenceId' = seq /\ reverseSequenceId' = reverse - 1
          /\ candidates' = IF eligible THEN kept ELSE candidates \ {b}
      BY DEF Precious
    <1>2. "invalidate" \notin Commands /\ activating = {}
      BY <1>1, CommandIs, ChoosingIs DEF IndexInv, TypeOK
    <1>3. TargetBest' /\ Resting' /\ ChainGood'
      BY <1>1, EnterAlone DEF BestInv, ChainGood, Chain
    <1>4. GoodBlocks' = GoodBlocks /\ GoodBlocks \subseteq Block
      BY <1>1, GoodSame DEF GoodBlocks
    <1>5. tip \in Block /\ tip \in GoodBlocks /\ \A x \in GoodBlocks : x = tip \/ Worse(x, tip, sequenceId)
      BY <1>2, Typed, TipGood DEF BestInv, Resting, IndexInv
    <1>6. /\ sequenceId \in [Block -> Int] /\ reverseSequenceId \in Int /\ reverseSequenceId < 0
          /\ lastPrecious \in Nat /\ \A x \in Block : Work[x] \in Nat
      BY Typed, TreeAssumption DEF IndexInv, TypeOK, Reversed
    <1>7. /\ reverse \in Int /\ reverse < 0 /\ seq \in [Block -> Int] /\ seq[b] = reverse
          /\ \A x \in Block \ {b} : seq[x] = sequenceId[x]
      BY <1>6
    <1>8. /\ \E x \in GoodBlocks : Work[x] >= lastPrecious
          /\ \A x \in GoodBlocks : /\ sequenceId[x] < 0 => Work[x] <= lastPrecious
                                   /\ sequenceId[x] <= reverseSequenceId => Work[x] < lastPrecious
      BY <1>2 DEF BestInv, Preferred
    <1>9. \A x \in GoodBlocks : Work[x] <= Work[tip]
      BY <1>4, <1>5, <1>6 DEF Worse
    <1>10. lastPrecious <= Work[tip]
      BY <1>4, <1>5, <1>6, <1>8, <1>9
    (* A good chain as good as the tip has a later number. *)
    <1>11. ASSUME NEW x \in GoodBlocks, Work[x] = Work[tip] PROVE sequenceId[x] > reverse
      <2>1. x \in Block /\ sequenceId[x] \in Int
        BY <1>4, <1>6
      <2>2. CASE Work[tip] > lastPrecious
        BY <2>1, <2>2, <1>5, <1>6, <1>8, <1>11
      <2>3. CASE ~(Work[tip] > lastPrecious)
        <3>1. reverse = reverseSequenceId
          BY <2>3
        <3>2. Work[tip] \in Nat /\ lastPrecious \in Nat /\ reverseSequenceId \in Int
          BY <1>5, <1>6
        <3>3. ~(Work[x] < lastPrecious)
          BY <3>2, <1>10, <1>11
        <3>4. sequenceId[x] <= reverseSequenceId => Work[x] < lastPrecious
          BY <1>8
        <3>5. ~(sequenceId[x] <= reverseSequenceId)
          BY <3>3, <3>4
        <3> HIDE DEF reverse
        <3>6. QED
          BY <2>1, <3>1, <3>2, <3>5
      <2>4. QED
        BY <2>2, <2>3
    <1>12. tip \in candidates
      <2>1. PICK c \in candidates \cap GoodBlocks : ~Worse(c, tip, sequenceId)
        BY <1>5 DEF BestInv, Covered
      <2>2. QED
        BY <2>1, <1>5
    <1>13. b \in GoodBlocks => eligible
      BY GoodIsValid DEF IsValid
    <1> HIDE DEF reverse, seq, eligible
    <1>14. tip \in candidates'
      <2>1. ~Worse(tip, tip, seq)
        BY <1>5, <1>7, WorseOrder
      <2>2. QED
        BY <2>1, <1>1, <1>5, <1>12, <1>13 DEF PruneCandidates
    <1>15. ASSUME NEW x \in GoodBlocks PROVE \E c \in candidates' \cap GoodBlocks : ~Worse(c, x, seq)
      <2>1. CASE x = tip
        BY <2>1, <1>5, <1>7, <1>14, WorseOrder
      <2>2. CASE x = b /\ ~Worse(b, tip, seq)
        <3>1. b \in candidates'
          BY <2>2, <1>1, <1>13 DEF PruneCandidates
        <3>2. QED
          BY <3>1, <2>2, <1>7, WorseOrder
      <2>3. CASE Worse(x, tip, seq)
        <3>1. ~Worse(tip, x, seq)
          BY <2>3, <1>4, <1>5, <1>7, WorseOrder
        <3>2. QED
          BY <3>1, <1>5, <1>14
      <2>4. ASSUME x # tip, x # b PROVE Worse(x, tip, seq)
        <3>1. Worse(x, tip, sequenceId) /\ x \in Block /\ seq[x] = sequenceId[x]
          BY <2>4, <1>4, <1>5, <1>7
        <3>2. CASE tip # b
          <4>1. seq[tip] = sequenceId[tip]
            BY <3>2, <1>5, <1>7
          <4>2. QED
            BY <3>1, <4>1 DEF Worse
        <3>3. CASE tip = b
          <4>1. seq[tip] = reverse /\ (Work[x] = Work[tip] => seq[x] > reverse)
            BY <3>1, <3>3, <1>7, <1>11
          <4>2. Work[x] < Work[tip] \/ Work[x] = Work[tip]
            BY <3>1 DEF Worse
          <4>3. QED
            BY <4>1, <4>2 DEF Worse
        <3>4. QED
          BY <3>2, <3>3
      <2>5. QED
        BY <2>1, <2>2, <2>3, <2>4
    <1>16. Covered'
      BY <1>1, <1>4, <1>15 DEF Covered
    <1>17. Preferred'
      <2>1. ASSUME NEW x \in GoodBlocks PROVE seq[x] <= reverse - 1 => Work[x] < Work[tip]
        <3>1. x \in Block /\ Work[x] <= Work[tip] /\ seq[x] \in Int
          BY <1>4, <1>7, <1>9
        <3>2. CASE x = b
          BY <3>2, <1>7
        <3>3. CASE x # b
          <4>1. seq[x] = sequenceId[x] /\ (Work[x] = Work[tip] => sequenceId[x] > reverse)
            BY <3>1, <3>3, <1>7, <1>11
          <4>2. QED
            BY <4>1, <3>1, <1>5, <1>6, <1>7
        <3>4. QED
          BY <3>2, <3>3
      <2>2. Work[tip] >= Work[tip]
        BY <1>5, <1>6
      <2>3. QED
        BY <2>1, <2>2, <1>1, <1>4, <1>5, <1>9 DEF Preferred
    <1>18. QED
      BY <1>3, <1>16, <1>17

(* BestInv is inductive.                                                   *)
LEMMA NextBest ==
    ASSUME IndexInv, Reversed, ChainInv, BestInv, Choosing, [Next]_vars
    PROVE  BestInv'
    <1>1. Kept'
      BY NextKept, ChoosingIs DEF BestInv
    <1>2. CASE UNCHANGED <<linked, failed, candidates, sequenceId, tip, lastPrecious, reverseSequenceId,
                           activating, mostWork>>
      <2>1. GoodBlocks' = GoodBlocks
        BY <1>2, GoodSame
      <2>2. QED
        BY <1>1, <1>2, <2>1, BestStays DEF BestInv, ChainGood, Chain
    <1>3. ASSUME NEW b \in Block, AcceptHeader(b) \/ Prune(b) PROVE BestInv'
      BY <1>2, <1>3 DEF AcceptHeader, Prune, sets, counters, threads
    <1>4. ASSUME NEW t \in Thread, NEW b \in Block, Reconsider(t, b) PROVE FALSE
      BY <1>4, CommandIs, ChoosingIs DEF Reconsider
    <1>5. UNCHANGED vars => BestInv'
      BY <1>2 DEF vars, index, sets, counters, threads
    <1>6. ASSUME Covered' /\ TargetBest' /\ Resting' /\ Preferred' /\ ChainGood' PROVE BestInv'
      BY <1>1, <1>6 DEF BestInv
    <1>7. ASSUME Next PROVE BestInv'
      BY <1>3, <1>4, <1>6, <1>7, RejectHeaderBest, ActivateBest, RestartBest, ProcessNewBlockBest,
         InvalidateBest, PreciousBest DEF Next
    <1>8. QED
      BY <1>5, <1>7

(* Genesis is the best block at first.                                     *)
LEMMA InitBest == Init => BestInv
    <1> SUFFICES ASSUME Init PROVE BestInv
      OBVIOUS
    <1>1. /\ tip = Genesis /\ Chain = {Genesis} /\ mostWork = [t \in Thread |-> None] /\ candidates = {Genesis}
          /\ \A b \in Block : linked[b] <=> b = Genesis
          /\ failed = [b \in Block |-> {}] /\ lastPrecious = 0 /\ reverseSequenceId = -1
          /\ sequenceId = [b \in Block |-> IF b = Genesis THEN 1 ELSE 0]
          /\ unlinked = {} /\ ~havePruned
      BY AncestorsIs DEF Init, Chain
    <1>2. Genesis \in Block /\ Genesis \notin BadConnect /\ Work[Genesis] \in Nat
      BY TreeAssumption, OtherAssumption
    <1>3. GoodBlocks = {Genesis}
      BY <1>1, <1>2, AncestorsIs DEF GoodBlocks
    <1>4. Kept /\ ChainGood /\ TargetBest /\ Resting
      BY <1>1, <1>2, <1>3 DEF Kept, ChainGood, TargetBest, Resting
    <1>5. Covered
      <2>1. sequenceId \in [Block -> Int]
        BY <1>1
      <2>2. ~Worse(Genesis, Genesis, sequenceId)
        BY <1>2, <2>1, WorseOrder
      <2>3. QED
        BY <2>2, <1>1, <1>3 DEF Covered
    <1>6. Preferred
      <2>1. sequenceId[Genesis] = 1
        BY <1>1, <1>2
      <2>2. QED
        BY <2>1, <1>1, <1>2, <1>3 DEF Preferred
    <1>7. QED
      BY <1>4, <1>5, <1>6 DEF BestInv

(* BestInv in every reachable state.                                       *)
LEMMA BestInvariant ==
    ASSUME Choosing
    PROVE  Spec => []BestInv
    <1>1. IndexInv /\ Reversed /\ ChainInv /\ BestInv /\ [Next]_vars => BestInv'
      BY NextBest
    <1>2. Spec => []ChainInv
      BY ChainInvariant, ChoosingIs
    <1>3. QED
      BY <1>1, <1>2, InitBest, IndexInvariant, PTL DEF Spec

(* "either failure or an activated best chain": when ActivateBestChain has *)
(* returned, no chain that was received, is not marked and connects is     *)
(* better than the active one, in whatever order blocks came, wherever a   *)
(* bad block turned up, and after invalidations or preferences and         *)
(* restarts; for one caller, without pruning and reconsiderblock.          *)
THEOREM BestIsActive ==
    ASSUME Choosing
    PROVE  Spec => []BestChainActive
    <1>1. ASSUME IndexInv, BestInv PROVE BestChainActive
      <2>1. ASSUME NEW b \in known, Usable(b) PROVE b \in GoodBlocks
        <3>1. b \in Block
          BY <1>1, Typed DEF IndexInv
        <3>2. \A a \in Ancestors[b] : a \notin BadConnect
          BY <1>1, <2>1 DEF Usable, BestInv, ChainGood
        <3>3. QED
          BY <3>1, <3>2, <2>1 DEF Usable, GoodBlocks
      <2>2. QED
        BY <1>1, <2>1 DEF BestChainActive, BestInv, Resting
    <1>2. QED
      BY <1>1, BestInvariant, IndexInvariant, PTL

-----------------------------------------------------------------------------
(* setBlockIndexCandidates itself, under the same conditions.              *)

(* The chains FindMostWorkChain has no reason to refuse: they include      *)
(* those that will fail to connect.                                        *)
SoundBlocks == {b \in Block : linked[b] /\ \A a \in Ancestors[b] : failed[a] = {}}

(* The candidates are complete from some good chain upwards.  The tip may  *)
(* be below it, while ActivateBestChain has left the old tip for a branch  *)
(* that failed and has not gone back to it yet.                            *)
FloorAt(c) == \A b \in SoundBlocks : ~Worse(b, c, sequenceId) => b \in candidates
Floor == \E c \in candidates \cap GoodBlocks : FloorAt(c)

(* None is worse than the tip.                                             *)
Better == \A c \in candidates : ~Worse(c, tip, sequenceId)

(* Once ActivateBestChain has returned, only the tip is left.              *)
Rested ==
    activating = {} =>
        /\ candidates = {tip}
        /\ \A b \in SoundBlocks : b = tip \/ Worse(b, tip, sequenceId)

(* A target kept from an earlier step is still a candidate.                *)
Holding == \A t \in Thread : mostWork[t] # None => mostWork[t] \in candidates \cap SoundBlocks

(* Preferred, for chains that may fail as well.                            *)
Outranked ==
    "invalidate" \notin Commands =>
        \A b \in SoundBlocks :
            /\ sequenceId[b] < 0 => Work[b] <= lastPrecious
            /\ sequenceId[b] <= reverseSequenceId => Work[b] < lastPrecious

(* g_failed_blocks holds blocks that are marked themselves.                *)
Blamed == \A f \in failedBlocks : "VALID" \in failed[f]

CandidateInv == Floor /\ Better /\ Rested /\ Holding /\ Outranked /\ Blamed /\ NoAssertFails

(* A sound chain was received and is in the index.                         *)
LEMMA SoundIs ==
    ASSUME IndexInv, NEW b \in SoundBlocks
    PROVE  /\ b \in Block /\ b \in known /\ linked[b] /\ failed[b] = {} /\ valid[b] >= VALID_TRANSACTIONS
           /\ \A a \in Ancestors[b] : failed[a] = {}
    BY AncestorsEnds DEF SoundBlocks, IndexInv, Unseen, Rooted, Received

(* A good block, which is not bad either, is sound.                        *)
LEMMA GoodSound == GoodBlocks \subseteq SoundBlocks /\ SoundBlocks \subseteq Block
    BY DEF GoodBlocks, SoundBlocks

(* Marks that only spread leave no new sound chain, and those on blocks    *)
(* that are not linked change nothing.                                     *)
LEMMA SoundShrinks ==
    ASSUME UNCHANGED linked, NEW S, Spreads(S)
    PROVE  /\ SoundBlocks' \subseteq SoundBlocks
           /\ IndexInv /\ (\A b \in S : ~linked[b]) => SoundBlocks' = SoundBlocks
    <1>1. ASSUME NEW b \in Block, NEW a \in Ancestors[b], failed'[a] = {} PROVE failed[a] = {}
      BY <1>1, AncestorsIs DEF Spreads
    <1>2. ASSUME IndexInv, \A b \in S : ~linked[b], NEW b \in SoundBlocks, NEW a \in Ancestors[b]
          PROVE  failed'[a] = {}
      <2>1. b \in Block /\ linked[b] /\ a \in Block /\ failed[a] = {}
        BY AncestorsIs DEF SoundBlocks
      <2>2. Ancestors[a] \subseteq Ancestors[b]
        BY <2>1, AncestorsTransitive
      <2>3. \A c \in Ancestors[b] : failed[c] = {} /\ c \notin S
        BY <1>2, <2>1, LinkedDown DEF SoundBlocks
      <2>4. QED
        BY <2>1, <2>2, <2>3 DEF Spreads
    <1>3. SoundBlocks' \subseteq SoundBlocks
      BY <1>1 DEF SoundBlocks
    <1>4. IndexInv /\ (\A b \in S : ~linked[b]) => SoundBlocks \subseteq SoundBlocks'
      BY <1>2 DEF SoundBlocks
    <1>5. QED
      BY <1>3, <1>4

(* Sound blocks are a matter of links and marks.                           *)
LEMMA SoundSame ==
    ASSUME UNCHANGED <<linked, failed>>
    PROVE  SoundBlocks' = SoundBlocks
    BY DEF SoundBlocks

(* An ancestor is worse.                                                   *)
LEMMA AncestorWorse ==
    ASSUME NEW b \in Block, NEW a \in Ancestors[b], NEW seq \in [Block -> Int]
    PROVE  a = b \/ Worse(a, b, seq)
    <1> DEFINE T == {z \in Block : \A y \in Ancestors[z] : y = z \/ Work[y] < Work[z]}
    <1>1. Genesis \in T
      BY AncestorsIs, TreeAssumption
    <1>2. ASSUME NEW z \in Block \ {Genesis}, Parent[z] \in T PROVE z \in T
      <2>1. Ancestors[z] = {z} \cup Ancestors[Parent[z]] /\ Work[Parent[z]] < Work[z] /\ Parent[z] \in Block
        BY AncestorsIs, TreeAssumption
      <2>2. \A y \in Ancestors[z] : y \in Block /\ Work[y] \in Nat /\ Work[z] \in Nat /\ Work[Parent[z]] \in Nat
        BY AncestorsIs, TreeAssumption
      <2>3. QED
        BY <1>2, <2>1, <2>2
    <1> HIDE DEF T
    <1>3. Block \subseteq T
      BY <1>1, <1>2, BlockInduction
    <1>4. QED
      BY <1>3 DEF T, Worse

(* What is in S and not worse than c is in T.                              *)
FromUp(S, c, T, seq) == \A x \in S : ~Worse(x, c, seq) => x \in T

(* The tip is raised: the candidates that are left are complete from some  *)
(* good chain upwards.                                                     *)
LEMMA FloorRises ==
    ASSUME NEW seq \in [Block -> Int], NEW S \in SUBSET Block, NEW G \in SUBSET S, NEW cand, NEW kept,
           NEW low \in cand \cap G, FromUp(S, low, cand, seq), NEW high \in G, FromUp(cand, high, kept, seq)
    PROVE  \E c \in kept \cap G : FromUp(S, c, kept, seq)
    <1>1. low \in Block /\ high \in Block /\ low \in S /\ high \in S
      OBVIOUS
    <1>2. CASE ~Worse(low, high, seq)
      <2>1. ASSUME NEW x \in S, ~Worse(x, low, seq) PROVE x \in kept
        <3>1. x \in Block
          OBVIOUS
        <3>2. ~Worse(x, high, seq)
          BY <1>1, <1>2, <2>1, <3>1, WorseOrder
        <3>3. QED
          BY <2>1, <3>2 DEF FromUp
      <2>2. low \in kept
        BY <1>2 DEF FromUp
      <2>3. QED
        BY <2>1, <2>2 DEF FromUp
    <1>3. CASE Worse(low, high, seq)
      <2>1. ASSUME NEW x \in S, ~Worse(x, high, seq) PROVE x \in kept
        <3>1. x \in Block
          OBVIOUS
        <3>2. ~Worse(x, low, seq)
          BY <1>1, <1>3, <2>1, <3>1, WorseOrder
        <3>3. QED
          BY <2>1, <3>2 DEF FromUp
      <2>2. ~Worse(high, high, seq)
        BY <1>1, WorseOrder
      <2>3. high \in kept
        BY <1>1, <2>1, <2>2
      <2>4. QED
        BY <2>1, <2>3 DEF FromUp
    <1>4. QED
      BY <1>2, <1>3

(* Blamed holds whatever the commands, but for reconsiderblock.            *)
LEMMA NextBlamed ==
    ASSUME IndexInv, "reconsider" \notin Commands, Blamed, [Next]_vars
    PROVE  Blamed'
    <1>1. ASSUME failedBlocks' \subseteq failedBlocks, \A x \in Block : failed[x] \subseteq failed'[x] PROVE Blamed'
      BY <1>1 DEF Blamed, IndexInv, TypeOK
    <1>2. ASSUME NEW S, Spreads(S), failedBlocks' \subseteq failedBlocks PROVE Blamed'
      BY <1>1, <1>2 DEF Spreads
    <1>3. ASSUME UNCHANGED <<failed, failedBlocks>> PROVE Blamed'
      BY <1>3 DEF Blamed
    <1>4. ASSUME NEW b \in Block, RejectHeader(b) PROVE Blamed'
      BY <1>2, <1>4, RejectHeaderSpreads DEF RejectHeader, sets
    <1>5. ASSUME NEW t \in Thread, NEW b \in Block, NEW requested \in BOOLEAN, ProcessNewBlock(t, b, requested)
          PROVE  Blamed'
      <2>1. UNCHANGED failedBlocks
        BY <1>5 DEF ProcessNewBlock, ReceivedBlockTransactions, sets
      <2>2. QED
        BY <1>2, <1>3, <1>5, <2>1, ProcessNewBlockSpreads
    <1>6. ASSUME NEW t \in Thread, Activate(t) PROVE Blamed'
      <2>f. PICK found \in Found(t) : \E target :
               /\ target = Target(t, found)
               /\ \/ ActivateDone(t, found, target)
                  \/ ActivateAborts(t, found, target)
                  \/ ActivateStep(t, found, target)
        BY <1>6, ActivateFound
      <2>1. PICK target : /\ target = Target(t, found)
                          /\ \/ ActivateDone(t, found, target)
                             \/ ActivateAborts(t, found, target)
                             \/ ActivateStep(t, found, target)
        BY <2>f
      <2>2. CASE UNCHANGED failedBlocks
        BY <1>2, <1>6, <2>2, ActivateSpreads
      <2>3. CASE ActivateStep(t, found, target) /\ ~UNCHANGED failedBlocks
        <3>1. PICK kept : Stepped(t, found, target, StepTip(target), kept)
          BY <2>3, SteppedIs
        <3>2. PICK last : last = StepLast(target)
          OBVIOUS
        <3>3. /\ failed' = [found.failed EXCEPT ![last] = @ \cup {"VALID"}]
              /\ failedBlocks' = failedBlocks \cup {last}
              /\ StepInvalid(target)
          BY <2>3, <3>1, <3>2 DEF Stepped
        <3>4. target \in Block /\ linked[target] /\ ~DataGone(target) /\ Follows(found)
          BY <2>1, <2>3, TargetIs, SteppedIs
        <3>5. last \in Block
          <4>1. PICK newTip : newTip = StepTip(target)
            OBVIOUS
          <4>2. QED
            BY <3>2, <3>3, <3>4, <4>1, StepIs
        <3>6. found.failed \in [Block -> SUBSET {"VALID", "CHILD"}]
          BY <3>4 DEF Follows, SearchState
        <3>7. "VALID" \in failed'[last]
          BY <3>3, <3>5, <3>6
        <3>8. \A x \in Block : failed[x] \subseteq failed'[x]
          BY <1>6, ActivateSpreads DEF Spreads
        <3>9. failedBlocks \subseteq Block
          BY DEF IndexInv, TypeOK
        <3>10. QED
          BY <3>3, <3>7, <3>8, <3>9 DEF Blamed
      <2>4. QED
        BY <2>1, <2>2, <2>3 DEF ActivateDone, ActivateAborts, sets
    <1>7. ASSUME NEW t \in Thread, NEW b \in Block, Invalidate(t, b) PROVE Blamed'
      <2>1. CASE UNCHANGED <<failed, failedBlocks>>
        BY <1>3, <2>1
      <2>2. CASE ~UNCHANGED <<failed, failedBlocks>>
        <3>1. /\ failed'[b] = failed[b] \cup {"VALID"}
              /\ \A x \in Block \ {b} : failed'[x] = failed[x] \/ failed'[x] = failed[x] \cup {"CHILD"}
              /\ failedBlocks' = failedBlocks \cup {b}
          BY <1>7, <2>2, InvalidateIs
        <3>2. failedBlocks \subseteq Block
          BY DEF IndexInv, TypeOK
        <3>3. QED
          BY <3>1, <3>2 DEF Blamed
      <2>3. QED
        BY <2>1, <2>2
    <1>8. ASSUME NEW t \in Thread, Restart(t) PROVE Blamed'
      BY <1>8 DEF Restart, Blamed
    <1>9. ASSUME NEW t \in Thread, NEW b \in Block, Reconsider(t, b) PROVE FALSE
      BY <1>9, CommandIs DEF Reconsider
    <1>10. ASSUME NEW t \in Thread, NEW b \in Block, Precious(t, b) PROVE Blamed'
      BY <1>3, <1>10 DEF Precious
    <1>11. ASSUME NEW b \in Block, AcceptHeader(b) \/ Prune(b) PROVE Blamed'
      BY <1>3, <1>11 DEF AcceptHeader, Prune, sets
    <1>12. UNCHANGED vars => Blamed'
      BY <1>3 DEF vars, index, sets
    <1>13. Next => Blamed'
      BY <1>4, <1>5, <1>6, <1>7, <1>8, <1>9, <1>10, <1>11 DEF Next
    <1>14. QED
      BY <1>12, <1>13

(* What the steps have to show, Blamed apart.                              *)
ChoiceInv == Floor /\ Better /\ Rested /\ Holding /\ Outranked

(* Steps that leave candidates, their order and the tip alone.             *)
LEMMA ChoiceStays ==
    ASSUME ChoiceInv, GoodBlocks' = GoodBlocks, SoundBlocks' = SoundBlocks,
           UNCHANGED <<candidates, sequenceId, tip, lastPrecious, reverseSequenceId>>,
           UNCHANGED activating \/ activating' # {},
           \A u \in Thread : mostWork'[u] = mostWork[u] \/ mostWork'[u] = None
    PROVE  ChoiceInv'
    <1>1. Floor'
      BY DEF ChoiceInv, Floor, FloorAt
    <1>2. Better' /\ Rested'
      BY DEF ChoiceInv, Better, Rested
    <1>3. Holding'
      BY DEF ChoiceInv, Holding
    <1>4. Outranked'
      BY DEF ChoiceInv, Outranked
    <1>5. QED
      BY <1>1, <1>2, <1>3, <1>4 DEF ChoiceInv

(* With one caller nobody is activating when another call is entered; then *)
(* no target is held.                                                      *)
LEMMA EnterChoice ==
    ASSUME IndexInv, Choosing, NEW t \in Thread, EnterActivation(t)
    PROVE  /\ activating' # {} /\ Holding' /\ Rested'
           /\ t \notin activating => activating = {}
    <1>1. \A u \in Thread : mostWork'[u] = None /\ u = t
      BY EnterIs, ChoosingIs
    <1>2. activating' # {}
      BY DEF EnterActivation
    <1>3. activating \subseteq Thread
      BY DEF IndexInv, TypeOK
    <1>4. QED
      BY <1>1, <1>2, <1>3 DEF Holding, Rested

(* ChoiceInv, operation by operation.                                      *)
LEMMA RejectHeaderChoice ==
    ASSUME IndexInv, ChoiceInv, Blamed, NoAssertFails, NEW b \in Block, RejectHeader(b)
    PROVE  ChoiceInv' /\ NoAssertFails'
    <1>1. UNCHANGED <<linked, candidates, sequenceId, tip, lastPrecious, reverseSequenceId, activating, mostWork>>
      BY DEF RejectHeader, sets, counters, threads
    <1>2. GoodBlocks' = GoodBlocks /\ SoundBlocks' = SoundBlocks
      BY <1>1, RejectHeaderSpreads, GoodStays, SoundShrinks
    <1>3. NoAssertFails'
      <2>1. \A f \in FailedAncestors(Parent[b]) : f \in failedBlocks
        BY DEF FailedAncestors
      <2>2. QED
        BY <2>1 DEF RejectHeader, Blamed, NoAssertFails
    <1>4. QED
      BY <1>1, <1>2, <1>3, ChoiceStays

(* The blocks that an arrival links become candidates if they are not      *)
(* worse than the tip.                                                     *)
LEMMA ArrivesChoice ==
    ASSUME IndexInv, IndexInv', Reversed, ChainInv, BestInv, ChoiceInv, Choosing, NEW t \in Thread,
           EnterActivation(t), t \notin activating, NEW b \in Block, Arrives(b), ~data[b]
    PROVE  ChoiceInv'
    <1>1. UNCHANGED <<failed, tip, lastPrecious, reverseSequenceId>>
      BY DEF Arrives
    <1>2. CASE ~linked[Parent[b]] /\ HoldBlock(b)
      <2>1. UNCHANGED <<linked, candidates, sequenceId>>
        BY <1>2, ArrivesHeld
      <2>2. GoodBlocks' = GoodBlocks /\ SoundBlocks' = SoundBlocks
        BY <1>1, <2>1, GoodSame, SoundSame
      <2>3. QED
        BY <1>1, <2>1, <2>2, EnterChoice, EnterIs, ChoiceStays
    <1>3. CASE LinkBlocks(b)
      <2> DEFINE new == NowLinked(b)
      <2>1. /\ \A x \in Block : linked'[x] <=> x \in new \/ linked[x]
            /\ sequenceId' \in [Block -> Int]
            /\ \A x \in Block \ new : sequenceId'[x] = sequenceId[x]
            /\ \A x \in new : sequenceId'[x] >= 0
            /\ \A x \in new : ~Worse(x, tip, sequenceId') => x \in candidates'
            /\ candidates \subseteq candidates'
        BY <1>3, LinkBlocksIs
      <2>2. \A x \in new : x \in Block /\ ~linked[x]
        BY ArrivesKept, NowLinkedIs DEF BestInv, Kept
      <2>3. \A x \in candidates' \ candidates : ~Worse(x, tip, sequenceId')
        BY <1>3 DEF LinkBlocks
      <2> HIDE DEF new
      <2>4. tip \in GoodBlocks /\ tip \in Block /\ tip \notin new
        BY <2>2, TipGood, Typed DEF BestInv, IndexInv, UsesLinked
      <2>5. GoodBlocks \subseteq GoodBlocks' /\ SoundBlocks' \subseteq SoundBlocks \cup new
        BY <1>1, <2>1 DEF GoodBlocks, SoundBlocks
      <2>6. \A x \in SoundBlocks : x \in Block /\ x \notin new
        BY <2>2 DEF SoundBlocks
      <2>7. candidates = {tip} /\ \A x \in SoundBlocks : x = tip \/ Worse(x, tip, sequenceId)
        BY EnterChoice DEF ChoiceInv, Rested
      <2>8. ASSUME NEW x \in SoundBlocks PROVE x = tip \/ Worse(x, tip, sequenceId')
        BY <2>1, <2>4, <2>6, <2>7 DEF Worse
      <2>9. Floor'
        BY <1>1, <2>1, <2>4, <2>5, <2>7, <2>8 DEF Floor, FloorAt
      <2>10. Better'
        <3>1. ~Worse(tip, tip, sequenceId')
          BY <2>1, <2>4, WorseOrder
        <3>2. QED
          BY <3>1, <1>1, <2>3, <2>7 DEF Better
      <2>11. Outranked'
        <3>1. SUFFICES ASSUME "invalidate" \notin Commands, NEW x \in SoundBlocks'
                       PROVE  /\ sequenceId'[x] < 0 => Work[x] <= lastPrecious
                              /\ sequenceId'[x] <= reverseSequenceId => Work[x] < lastPrecious
          BY <1>1 DEF Outranked
        <3>2. CASE x \in SoundBlocks
          BY <3>1, <3>2, <2>1, <2>6 DEF ChoiceInv, Outranked
        <3>3. CASE x \in new
          <4>1. sequenceId'[x] >= 0 /\ sequenceId'[x] \in Int
            BY <3>3, <2>1, <2>2
          <4>2. QED
            BY <4>1 DEF Reversed, IndexInv, TypeOK
        <3>4. QED
          BY <3>2, <3>3, <2>5
      <2>12. QED
        BY <2>9, <2>10, <2>11, EnterChoice DEF ChoiceInv
    <1>4. QED
      BY <1>2, <1>3, ArrivesIs

(* ProcessNewBlock keeps the candidates complete and fails no assert.      *)
LEMMA ProcessNewBlockChoice ==
    ASSUME IndexInv, IndexInv', Reversed, ChainInv, BestInv, ChoiceInv, NoAssertFails, Choosing,
           NEW t \in Thread, NEW b \in Block, NEW requested \in BOOLEAN, ProcessNewBlock(t, b, requested)
    PROVE  ChoiceInv' /\ NoAssertFails'
    <1>1. UNCHANGED <<tip, lastPrecious, reverseSequenceId>> /\ NoAssertFails'
      BY DEF ProcessNewBlock, NoAssertFails
    <1>2. CASE UNCHANGED <<linked, failed, sequenceId, candidates>> /\ EnterActivation(t)
      <2>1. GoodBlocks' = GoodBlocks /\ SoundBlocks' = SoundBlocks
        BY <1>2, GoodSame, SoundSame
      <2>2. QED
        BY <1>1, <1>2, <2>1, EnterChoice, EnterIs, ChoiceStays
    <1>3. CASE b \in BadContext /\ UNCHANGED <<linked, sequenceId, candidates, activating, mostWork>>
      <2>1. ~linked[b]
        BY <1>3, OtherAssumption DEF IndexInv, Rooted
      <2>2. CASE UNCHANGED failed
        BY <1>1, <1>3, <2>2, GoodSame, SoundSame, ChoiceStays
      <2>3. CASE ~UNCHANGED failed
        <3>1. Spreads({b})
          BY <2>3, ProcessNewBlockSpreads
        <3>2. GoodBlocks' = GoodBlocks /\ SoundBlocks' = SoundBlocks
          BY <3>1, <2>1, <1>3, GoodStays, SoundShrinks
        <3>3. QED
          BY <1>1, <1>3, <3>2, ChoiceStays
      <2>4. QED
        BY <2>2, <2>3
    <1>4. CASE Arrives(b) /\ ~data[b] /\ EnterActivation(t) /\ t \notin activating
      BY <1>1, <1>4, ArrivesChoice
    <1>5. QED
      BY <1>2, <1>3, <1>4, ProcessNewBlockIs

(* A good tip, with the candidates complete from there.                    *)
LEMMA FloorOfTip ==
    ASSUME IndexInv', tip' \in GoodBlocks',
           \A x \in SoundBlocks' : ~Worse(x, tip', sequenceId') => x \in candidates'
    PROVE  Floor' /\ ~Worse(tip', tip', sequenceId')
    <1>1. tip' \in Block /\ sequenceId' \in [Block -> Int]
      BY DEF IndexInv, TypeOK
    <1>2. ~Worse(tip', tip', sequenceId')
      BY <1>1, WorseOrder
    <1>3. tip' \in SoundBlocks'
      BY DEF GoodBlocks, SoundBlocks
    <1>4. QED
      BY <1>2, <1>3 DEF Floor, FloorAt

(* InvalidateBlock keeps the candidates complete and fails no assert.      *)
LEMMA InvalidateChoice ==
    ASSUME IndexInv, IndexInv', ChainInv, ChainInv', BestInv, BestInv', ChoiceInv, NoAssertFails, Choosing,
           NEW t \in Thread, NEW b \in Block, Invalidate(t, b)
    PROVE  ChoiceInv' /\ NoAssertFails'
    <1>1. /\ UNCHANGED <<known, valid, linked, sequenceId, node>> /\ EnterActivation(t)
          /\ t \notin activating /\ "invalidate" \in Commands
          /\ candidates' \subseteq candidates \cup Readmitted(failed', tip')
      BY CommandIs DEF Invalidate
    <1>2. Rested' /\ Holding' /\ Outranked' /\ NoAssertFails'
      BY <1>1, EnterChoice DEF Outranked, NoAssertFails
    <1>3. tip' \in Chain /\ tip \in Block /\ tip' \in Block /\ sequenceId \in [Block -> Int]
      BY InvalidateIs, Typed, AncestorsIs DEF IndexInv, Chain
    <1>4. candidates = {tip} /\ \A x \in SoundBlocks : x = tip \/ Worse(x, tip, sequenceId)
      BY <1>1, EnterChoice DEF ChoiceInv, Rested
    <1>5. tip' = tip \/ Worse(tip', tip, sequenceId)
      BY <1>3, AncestorWorse DEF Chain
    <1>6. Better'
      <2>1. ~Worse(tip, tip', sequenceId)
        BY <1>3, <1>5, WorseOrder
      <2>2. QED
        BY <2>1, <1>1, <1>4 DEF Better, Readmitted
    <1>7. CASE UNCHANGED <<failed, candidates>>
      <2>1. GoodBlocks' = GoodBlocks /\ SoundBlocks' = SoundBlocks
        BY <1>1, <1>7, GoodSame, SoundSame
      <2>2. Floor'
        BY <1>1, <1>7, <2>1 DEF ChoiceInv, Floor, FloorAt
      <2>3. QED
        BY <2>2, <1>2, <1>6 DEF ChoiceInv
    <1>8. CASE Readmitted(failed', tip') \subseteq candidates'
      <2>1. tip' \in GoodBlocks'
        BY <1>3 DEF GoodBlocks, ChainInv, NoFailedInChain, BestInv, ChainGood, Chain, IndexInv, UsesLinked
      <2>2. ASSUME NEW x \in SoundBlocks', ~Worse(x, tip', sequenceId') PROVE x \in candidates'
        <3>1. x \in Block /\ linked[x] /\ failed'[x] = {}
          BY <1>1, AncestorsEnds DEF SoundBlocks
        <3>2. x \in known /\ valid[x] >= VALID_TRANSACTIONS
          BY <3>1 DEF IndexInv, Unseen, Rooted, Received
        <3>3. QED
          BY <3>1, <3>2, <2>2, <1>1, <1>8 DEF Readmitted
      <2>3. QED
        BY <1>2, <1>6, <2>1, <2>2, FloorOfTip DEF ChoiceInv
    <1>9. QED
      BY <1>7, <1>8, InvalidateIs

(* After a restart the tip is a candidate, so the pruning of candidates    *)
(* leaves one.                                                             *)
LEMMA RestartChoice ==
    ASSUME IndexInv, IndexInv', ChainInv', BestInv', NoAssertFails, NEW t \in Thread, Restart(t)
    PROVE  ChoiceInv' /\ NoAssertFails'
    <1>1. /\ sequenceId' = [x \in Block |-> 0] /\ reverseSequenceId' = -1
          /\ activating' = {t} /\ mostWork' = [x \in Thread |-> None]
          /\ node' = IF candidates' = {} THEN "assert" ELSE node
          /\ UNCHANGED <<known, valid, processed, tip>>
      BY DEF Restart
    <1>2. candidates' = PruneCandidates(Reloaded(failed', linked'), tip', sequenceId')
      BY <1>1, RestartIs
    <1>3. tip' \in GoodBlocks' /\ tip' \in Block
      BY Typed DEF GoodBlocks, ChainInv, NoFailedInChain, BestInv, ChainGood, Chain, IndexInv, UsesLinked, TypeOK
    <1>4. ASSUME NEW x \in SoundBlocks', ~Worse(x, tip', sequenceId') PROVE x \in candidates'
      <2>1. x \in Block /\ linked'[x] /\ failed'[x] = {}
        BY AncestorsEnds DEF SoundBlocks
      <2>2. x \in known' /\ valid'[x] >= VALID_TRANSACTIONS
        BY <2>1 DEF IndexInv, Unseen, Rooted, Received
      <2>3. QED
        BY <2>1, <2>2, <1>1, <1>2, <1>4 DEF PruneCandidates, Reloaded
    <1>5. Floor' /\ ~Worse(tip', tip', sequenceId')
      BY <1>3, <1>4, FloorOfTip
    <1>6. tip' \in SoundBlocks'
      BY <1>3 DEF GoodBlocks, SoundBlocks
    <1>7. NoAssertFails'
      BY <1>1, <1>4, <1>5, <1>6 DEF NoAssertFails
    <1>8. Better'
      BY <1>2 DEF Better, PruneCandidates
    <1>9. Rested' /\ Holding'
      BY <1>1 DEF Rested, Holding
    <1>10. Outranked'
      <2>1. \A x \in SoundBlocks' : sequenceId'[x] = 0
        BY <1>1 DEF SoundBlocks
      <2>2. QED
        BY <2>1, <1>1 DEF Outranked
    <1>11. QED
      BY <1>5, <1>7, <1>8, <1>9, <1>10 DEF ChoiceInv

(* PreciousBlock changes the order of candidates, and makes one of its     *)
(* block if it is now as good as the tip.                                  *)
LEMMA PreciousChoice ==
    ASSUME IndexInv, IndexInv', Reversed, ChainInv, BestInv, ChoiceInv, NoAssertFails, Choosing,
           NEW t \in Thread, NEW b \in Block, Precious(t, b)
    PROVE  ChoiceInv' /\ NoAssertFails'
    <1> DEFINE reverse == IF Work[tip] > lastPrecious THEN -1 ELSE reverseSequenceId
               seq == [sequenceId EXCEPT ![b] = reverse]
               eligible == IsValid(b, VALID_TRANSACTIONS) /\ linked[b]
               kept == PruneCandidates(candidates \cup {b}, tip, seq)
    <1>1. /\ UNCHANGED <<failed, linked, tip>> /\ EnterActivation(t) /\ Command("precious") /\ t \notin activating
          /\ lastPrecious' = Work[tip] /\ sequenceId' = seq /\ reverseSequenceId' = reverse - 1
          /\ candidates' = IF eligible THEN kept ELSE candidates \ {b}
          /\ node' = IF eligible /\ kept = {} THEN "assert" ELSE node
      BY DEF Precious
    <1>2. "invalidate" \notin Commands /\ Rested' /\ Holding'
      BY <1>1, CommandIs, ChoosingIs, EnterChoice
    <1>3. GoodBlocks' = GoodBlocks /\ SoundBlocks' = SoundBlocks
      BY <1>1, GoodSame, SoundSame
    <1>4. candidates = {tip} /\ \A x \in SoundBlocks : x = tip \/ Worse(x, tip, sequenceId)
      BY <1>1, EnterChoice DEF ChoiceInv, Rested
    <1>5. tip \in Block /\ tip \in GoodBlocks /\ SoundBlocks \subseteq Block /\ GoodBlocks \subseteq SoundBlocks
      BY Typed, TipGood, GoodSound DEF BestInv, IndexInv
    <1>6. /\ sequenceId \in [Block -> Int] /\ reverseSequenceId \in Int /\ reverseSequenceId < 0
          /\ lastPrecious \in Nat /\ \A x \in Block : Work[x] \in Nat
      BY Typed, TreeAssumption DEF IndexInv, TypeOK, Reversed
    <1>7. /\ reverse \in Int /\ reverse < 0 /\ seq \in [Block -> Int] /\ seq[b] = reverse
          /\ \A x \in Block \ {b} : seq[x] = sequenceId[x]
      BY <1>6
    <1>8. /\ \E x \in GoodBlocks : Work[x] >= lastPrecious
          /\ \A x \in SoundBlocks : /\ sequenceId[x] < 0 => Work[x] <= lastPrecious
                                    /\ sequenceId[x] <= reverseSequenceId => Work[x] < lastPrecious
      BY <1>2 DEF BestInv, Preferred, ChoiceInv, Outranked
    <1>9. \A x \in SoundBlocks : Work[x] <= Work[tip]
      BY <1>4, <1>5, <1>6 DEF Worse
    <1>10. lastPrecious <= Work[tip]
      BY <1>5, <1>6, <1>8, <1>9
    (* A sound chain as good as the tip has a later number.                *)
    <1>11. ASSUME NEW x \in SoundBlocks, Work[x] = Work[tip] PROVE sequenceId[x] > reverse
      <2>1. x \in Block /\ sequenceId[x] \in Int
        BY <1>5, <1>6
      <2>2. CASE Work[tip] > lastPrecious
        BY <2>1, <2>2, <1>5, <1>6, <1>8, <1>11
      <2>3. CASE ~(Work[tip] > lastPrecious)
        <3>1. reverse = reverseSequenceId
          BY <2>3
        <3>2. Work[tip] \in Nat /\ lastPrecious \in Nat /\ reverseSequenceId \in Int
          BY <1>5, <1>6
        <3>3. ~(Work[x] < lastPrecious)
          BY <3>2, <1>10, <1>11
        <3>4. sequenceId[x] <= reverseSequenceId => Work[x] < lastPrecious
          BY <1>8
        <3>5. ~(sequenceId[x] <= reverseSequenceId)
          BY <3>3, <3>4
        <3> HIDE DEF reverse
        <3>6. QED
          BY <2>1, <3>1, <3>2, <3>5
      <2>4. QED
        BY <2>2, <2>3
    <1>12. \A x \in SoundBlocks : IsValid(x, VALID_TRANSACTIONS) /\ linked[x]
      BY SoundIs DEF IsValid
    <1> HIDE DEF reverse, seq
    <1>13. ~Worse(tip, tip, seq)
      BY <1>5, <1>7, WorseOrder
    <1>14. tip \in candidates' /\ (eligible => kept # {})
      BY <1>1, <1>4, <1>5, <1>12, <1>13 DEF PruneCandidates
    <1>15. b \in SoundBlocks /\ ~Worse(b, tip, seq) => b \in candidates'
      BY <1>1, <1>12 DEF PruneCandidates
    <1>16. Better'
      BY <1>1, <1>4, <1>13 DEF Better, PruneCandidates
    <1> HIDE DEF eligible, kept
    <1>17. ASSUME NEW x \in SoundBlocks, x # tip, x # b PROVE Worse(x, tip, seq)
      <2>1. Worse(x, tip, sequenceId) /\ x \in Block /\ seq[x] = sequenceId[x]
        BY <1>17, <1>4, <1>5, <1>7
      <2>2. CASE tip # b
        <3>1. seq[tip] = sequenceId[tip]
          BY <2>2, <1>5, <1>7
        <3>2. QED
          BY <2>1, <3>1 DEF Worse
      <2>3. CASE tip = b
        <3>1. seq[tip] = reverse /\ (Work[x] = Work[tip] => seq[x] > reverse)
          BY <2>1, <2>3, <1>7, <1>11
        <3>2. Work[x] < Work[tip] \/ Work[x] = Work[tip]
          BY <2>1 DEF Worse
        <3>3. QED
          BY <3>1, <3>2 DEF Worse
      <2>4. QED
        BY <2>2, <2>3
    <1>18. Floor'
      BY <1>1, <1>3, <1>5, <1>14, <1>15, <1>17 DEF Floor, FloorAt
    <1>19. Outranked'
      <2>1. ASSUME NEW x \in SoundBlocks
            PROVE  /\ seq[x] < 0 => Work[x] <= Work[tip]
                   /\ seq[x] <= reverse - 1 => Work[x] < Work[tip]
        <3>1. x \in Block /\ Work[x] <= Work[tip] /\ seq[x] \in Int /\ Work[x] \in Nat /\ Work[tip] \in Nat
          BY <1>5, <1>6, <1>7, <1>9
        <3>2. CASE x = b
          BY <3>1, <3>2, <1>7
        <3>3. CASE x # b
          <4>1. seq[x] = sequenceId[x] /\ (Work[x] = Work[tip] => sequenceId[x] > reverse)
            BY <3>1, <3>3, <1>7, <1>11
          <4>2. QED
            BY <4>1, <3>1, <1>7
        <3>4. QED
          BY <3>2, <3>3
      <2>2. QED
        BY <2>1, <1>1, <1>3 DEF Outranked
    <1>20. NoAssertFails'
      BY <1>1, <1>14 DEF NoAssertFails
    <1>21. QED
      BY <1>2, <1>16, <1>18, <1>19, <1>20 DEF ChoiceInv

(* The candidates a step of ActivateBestChain leaves, and its assert.      *)
LEMMA StepKeeps ==
    ASSUME NEW t, NEW found, NEW target, ActivateStep(t, found, target), NEW newTip, newTip = StepTip(target)
    PROVE  \E kept :
             /\ Stepped(t, found, target, newTip, kept)
             /\ Ancestors[newTip] \ Chain # {} => \A c \in kept : ~Worse(c, newTip, sequenceId)
             /\ node' = "assert" => node = "assert" \/ kept = {}
    <1> DEFINE connected == Ancestors[newTip] \ Chain
               kept == IF connected = {} THEN found.candidates
                       ELSE PruneCandidates(found.candidates, newTip, sequenceId)
    <1>1. /\ kept \subseteq found.candidates
          /\ \A c \in found.candidates : ~Worse(c, newTip, sequenceId) => c \in kept
          /\ connected # {} => \A c \in kept : ~Worse(c, newTip, sequenceId)
      BY DEF PruneCandidates
    <1>2. Stepped(t, found, target, newTip, kept)
      BY <1>1 DEF ActivateStep, Stepped, StepTip, StepLast, StepInvalid, AfterInvalid, LeaveActivation
    <1>3. node' = "assert" => node = "assert" \/ kept = {}
      BY DEF ActivateStep, StepTip, StepLast, StepInvalid
    <1>4. QED
      BY <1>1, <1>2, <1>3

(* FindMostWorkChain keeps the sound candidates, and chooses a sound one   *)
(* that is better than the others.                                         *)
LEMMA FoundChoice ==
    ASSUME IndexInv, ChainInv, BestInv, ChoiceInv,
           NEW t \in Thread, NEW found \in Found(t), NEW target, target = Target(t, found)
    PROVE  /\ found.candidates \subseteq candidates
           /\ candidates \cap SoundBlocks \subseteq found.candidates
           /\ target \in found.candidates \cap SoundBlocks
           /\ \A c \in found.candidates : c = target \/ Worse(c, target, sequenceId)
    <1>1. /\ Follows(found)
          /\ target # None => target \in Block /\ linked[target]
          /\ target # None /\ mostWork[t] = None => Unusable(target, found.failed) = {}
          /\ mostWork[t] # None => found = Start /\ target = mostWork[t]
          /\ target = None => found.candidates = {}
      BY TargetIs
    <1>2. found.candidates \subseteq candidates /\ Spares(found.candidates) /\ Marks(found.failed)
      BY <1>1 DEF Follows
    <1>3. ASSUME NEW c \in candidates \cap SoundBlocks PROVE c \in found.candidates
      <2>1. c \in Block /\ linked[c] /\ \A a \in Ancestors[c] : failed[a] = {}
        BY DEF SoundBlocks
      <2>2. \A a \in Ancestors[c] : data[a]
        BY <2>1, LinkedDown, HasData DEF BestInv
      <2>3. QED
        BY <1>2, <2>1, <2>2 DEF Spares
    <1>4. found.candidates # {}
      BY <1>3, GoodSound DEF ChoiceInv, Floor
    <1>5. \A c \in found.candidates : c = target \/ Worse(c, target, sequenceId)
      BY FoundCovers
    <1>6. CASE mostWork[t] # None
      BY <1>1, <1>2, <1>3, <1>5, <1>6 DEF Start, ChoiceInv, Holding
    <1>7. CASE mostWork[t] = None
      <2>1. target = CHOOSE c \in found.candidates : \A x \in found.candidates : x = c \/ Worse(x, c, sequenceId)
        BY <1>4, <1>7 DEF Target, MostWork
      <2>2. found.candidates \in SUBSET Block /\ sequenceId \in [Block -> Int]
        BY <1>2, Typed DEF IndexInv
      <2>3. target \in found.candidates
        BY <2>1, <2>2, <1>4, BestIs
      <2>4. target \in Block /\ linked[target] /\ Unusable(target, found.failed) = {}
        BY <2>3, <1>1, <1>4, <1>7
      <2>5. ASSUME NEW a \in Ancestors[target] PROVE failed[a] = {}
        <3>1. a \in Block
          BY <2>4, AncestorsIs
        <3>2. CASE a \in Chain
          BY <3>2 DEF ChainInv, NoFailedInChain
        <3>3. CASE a \notin Chain
          <4>1. found.failed[a] = {}
            BY <2>4, <3>3 DEF Unusable
          <4>2. QED
            BY <3>1, <4>1, <1>2 DEF Marks
        <3>4. QED
          BY <3>2, <3>3
      <2>6. target \in SoundBlocks
        BY <2>4, <2>5 DEF SoundBlocks
      <2>7. QED
        BY <1>2, <1>3, <1>5, <2>3, <2>6
    <1>8. QED
      BY <1>6, <1>7

(* A turn of ActivateBestChain that ends with a new tip prunes the         *)
(* candidates, and the tip is left.                                        *)
LEMMA ActivateChoice ==
    ASSUME IndexInv, IndexInv', ChainInv, ChainInv', BestInv, BestInv', ChoiceInv, NoAssertFails, Choosing,
           NEW t \in Thread, Activate(t)
    PROVE  ChoiceInv' /\ NoAssertFails'
    <1>f. PICK found \in Found(t) : \E target :
             /\ target = Target(t, found)
             /\ \/ ActivateDone(t, found, target)
                \/ ActivateAborts(t, found, target)
                \/ ActivateStep(t, found, target)
      BY ActivateFound
    <1>1. PICK target : /\ target = Target(t, found)
                        /\ \/ ActivateDone(t, found, target)
                           \/ ActivateAborts(t, found, target)
                           \/ ActivateStep(t, found, target)
      BY <1>f
    <1>2. /\ found.candidates \subseteq candidates
          /\ candidates \cap SoundBlocks \subseteq found.candidates
          /\ target \in found.candidates \cap SoundBlocks
          /\ \A c \in found.candidates : c = target \/ Worse(c, target, sequenceId)
      BY <1>1, FoundChoice
    <1>3. /\ sequenceId \in [Block -> Int] /\ tip \in Block /\ candidates \subseteq Block
          /\ mostWork \in [Thread -> Block \cup {None}] /\ activating \subseteq Thread
          /\ target \in Block /\ target # None /\ linked[target]
          /\ GoodBlocks \subseteq SoundBlocks /\ SoundBlocks \subseteq Block
      BY <1>2, Typed, GoodSound, SoundIs, OtherAssumption DEF IndexInv, TypeOK
    <1>4. \A u \in Thread : u = t
      BY ChoosingIs
    <1>5. GoodBlocks' = GoodBlocks /\ SoundBlocks' \subseteq SoundBlocks
      <2> DEFINE S == {x \in BadConnect : linked[x]}
      <2>1. UNCHANGED linked /\ Spreads(S) /\ \A b \in S : b \in BadConnect
        BY ActivateSpreads
      <2> HIDE DEF S
      <2>2. QED
        BY <2>1, GoodStays, SoundShrinks
    <1>6. PICK low \in candidates \cap GoodBlocks : FloorAt(low)
      BY DEF ChoiceInv, Floor
    <1>7. low \in found.candidates \cap GoodBlocks /\ \A x \in SoundBlocks : ~Worse(x, low, sequenceId) => x \in found.candidates
      BY <1>2, <1>3, <1>6 DEF FloorAt
    (* No sound chain is better than the target.                           *)
    <1>8. ASSUME NEW x \in SoundBlocks PROVE x = target \/ Worse(x, target, sequenceId)
      <2>1. x \in Block /\ low \in Block
        BY <1>3, <1>6
      <2>2. CASE Worse(x, low, sequenceId)
        BY <2>1, <2>2, <1>2, <1>3, <1>7, WorseOrder
      <2>3. CASE ~Worse(x, low, sequenceId)
        BY <2>3, <1>2, <1>7
      <2>4. QED
        BY <2>2, <2>3
    <1>9. CASE ActivateAborts(t, found, target)
      <2>1. UNCHANGED <<linked, failed, candidates, sequenceId, tip, lastPrecious, reverseSequenceId,
                        activating, mostWork>> /\ node' = "aborted"
        BY <1>9 DEF ActivateAborts, index, sets, counters, threads
      <2>2. QED
        BY <2>1, GoodSame, SoundSame, ChoiceStays DEF NoAssertFails
    <1>10. CASE ActivateDone(t, found, target)
      <2>1. /\ target = tip /\ candidates' = found.candidates /\ mostWork' = [mostWork EXCEPT ![t] = None]
            /\ UNCHANGED <<sequenceId, tip, lastPrecious, reverseSequenceId, node>>
        BY <1>3, <1>10 DEF ActivateDone, LeaveActivation, counters
      <2>2. ASSUME NEW c \in found.candidates PROVE c = tip
        <3>1. ~Worse(c, tip, sequenceId)
          BY <1>2 DEF ChoiceInv, Better
        <3>2. QED
          BY <3>1, <2>1, <1>2
      <2>3. candidates' = {tip}
        BY <2>1, <2>2, <1>2
      <2>4. Rested'
        BY <2>1, <2>3, <1>5, <1>8 DEF Rested
      <2>5. tip \in GoodBlocks
        BY TipGood DEF BestInv
      <2>6. Floor' /\ Better'
        <3>1. ~Worse(tip, tip, sequenceId)
          BY <1>3, WorseOrder
        <3>2. QED
          BY <3>1, <2>1, <2>3, <2>5, <1>5, <1>8 DEF Floor, FloorAt, Better
      <2>7. Holding'
        BY <2>1, <1>3, <1>4 DEF Holding
      <2>8. Outranked'
        BY <2>1, <1>5 DEF ChoiceInv, Outranked
      <2>9. NoAssertFails'
        BY <2>1 DEF NoAssertFails
      <2>10. QED
        BY <2>4, <2>6, <2>7, <2>8, <2>9 DEF ChoiceInv
    <1>11. CASE ActivateStep(t, found, target)
      <2>1. target # tip /\ ~DataGone(target)
        BY <1>11, SteppedIs
      <2>2. PICK newTip : newTip = StepTip(target)
        OBVIOUS
      <2>3. PICK kept :
               /\ Stepped(t, found, target, newTip, kept)
               /\ Ancestors[newTip] \ Chain # {} => \A c \in kept : ~Worse(c, newTip, sequenceId)
               /\ node' = "assert" => node = "assert" \/ kept = {}
        BY <1>11, <2>2, StepKeeps
      <2>4. PICK last : last = StepLast(target)
        OBVIOUS
      <2>5. /\ tip' = newTip /\ UNCHANGED <<sequenceId, lastPrecious, reverseSequenceId>>
            /\ kept \subseteq found.candidates
            /\ \A c \in found.candidates : ~Worse(c, newTip, sequenceId) => c \in kept
        BY <2>3 DEF Stepped, counters
      <2>6. /\ newTip \in Block /\ newTip \in Ancestors[target]
            /\ StepInvalid(target) => last \in Block /\ linked[last] /\ last \in BadConnect
        BY <1>3, <2>1, <2>2, <2>4, StepIs DEF StepInvalid
      <2>7. newTip \in GoodBlocks
        <3>1. newTip \in GoodBlocks'
          BY <2>5, <2>6 DEF GoodBlocks, ChainInv, NoFailedInChain, BestInv, ChainGood, Chain, IndexInv, UsesLinked
        <3>2. QED
          BY <3>1, <1>5
      <2>8. target \in kept
        <3>1. newTip = target \/ Worse(newTip, target, sequenceId)
          BY <1>3, <2>6, AncestorWorse
        <3>2. ~Worse(target, newTip, sequenceId)
          BY <3>1, <1>3, <2>6, WorseOrder
        <3>3. QED
          BY <3>2, <1>2, <2>5
      <2>9. NoAssertFails'
        BY <2>3, <2>8 DEF NoAssertFails
      <2>10. \A c \in kept : ~Worse(c, newTip, sequenceId)
        <3>1. CASE Ancestors[newTip] \ Chain # {}
          BY <3>1, <2>3
        <3>2. CASE Ancestors[newTip] \ Chain = {}
          <4>1. newTip \in Chain
            BY <3>2, <2>6, AncestorsEnds
          <4>2. newTip = tip \/ Worse(newTip, tip, sequenceId)
            BY <4>1, <1>3, AncestorWorse DEF Chain
          <4>3. ASSUME NEW c \in kept PROVE ~Worse(c, newTip, sequenceId)
            <5>1. c \in Block /\ ~Worse(c, tip, sequenceId)
              BY <1>2, <1>3, <2>5 DEF ChoiceInv, Better
            <5>2. QED
              BY <5>1, <4>2, <1>3, <2>6, WorseOrder
          <4>4. QED
            BY <4>3
        <3>3. QED
          BY <3>1, <3>2
      <2>11. candidates' \subseteq kept
        BY <2>3 DEF Stepped
      <2>12. Better'
        BY <2>5, <2>10, <2>11 DEF Better
      <2>13. ASSUME NEW x \in SoundBlocks', x \in kept PROVE x \in candidates'
        <3>1. CASE StepInvalid(target)
          <4>1. /\ failed' = [found.failed EXCEPT ![last] = @ \cup {"VALID"}]
                /\ candidates' = kept \ {last}
            BY <3>1, <2>3, <2>4 DEF Stepped
          <4>2. found.failed \in [Block -> SUBSET {"VALID", "CHILD"}]
            BY <1>1, TargetIs DEF Follows, SearchState
          <4>3. failed'[last] # {}
            BY <3>1, <4>1, <4>2, <2>6
          <4>4. x # last
            BY <4>3, AncestorsEnds DEF SoundBlocks
          <4>5. QED
            BY <4>1, <4>4, <2>13
        <3>2. CASE ~StepInvalid(target)
          BY <3>2, <2>3, <2>13 DEF Stepped
        <3>3. QED
          BY <3>1, <3>2
      <2>14. Floor'
        <3>1. \E c \in kept \cap GoodBlocks : FromUp(SoundBlocks, c, kept, sequenceId)
          <4>1. SoundBlocks \in SUBSET Block /\ GoodBlocks \in SUBSET SoundBlocks
            BY <1>3
          <4>2. low \in found.candidates \cap GoodBlocks /\ sequenceId \in [Block -> Int]
            BY <1>3, <1>7
          <4>3. FromUp(SoundBlocks, low, found.candidates, sequenceId) /\ FromUp(found.candidates, newTip, kept, sequenceId)
            BY <1>7, <2>5 DEF FromUp
          <4>4. QED
            BY <4>1, <4>2, <4>3, <2>7, FloorRises
        <3>2. PICK c \in kept \cap GoodBlocks : \A x \in SoundBlocks : ~Worse(x, c, sequenceId) => x \in kept
          BY <3>1 DEF FromUp
        <3>3. c \in GoodBlocks' /\ c \in SoundBlocks'
          BY <3>2, <1>5 DEF GoodBlocks, SoundBlocks
        <3>4. c \in candidates'
          BY <3>2, <3>3, <2>13
        <3>5. \A x \in SoundBlocks' : ~Worse(x, c, sequenceId') => x \in candidates'
          BY <3>2, <1>5, <2>5, <2>13
        <3>6. QED
          BY <3>3, <3>4, <3>5 DEF Floor, FloorAt
      <2>15. CASE StepInvalid(target)
        <3>1. mostWork' = [mostWork EXCEPT ![t] = None] /\ UNCHANGED activating
          BY <2>3, <2>15 DEF Stepped
        <3>2. Holding' /\ Rested'
          BY <3>1, <1>3, <1>4 DEF Holding, Rested, Activate
        <3>3. QED
          BY <3>2, <2>5, <2>9, <2>12, <2>14, <1>5 DEF ChoiceInv, Outranked
      <2>16. CASE ~StepInvalid(target)
        <3>1. /\ failed' = found.failed /\ candidates' = kept
              /\ \/ /\ newTip = target
                    /\ activating' = activating \ {t} /\ mostWork' = [mostWork EXCEPT ![t] = None]
                 \/ mostWork' = [mostWork EXCEPT ![t] = target] /\ UNCHANGED activating
          BY <2>3, <2>16 DEF Stepped
        <3>2. target \in SoundBlocks'
          <4>1. UNCHANGED linked /\ Marks(found.failed)
            BY <1>1, TargetIs, ActivateSpreads DEF Follows
          <4>2. ASSUME NEW a \in Ancestors[target] PROVE failed'[a] = {}
            <5>1. a \in Block /\ Ancestors[a] \subseteq Ancestors[target] /\ failed[a] = {}
              BY <1>2, <1>3, AncestorsIs, AncestorsTransitive DEF SoundBlocks
            <5>2. \A d \in Ancestors[a] : failed[d] = {}
              BY <5>1, <1>2 DEF SoundBlocks
            <5>3. QED
              BY <5>1, <5>2, <4>1, <3>1 DEF Marks
          <4>3. QED
            BY <4>1, <4>2, <1>3 DEF SoundBlocks
        <3>3. mostWork'[t] \in {None, target}
          BY <3>1, <1>3
        <3>4. Holding'
          BY <3>1, <3>2, <3>3, <2>8, <1>4 DEF Holding
        <3>5. ASSUME newTip = target PROVE candidates' = {newTip} /\ \A x \in SoundBlocks' : x = newTip \/ Worse(x, newTip, sequenceId)
          BY <3>1, <3>5, <2>5, <2>8, <2>10, <1>2, <1>5, <1>8
        <3>6. activating' = {} => newTip = target
          BY <3>1 DEF Activate
        <3>7. Rested'
          BY <3>5, <3>6, <2>5 DEF Rested
        <3>8. QED
          BY <3>4, <3>7, <2>5, <2>9, <2>12, <2>14, <1>5 DEF ChoiceInv, Outranked
      <2>17. QED
        BY <2>15, <2>16
    <1>12. QED
      BY <1>1, <1>9, <1>10, <1>11

(* ChoiceInv is inductive, and no assert fails.                            *)
LEMMA NextChoice ==
    ASSUME IndexInv, IndexInv', Reversed, ChainInv, ChainInv', BestInv, BestInv', CandidateInv, Choosing, [Next]_vars
    PROVE  CandidateInv'
    <1>1. ChoiceInv /\ Blamed /\ NoAssertFails
      BY DEF CandidateInv, ChoiceInv
    <1>2. Blamed'
      BY <1>1, NextBlamed, ChoosingIs
    <1>3. ASSUME UNCHANGED <<linked, failed, candidates, sequenceId, tip, lastPrecious, reverseSequenceId,
                             activating, mostWork, node>>
          PROVE  ChoiceInv' /\ NoAssertFails'
      BY <1>1, <1>3, GoodSame, SoundSame, ChoiceStays DEF NoAssertFails
    <1>4. ASSUME NEW b \in Block, AcceptHeader(b) \/ Prune(b) PROVE ChoiceInv' /\ NoAssertFails'
      BY <1>3, <1>4 DEF AcceptHeader, Prune, sets, counters, threads
    <1>5. ASSUME NEW t \in Thread, NEW b \in Block, Reconsider(t, b) PROVE FALSE
      BY <1>5, CommandIs, ChoosingIs DEF Reconsider
    <1>6. UNCHANGED vars => ChoiceInv' /\ NoAssertFails'
      BY <1>3 DEF vars, index, sets, counters, threads
    <1>7. ASSUME Next PROVE ChoiceInv' /\ NoAssertFails'
      BY <1>1, <1>4, <1>5, <1>7, RejectHeaderChoice, ActivateChoice, RestartChoice, ProcessNewBlockChoice,
         InvalidateChoice, PreciousChoice DEF Next
    <1>8. QED
      BY <1>2, <1>6, <1>7 DEF CandidateInv, ChoiceInv

(* Genesis is the only candidate at first.                                 *)
LEMMA InitChoice == Init => CandidateInv
    <1> SUFFICES ASSUME Init PROVE CandidateInv
      OBVIOUS
    <1>1. /\ tip = Genesis /\ mostWork = [t \in Thread |-> None] /\ candidates = {Genesis}
          /\ \A b \in Block : linked[b] <=> b = Genesis
          /\ failed = [b \in Block |-> {}] /\ failedBlocks = {} /\ reverseSequenceId = -1
          /\ sequenceId = [b \in Block |-> IF b = Genesis THEN 1 ELSE 0] /\ node = "running"
      BY DEF Init
    <1>2. Genesis \in Block /\ Genesis \notin BadConnect
      BY TreeAssumption, OtherAssumption
    <1>3. SoundBlocks = {Genesis} /\ Genesis \in GoodBlocks
      BY <1>1, <1>2, AncestorsIs DEF SoundBlocks, GoodBlocks
    <1>4. sequenceId \in [Block -> Int] /\ sequenceId[Genesis] = 1
      BY <1>1, <1>2
    <1>5. ~Worse(Genesis, Genesis, sequenceId)
      BY <1>2, <1>4, WorseOrder
    <1>6. Floor /\ Better /\ Rested
      BY <1>1, <1>3, <1>5 DEF Floor, FloorAt, Better, Rested
    <1>7. Holding /\ Blamed /\ NoAssertFails
      BY <1>1 DEF Holding, Blamed, NoAssertFails
    <1>8. Outranked
      BY <1>1, <1>3, <1>4 DEF Outranked
    <1>9. QED
      BY <1>6, <1>7, <1>8 DEF CandidateInv

(* CandidateInv in every reachable state.                                  *)
LEMMA CandidateInvariant ==
    ASSUME Choosing
    PROVE  Spec => []CandidateInv
    <1>1. /\ IndexInv /\ Reversed /\ ChainInv /\ BestInv /\ CandidateInv /\ [Next]_vars
          /\ IndexInv' /\ ChainInv' /\ BestInv'
          => CandidateInv'
      BY NextChoice
    <1>2. Spec => []ChainInv
      BY ChainInvariant, ChoosingIs
    <1>3. QED
      BY <1>1, <1>2, InitChoice, IndexInvariant, BestInvariant, PTL DEF Spec

(* The asserts of AcceptBlockHeader ("g_failed_blocks" holds blocks that   *)
(* are marked) and of PruneBlockIndexCandidates ("Either the current tip   *)
(* or a successor of it we're working towards is left") never fail, in     *)
(* whatever order blocks come, with one caller of ActivateBestChain,       *)
(* without pruning and reconsiderblock, and with either invalidateblock or *)
(* preciousblock.                                                          *)
THEOREM AssertsHold ==
    ASSUME Choosing
    PROVE  Spec => []NoAssertFails
    <1>1. CandidateInv => NoAssertFails
      BY DEF CandidateInv
    <1>2. QED
      BY <1>1, CandidateInvariant, PTL

-----------------------------------------------------------------------------
(* LinkInv again, with invalidateblock and without pruning: a stored block *)
(* with no mark below waits in mapBlocksUnlinked, or is linked with its    *)
(* parent.  Above a mark blocks may be lost.                               *)
Clear(b) == \A a \in Ancestors[b] : failed[a] = {}

ClearLink ==
    /\ \A b \in Block \ {Genesis} : data[b] /\ ~linked[b] /\ Clear(b) => <<Parent[b], b>> \in unlinked
    /\ \A b \in Block \ {Genesis} : data[b] /\ linked[Parent[b]] /\ Clear(b) => linked[b]

(* Marks are not taken back.                                               *)
LEMMA ClearStays ==
    ASSUME ClearLink, UNCHANGED <<data, linked>>, unlinked \subseteq unlinked',
           \A x \in Block : failed[x] \subseteq failed'[x]
    PROVE  ClearLink'
    <1>1. \A b \in Block : Clear(b)' => Clear(b)
      BY AncestorsIs DEF Clear
    <1>2. QED
      BY <1>1 DEF ClearLink

(* A stored block with no mark below waits in mapBlocksUnlinked until its  *)
(* parent is linked.                                                       *)
LEMMA ArrivesClear ==
    ASSUME IndexInv, ClearLink, NEW b \in Block, Arrives(b)
    PROVE  ClearLink'
    <1>1. /\ data'[b] /\ \A x \in Block \ {b} : data'[x] <=> data[x]
          /\ failed[b] = {} /\ Parent[b] \in Block
          /\ (linked[Parent[b]] /\ LinkBlocks(b)) \/ (~linked[Parent[b]] /\ HoldBlock(b))
      BY ArrivesIs
    <1>2. UNCHANGED failed /\ b # Genesis
      BY DEF Arrives
    <1>3. \A x \in Block : Clear(x)' <=> Clear(x)
      BY <1>2 DEF Clear
    <1>4. \A x \in Block \ {Genesis} : Parent[x] \in Block
      BY TreeAssumption
    <1>5. CASE ~linked[Parent[b]] /\ HoldBlock(b)
      <2>1. linked' = linked /\ unlinked \subseteq unlinked'
        BY <1>5, ArrivesHeld
      <2>2. Clear(b) => <<Parent[b], b>> \in unlinked'
        <3>1. Parent[b] \in Ancestors[b]
          BY <1>1, <1>2, AncestorsIs, AncestorsEnds
        <3>2. QED
          BY <3>1, <1>5 DEF Clear, HoldBlock
      <2>3. ASSUME NEW x \in Block \ {Genesis}, data'[x], ~linked'[x], Clear(x) PROVE <<Parent[x], x>> \in unlinked'
        BY <2>1, <2>2, <2>3, <1>1 DEF ClearLink
      <2>4. ASSUME NEW x \in Block \ {Genesis}, data'[x], linked'[Parent[x]], Clear(x) PROVE linked'[x]
        BY <2>1, <2>4, <1>1, <1>5 DEF ClearLink
      <2>5. QED
        BY <1>3, <2>3, <2>4 DEF ClearLink
    <1>6. CASE LinkBlocks(b)
      <2> DEFINE new == NowLinked(b)
      <2>1. /\ \A x \in Block : linked'[x] <=> x \in new \/ linked[x]
            /\ unlinked' = {p \in unlinked : p[1] \notin new}
        BY <1>6, LinkBlocksIs
      <2>2. /\ b \in new
            /\ \A d \in Block \ {Genesis} : Parent[d] \in new /\ <<Parent[d], d>> \in unlinked => d \in new
        BY NowLinkedIs
      <2> HIDE DEF new
      <2>3. ASSUME NEW x \in Block \ {Genesis}, data'[x], ~linked'[x], Clear(x) PROVE <<Parent[x], x>> \in unlinked'
        <3>1. x \notin new /\ ~linked[x] /\ x # b
          BY <2>1, <2>2, <2>3
        <3>2. <<Parent[x], x>> \in unlinked
          BY <3>1, <2>3, <1>1 DEF ClearLink
        <3>3. QED
          BY <3>1, <3>2, <2>1, <2>2
      <2>4. ASSUME NEW x \in Block \ {Genesis}, data'[x], linked'[Parent[x]], Clear(x) PROVE linked'[x]
        <3>1. CASE x = b \/ linked[x]
          BY <3>1, <2>1, <2>2
        <3>2. CASE x # b /\ ~linked[x]
          <4>1. data[x] /\ ~linked[Parent[x]] /\ <<Parent[x], x>> \in unlinked
            BY <3>2, <2>4, <1>1 DEF ClearLink
          <4>2. Parent[x] \in new
            BY <4>1, <2>1, <2>4, <1>4
          <4>3. QED
            BY <4>1, <4>2, <2>1, <2>2
        <3>3. QED
          BY <3>1, <3>2
      <2>5. QED
        BY <1>3, <2>3, <2>4 DEF ClearLink
    <1>7. QED
      BY <1>1, <1>5, <1>6

(* LoadBlockIndexDB files every stored block whose parent is not linked.   *)
LEMMA RestartClear ==
    ASSUME IndexInv, NEW t \in Thread, Restart(t)
    PROVE  ClearLink'
    <1>1. /\ \A x \in Block : linked'[x] <=> \A a \in Ancestors[x] : processed[a]
          /\ unlinked' = {<<Parent[x], x>> : x \in {y \in known : processed[y] /\ ~linked'[Parent[y]]}}
          /\ linked' \in [Block -> BOOLEAN]
      BY RestartIs
    <1>2. UNCHANGED data
      BY DEF Restart
    <1>3. \A x \in Block : data[x] => x \in known /\ processed[x]
      BY DEF IndexInv, Unseen, Received
    <1>4. ASSUME NEW x \in Block \ {Genesis}, processed[x], linked'[Parent[x]] PROVE linked'[x]
      <2>1. Parent[x] \in Block /\ Ancestors[x] = {x} \cup Ancestors[Parent[x]]
        BY AncestorsIs, TreeAssumption
      <2>2. QED
        BY <2>1, <1>1, <1>4
    <1>5. QED
      BY <1>1, <1>2, <1>3, <1>4 DEF ClearLink

(* ClearLink is inductive without pruning and reconsiderblock.             *)
LEMMA NextClear ==
    ASSUME IndexInv, ClearLink, Unpruned, "reconsider" \notin Commands, [Next]_vars
    PROVE  ClearLink'
    <1>1. ASSUME NEW S, Spreads(S), unlinked \subseteq unlinked', UNCHANGED <<data, linked>> PROVE ClearLink'
      BY <1>1, ClearStays DEF Spreads
    <1>2. ASSUME UNCHANGED <<data, linked, unlinked, failed>> PROVE ClearLink'
      BY <1>2, ClearStays
    <1>3. ASSUME NEW b \in Block, RejectHeader(b) PROVE ClearLink'
      BY <1>1, <1>3, RejectHeaderSpreads DEF RejectHeader, sets
    <1>4. ASSUME NEW t \in Thread, Activate(t) PROVE ClearLink'
      BY <1>1, <1>4, ActivateSpreads
    <1>5. ASSUME NEW t \in Thread, NEW b \in Block, NEW requested \in BOOLEAN, ProcessNewBlock(t, b, requested)
          PROVE  ClearLink'
      <2>1. CASE Arrives(b)
        BY <2>1, ArrivesClear
      <2>2. CASE UNCHANGED <<data, linked, unlinked>>
        <3>1. CASE UNCHANGED failed
          BY <1>2, <2>2, <3>1
        <3>2. CASE ~UNCHANGED failed
          <4>1. Spreads({b})
            BY <1>5, <3>2, ProcessNewBlockSpreads
          <4>2. QED
            BY <1>1, <2>2, <4>1
        <3>3. QED
          BY <3>1, <3>2
      <2>3. QED
        BY <1>5, <2>1, <2>2, ProcessNewBlockIs
    <1>6. ASSUME NEW t \in Thread, NEW b \in Block, Invalidate(t, b) PROVE ClearLink'
      <2>1. UNCHANGED <<data, linked, unlinked>>
        BY <1>6 DEF Invalidate
      <2>2. \A x \in Block : failed[x] \subseteq failed'[x]
        BY <1>6, InvalidateIs
      <2>3. QED
        BY <2>1, <2>2, ClearStays
    <1>7. ASSUME NEW t \in Thread, NEW b \in Block, Precious(t, b) PROVE ClearLink'
      BY <1>2, <1>7 DEF Precious
    <1>8. ASSUME NEW b \in Block, AcceptHeader(b) PROVE ClearLink'
      BY <1>2, <1>8 DEF AcceptHeader, sets
    <1>9. ASSUME NEW t \in Thread, NEW b \in Block, Reconsider(t, b) PROVE FALSE
      BY <1>9, CommandIs DEF Reconsider
    <1>10. ASSUME NEW b \in Block, Prune(b) PROVE FALSE
      BY <1>10, CommandIs DEF Prune, Unpruned
    <1>11. UNCHANGED vars => ClearLink'
      BY <1>2 DEF vars, index, sets
    <1>12. Next => ClearLink'
      BY <1>3, <1>4, <1>5, <1>6, <1>7, <1>8, <1>9, <1>10, RestartClear DEF Next
    <1>13. QED
      BY <1>11, <1>12

(* A chain that was received and is not invalid is linked.                 *)
LEMMA ClearIsLinked ==
    ASSUME IndexInv, Kept, Reasoned(failed), ClearLink, NEW b \in Block, ~HasUnprocessed(b), ~HasInvalid(b)
    PROVE  b \in SoundBlocks
    <1>1. ASSUME NEW a \in Ancestors[b] PROVE failed[a] = {} /\ Clear(a) /\ data[a] /\ a \in Block
      <2>1. a \in Block /\ Ancestors[a] \subseteq Ancestors[b]
        BY AncestorsIs, AncestorsTransitive
      <2>2. \A x \in Ancestors[b] : failed[x] = {}
        <3>1. SUFFICES ASSUME NEW x \in Ancestors[b], failed[x] # {} PROVE FALSE
          OBVIOUS
        <3>2. x \in Block /\ Ancestors[x] \subseteq Ancestors[b]
          BY AncestorsIs, AncestorsTransitive
        <3>3. QED
          BY <3>1, <3>2 DEF Reasoned, Marked, HasInvalid
      <2>3. processed[a]
        BY DEF HasUnprocessed
      <2>4. a \in known
        BY <2>1, <2>3 DEF IndexInv, Unseen
      <2>5. QED
        BY <2>1, <2>2, <2>3, <2>4 DEF Clear, IndexInv, Received, Kept
    <1> DEFINE L == {x \in Block : linked[x]}
    <1>2. Genesis \in L
      BY TreeAssumption DEF IndexInv, Rooted
    <1>3. b \in L
      <2>1. SUFFICES ASSUME b \notin L PROVE FALSE
        OBVIOUS
      <2>2. PICK a \in Ancestors[b] : a # Genesis /\ a \notin L /\ Parent[a] \in L
        <3> HIDE DEF L
        <3>1. QED
          BY <1>2, <2>1, FirstWithout
      <2>3. QED
        BY <2>2, <1>1 DEF ClearLink
    <1>4. QED
      BY <1>1, <1>3 DEF SoundBlocks

(* CheckBlockIndex on setBlockIndexCandidates: when no call of             *)
(* ActivateBestChain is under way, it holds every chain as good as the tip *)
(* that was received and is not invalid, and nothing that is worse or was  *)
(* not received; with one caller, without pruning and reconsiderblock, and *)
(* with either invalidateblock or preciousblock.                           *)
THEOREM CandidatesAreExact ==
    ASSUME Choosing
    PROVE  Spec => []CandidatesExact
    <1>1. ASSUME IndexInv, BestInv, CandidateInv, Reasoned(failed), ClearLink PROVE CandidatesExact
      <2>1. SUFFICES ASSUME activating = {}, NEW b \in known
                     PROVE  IF ~Worse(b, tip, sequenceId) /\ ~HasUnprocessed(b)
                            THEN ~HasInvalid(b) /\ (~HasMissing(b) \/ b = tip) => b \in candidates
                            ELSE b \notin candidates
        BY DEF CandidatesExact
      <2>2. candidates = {tip} /\ \A x \in SoundBlocks : x = tip \/ Worse(x, tip, sequenceId)
        BY <1>1, <2>1 DEF CandidateInv, Rested
      <2>3. b \in Block /\ tip \in Block /\ sequenceId \in [Block -> Int] /\ linked[tip]
        BY <1>1, Typed DEF IndexInv, UsesLinked
      <2>4. ~HasUnprocessed(b) /\ ~HasInvalid(b) => b \in SoundBlocks
        BY <1>1, <2>3, ClearIsLinked DEF BestInv
      <2>5. ~Worse(tip, tip, sequenceId) /\ ~HasUnprocessed(tip)
        BY <1>1, <2>3, WorseOrder, LinkedDown DEF HasUnprocessed
      <2>6. QED
        BY <2>2, <2>4, <2>5
    <1>2. Init => ClearLink
      BY DEF Init, ClearLink
    <1>3. IndexInv /\ Reversed /\ ClearLink /\ [Next]_vars => ClearLink'
      BY NextClear, ChoosingIs
    <1>4. Spec => []Reasoned(failed)
      BY ReasonInvariant, ChoosingIs
    <1>5. QED
      BY <1>1, <1>2, <1>3, <1>4, IndexInvariant, BestInvariant, CandidateInvariant, PTL DEF Spec
=============================================================================
