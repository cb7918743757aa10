------------------------ MODULE BlockDownloadProofs ------------------------
(***************************************************************************)
(* Proofs about BlockDownload: the accounts of the blocks in flight are    *)
(* exact, a stalling peer owes a block, and nothing is missing below the   *)
(* last block in common, for any peers, blocks and limits.                 *)
(***************************************************************************)
EXTENDS BlockDownload, InductionLemmas

-----------------------------------------------------------------------------
(* The tree of blocks.                                                     *)
LEMMA BlockForest ==
    \E level : /\ Forest(Block, {Genesis}, Parent, level)
               /\ \A b \in Block : level[b] <= Cardinality(Block)
    <1>1. PICK level \in [Block -> 0 .. Cardinality(Block)] :
             \A b \in Block \ {Genesis} : level[b] = level[Parent[b]] + 1
      BY TreeAssumption
    <1>2. Cardinality(Block) \in Nat
      BY TreeAssumption, FS_CardinalityType
    <1>3. Forest(Block, {Genesis}, Parent, level)
      BY <1>1, <1>2, TreeAssumption DEF Forest
    <1>4. \A b \in Block : level[b] <= Cardinality(Block)
      BY <1>1, <1>2
    <1>5. QED
      BY <1>3, <1>4

(* What holds of Genesis and passes to a child holds of every block.       *)
LEMMA BlockInduction ==
    ASSUME NEW T, Genesis \in T, \A b \in Block \ {Genesis} : Parent[b] \in T => b \in T
    PROVE  Block \subseteq T
    <1>1. {Genesis} \subseteq T
      OBVIOUS
    <1>2. QED
      BY <1>1, BlockForest, TreeInduction

(* The equation of Path.                                                   *)
LEMMA PathIs ==
    /\ Path \in [Block -> Seq(Block)]
    /\ Path[Genesis] = <<Genesis>>
    /\ \A b \in Block \ {Genesis} : Path[b] = Append(Path[Parent[b]], b)
    <1> DEFINE B == {Genesis}
               V == Seq(Block)
               base == [x \in B |-> <<x>>]
               st == [x \in Block \ B |-> [v \in V |-> Append(v, x)]]
    <1>1. PICK level : Forest(Block, B, Parent, level)
      BY BlockForest
    <1>2. TreeRecursive(Block, B, V, base, st)
      <2>1. base \in [B -> V] /\ st \in [Block \ B -> [V -> V]]
        BY TreeAssumption
      <2> HIDE DEF B, V, base, st
      <2>2. QED
        BY <2>1 DEF TreeRecursive
    <1>3. PICK g : TreeSolution(g, Block, B, Parent, V, base, st)
      <2> HIDE DEF B, V, base, st
      <2>1. QED
        BY <1>1, <1>2, TreeRecursion
    <1>4. g = [x \in Block |-> IF x = Genesis THEN <<x>> ELSE Append(g[Parent[x]], x)]
      <2>1. ASSUME NEW x \in Block PROVE g[x] = IF x = Genesis THEN <<x>> ELSE Append(g[Parent[x]], x)
        BY <1>3, TreeAssumption DEF TreeStep, TreeSolution
      <2>2. QED
        BY <2>1, <1>3 DEF TreeSolution
    <1>5. Path = [x \in Block |-> IF x = Genesis THEN <<x>> ELSE Append(Path[Parent[x]], x)]
      BY <1>4, Zenon DEF Path
    <1>6. \A x \in Block : Path[x] = g[x]
      <2>1. \A x \in B : Path[x] = base[x]
        BY <1>5, TreeAssumption
      <2>2. \A x \in Block \ B : Path[Parent[x]] \in V => Path[x] = st[x][Path[Parent[x]]]
        BY <1>5
      <2> HIDE DEF B, V, base, st
      <2>3. QED
        BY <1>1, <1>2, <1>3, <2>1, <2>2, TreeUnique
    <1>7. Path \in [Block -> V]
      BY <1>5, <1>6, <1>3 DEF TreeSolution
    <1>8. QED
      BY <1>7, <1>5, TreeAssumption

(* So a chain is its last block and the chain below, one lower.            *)
LEMMA ChainIs ==
    /\ Chain(Genesis) = {Genesis} /\ Height(Genesis) = 0
    /\ \A b \in Block \ {Genesis} : /\ Parent[b] \in Block
                                    /\ Chain(b) = Chain(Parent[b]) \cup {b}
                                    /\ Height(b) = Height(Parent[b]) + 1
    /\ \A b \in Block : Chain(b) \subseteq Block /\ Height(b) \in Nat
    <1>1. Chain(Genesis) = {Genesis} /\ Height(Genesis) = 0
      BY PathIs DEF Chain, Height, Range
    <1>2. ASSUME NEW b \in Block \ {Genesis}
          PROVE  /\ Parent[b] \in Block /\ Chain(b) = Chain(Parent[b]) \cup {b}
                 /\ Height(b) = Height(Parent[b]) + 1
      <2>1. Parent[b] \in Block
        BY TreeAssumption
      <2> DEFINE s == Path[Parent[b]]
      <2>2. s \in Seq(Block) /\ Path[b] = Append(s, b)
        BY <2>1, PathIs
      <2> HIDE DEF s
      <2>3. Len(Append(s, b)) = Len(s) + 1
        BY <2>2
      <2>4. Range(Append(s, b)) = Range(s) \cup {b}
        BY <2>2 DEF Range
      <2>5. QED
        BY <2>1, <2>2, <2>3, <2>4 DEF Chain, Height, s
    <1> DEFINE T == {b \in Block : Chain(b) \subseteq Block /\ Height(b) \in Nat}
    <1>3. Genesis \in T
      BY <1>1, TreeAssumption
    <1>4. \A b \in Block \ {Genesis} : Parent[b] \in T => b \in T
      BY <1>2
    <1> HIDE DEF T
    <1>5. Block \subseteq T
      BY <1>3, <1>4, BlockInduction
    <1>6. QED
      BY <1>1, <1>2, <1>5 DEF T

(* A chain goes from Genesis to its block.                                 *)
LEMMA ChainEnds ==
    ASSUME NEW b \in Block
    PROVE  b \in Chain(b) /\ Genesis \in Chain(b)
    <1> DEFINE T == {x \in Block : x \in Chain(x) /\ Genesis \in Chain(x)}
    <1>1. Genesis \in T
      BY ChainIs, TreeAssumption
    <1>2. \A x \in Block \ {Genesis} : Parent[x] \in T => x \in T
      BY ChainIs
    <1> HIDE DEF T
    <1>3. Block \subseteq T
      BY <1>1, <1>2, BlockInduction
    <1>4. QED
      BY <1>3 DEF T

(* The chain of a block on a chain is part of it.                          *)
LEMMA ChainTransitive ==
    ASSUME NEW b \in Block, NEW x \in Chain(b)
    PROVE  Chain(x) \subseteq Chain(b)
    <1> DEFINE T == {z \in Block : \A y \in Chain(z) : Chain(y) \subseteq Chain(z)}
    <1>1. Genesis \in T
      BY ChainIs, TreeAssumption
    <1>2. \A z \in Block \ {Genesis} : Parent[z] \in T => z \in T
      BY ChainIs
    <1> HIDE DEF T
    <1>3. Block \subseteq T
      BY <1>1, <1>2, BlockInduction
    <1>4. QED
      BY <1>3 DEF T

(* The blocks of a chain have different heights, none above its end.       *)
LEMMA ChainHeights ==
    ASSUME NEW b \in Block
    PROVE  /\ \A x \in Chain(b) : Height(x) <= Height(b)
           /\ \A x, y \in Chain(b) : Height(x) = Height(y) => x = y
    <1> DEFINE T == {z \in Block : /\ \A x \in Chain(z) : Height(x) <= Height(z)
                                   /\ \A x, y \in Chain(z) : Height(x) = Height(y) => x = y}
    <1>1. Genesis \in T
      BY ChainIs, TreeAssumption
    <1>2. ASSUME NEW z \in Block \ {Genesis}, Parent[z] \in T PROVE z \in T
      <2>1. Parent[z] \in Block /\ Chain(z) = Chain(Parent[z]) \cup {z} /\ Height(z) = Height(Parent[z]) + 1
        BY ChainIs
      <2>2. Height(z) \in Nat /\ Height(Parent[z]) \in Nat
        BY <2>1, ChainIs
      <2>3. \A x \in Chain(Parent[z]) : Height(x) \in Nat /\ Height(x) <= Height(Parent[z])
        BY <1>2, <2>1, ChainIs
      <2>4. ASSUME NEW x \in Chain(z) PROVE Height(x) <= Height(z)
        BY <2>1, <2>2, <2>3
      <2>5. ASSUME NEW x \in Chain(z), NEW y \in Chain(z), Height(x) = Height(y) PROVE x = y
        <3>1. CASE x \in Chain(Parent[z]) /\ y \in Chain(Parent[z])
          BY <3>1, <2>5, <1>2
        <3>2. CASE x = z /\ y = z
          BY <3>2
        <3>3. CASE x = z /\ y \in Chain(Parent[z])
          BY <3>3, <2>1, <2>2, <2>3, <2>5
        <3>4. CASE y = z /\ x \in Chain(Parent[z])
          BY <3>4, <2>1, <2>2, <2>3, <2>5
        <3>5. QED
          BY <3>1, <3>2, <3>3, <3>4, <2>1
      <2>6. QED
        BY <2>4, <2>5
    <1> HIDE DEF T
    <1>3. Block \subseteq T
      BY <1>1, <1>2, BlockInduction
    <1>4. QED
      BY <1>3 DEF T

(* There is a highest and a lowest block in every set of blocks.           *)
LEMMA HighestIs ==
    ASSUME NEW S \in SUBSET Block, S # {}
    PROVE  Highest(S) \in S
    <1>1. PICK level : /\ Forest(Block, {Genesis}, Parent, level)
                       /\ \A b \in Block : level[b] <= Cardinality(Block)
      BY BlockForest
    <1>2. Cardinality(Block) \in Nat
      BY TreeAssumption, FS_CardinalityType
    <1> DEFINE max == Cardinality(Block)
               T == {b \in Block : Height(b) <= level[b]}
    <1>3. Genesis \in T
      BY <1>1, ChainIs, TreeAssumption DEF Forest
    <1>4. \A b \in Block \ {Genesis} : Parent[b] \in T => b \in T
      BY <1>1, ChainIs DEF Forest
    <1>5. Block \subseteq T
      <2> HIDE DEF T
      <2>1. QED
        BY <1>3, <1>4, BlockInduction
    <1>6. \A b \in Block : Height(b) \in Nat /\ Height(b) <= max
      BY <1>1, <1>2, <1>5, ChainIs DEF Forest
    <1> HIDE DEF T, max
    <1> DEFINE Depths == {max - Height(b) : b \in S}
    <1>7. Depths \in SUBSET Nat /\ Depths # {}
      BY <1>2, <1>6 DEF max
    <1>8. PICK n \in Depths : \A m \in Depths : n <= m
      <2> HIDE DEF Depths
      <2>1. QED
        BY <1>7, LeastNat
    <1>9. PICK b \in S : n = max - Height(b)
      BY <1>8
    <1>10. ASSUME NEW x \in S PROVE Height(x) <= Height(b)
      <2>1. max - Height(b) <= max - Height(x)
        BY <1>8, <1>9
      <2>2. QED
        BY <2>1, <1>6, <1>2 DEF max
    <1>11. \E y \in S : \A x \in S : Height(x) <= Height(y)
      BY <1>10
    <1>12. QED
      BY <1>11, Zenon DEF Highest

(* Likewise the lowest.                                                    *)
LEMMA LowestIs ==
    ASSUME NEW S \in SUBSET Block, S # {}
    PROVE  Lowest(S) \in S
    <1> DEFINE Heights == {Height(b) : b \in S}
    <1>1. Heights \in SUBSET Nat /\ Heights # {}
      BY ChainIs
    <1>2. PICK n \in Heights : \A m \in Heights : n <= m
      <2> HIDE DEF Heights
      <2>1. QED
        BY <1>1, LeastNat
    <1>3. PICK b \in S : n = Height(b)
      BY <1>2
    <1>4. ASSUME NEW x \in S PROVE Height(x) >= Height(b)
      BY <1>2, <1>3, ChainIs
    <1>5. \E y \in S : \A x \in S : Height(x) >= Height(y)
      BY <1>4
    <1>6. QED
      BY <1>5, Zenon DEF Lowest

(* The lowest k blocks of one chain are at most k.                         *)
LEMMA FirstOfSize ==
    ASSUME NEW k \in Nat, NEW b \in Block, NEW S \in SUBSET Chain(b)
    PROVE  /\ FirstOf(k, S) \subseteq S /\ IsFiniteSet(FirstOf(k, S))
           /\ Cardinality(FirstOf(k, S)) <= k
    <1> DEFINE F == FirstOf(k, S)
               Below(x) == {y \in S : Height(y) < Height(x)}
               rank == [x \in F |-> Cardinality(Below(x))]
    <1>1. IsFiniteSet(S) /\ F \subseteq S /\ IsFiniteSet(F) /\ Cardinality(F) \in Nat
      <2>1. S \in SUBSET Block
        BY ChainIs
      <2>2. F \in SUBSET Block
        BY <2>1 DEF FirstOf
      <2>3. QED
        BY <2>1, <2>2, TreeAssumption, FS_Subset, FS_CardinalityType DEF FirstOf
    <1>2. ASSUME NEW x \in F PROVE rank[x] \in 0 .. k - 1
      <2>1. IsFiniteSet(Below(x))
        BY <1>1, FS_Subset
      <2>2. Cardinality(Below(x)) \in Nat
        BY <2>1, FS_CardinalityType
      <2>3. Cardinality(Below(x)) < k
        BY DEF FirstOf
      <2>4. QED
        BY <2>2, <2>3
    <1>3. ASSUME NEW x \in F, NEW y \in F, x # y PROVE rank[x] # rank[y]
      <2>1. x \in S /\ y \in S /\ Height(x) \in Nat /\ Height(y) \in Nat
        BY <1>1, ChainIs
      <2>2. Height(x) # Height(y)
        BY <2>1, <1>3, ChainHeights
      <2>3. ASSUME NEW u \in F, NEW v \in F, Height(u) < Height(v) PROVE rank[u] # rank[v]
        <3>1. Below(u) \subseteq Below(v) /\ u \in Below(v) /\ u \notin Below(u)
          BY <1>1, <2>3, ChainIs
        <3>2. IsFiniteSet(Below(v))
          BY <1>1, FS_Subset
        <3> HIDE DEF Below, F
        <3>3. Cardinality(Below(u)) # Cardinality(Below(v))
          BY <3>1, <3>2, FS_Subset
        <3>4. QED
          BY <3>3
      <2> HIDE DEF rank, F
      <2>4. QED
        BY <2>1, <2>2, <2>3
    <1>4. IsFiniteSet(0 .. k - 1) /\ Cardinality(0 .. k - 1) = k
      BY FS_Interval
    <1>5. rank \in [F -> 0 .. k - 1]
      BY <1>2
    <1> HIDE DEF rank, F
    <1>6. Cardinality(F) <= k
      <2>1. SUFFICES ASSUME k < Cardinality(F) PROVE FALSE
        BY <1>1
      <2>2. \E x, y \in F : x # y /\ rank[x] = rank[y]
        BY <2>1, <1>1, <1>4, <1>5, FS_PigeonHole
      <2>3. QED
        BY <2>2, <1>3
    <1>7. QED
      BY <1>1, <1>6 DEF F
-----------------------------------------------------------------------------
(* AccountsExact, StallersOwe and LastCommonLinked as predicates of the    *)
(* accounts n, part by part; s is what is stored.                          *)
Flights(n) ==
    \A b \in DOMAIN n.inFlight :
        n.inFlight[b] \in Connected(n) /\ b \in n.nodes[n.inFlight[b]].vBlocksInFlight

Queues(n) ==
    \A p \in Connected(n) :
        /\ \A b \in n.nodes[p].vBlocksInFlight : b \in DOMAIN n.inFlight /\ n.inFlight[b] = p
        /\ n.nodes[p].nBlocksInFlight = Cardinality(n.nodes[p].vBlocksInFlight)

Busy(n) == {p \in Connected(n) : n.nodes[p].vBlocksInFlight # {}}
Preferred(n) == {p \in Connected(n) : n.nodes[p].fPreferredDownload}
Syncing(n) == {p \in Connected(n) : n.nodes[p].fSyncStarted}

Counts(n) ==
    /\ n.nPeersWithValidatedDownloads = Cardinality(Busy(n))
    /\ n.nPreferredDownload = Cardinality(Preferred(n))
    /\ n.nSyncStarted = Cardinality(Syncing(n))

Stalls(n) == \A p \in Connected(n) : n.nodes[p].stalling => n.nodes[p].vBlocksInFlight # {}

Commons(n, s) ==
    \A p \in Connected(n) :
        n.nodes[p].pindexLastCommonBlock # None => Chain(n.nodes[p].pindexLastCommonBlock) \subseteq s

(* The handshake, which makes a peer preferred, comes once.                *)
Greeted(n) == \A p \in Connected(n) : n.nodes[p].fPreferredDownload => n.nodes[p].ready

Sound(n, s) == /\ n \in Net /\ Flights(n) /\ Queues(n) /\ Counts(n)
               /\ Stalls(n) /\ Commons(n, s) /\ Greeted(n)

(* No queue is too long.                                                   *)
Limits(n) == \A p \in Connected(n) : n.nodes[p].nBlocksInFlight <= MAX_BLOCKS_IN_TRANSIT_PER_PEER

Good(n, s) == Sound(n, s) /\ Limits(n)

(* A peer that is connected has a CNodeState.                              *)
LEMMA ConnectedNode ==
    ASSUME NEW n \in Net, NEW p \in Connected(n)
    PROVE  p \in Peer /\ n.nodes[p] \in Node /\ n.nodes[p] # None
    BY NoneAssumption DEF Connected, Net

(* A change of one peer's state and of the accounts.                       *)
Accounts(nodes, f, v, w, z) ==
    [nodes |-> nodes, inFlight |-> f, nSyncStarted |-> z,
     nPreferredDownload |-> w, nPeersWithValidatedDownloads |-> v]

Altered(n, p, y, f, v, w, z) == Accounts([n.nodes EXCEPT ![p] = y], f, v, w, z)

Flying == UNION {[D -> Peer] : D \in SUBSET Block}

Elsewhere(n, m, p) ==
    Connected(m) = Connected(n) /\ \A q \in Connected(n) \ {p} : m.nodes[q] = n.nodes[q]

(* The accounts after it, field by field.                                  *)
LEMMA AccountsAre ==
    ASSUME NEW n \in Net, NEW p \in Connected(n), NEW y \in Node, NEW f \in Flying,
           NEW v \in Int, NEW w \in Int, NEW z \in Int,
           NEW m, m = Altered(n, p, y, f, v, w, z)
    PROVE  /\ m \in Net /\ Elsewhere(n, m, p) /\ m.nodes[p] = y
           /\ m.inFlight = f /\ m.nPeersWithValidatedDownloads = v
           /\ m.nPreferredDownload = w /\ m.nSyncStarted = z
    <1>1. p \in Peer /\ y # None
      BY NoneAssumption DEF Connected
    <1>2. [n.nodes EXCEPT ![p] = y] \in [Peer -> Node \cup {None}]
      BY DEF Net
    <1>3. m \in Net
      BY <1>2 DEF Net, Altered, Accounts, Flying
    <1>4. m.nodes[p] = y /\ \A q \in Peer \ {p} : m.nodes[q] = n.nodes[q]
      BY <1>1 DEF Net, Altered, Accounts
    <1>5. Elsewhere(n, m, p)
      BY <1>1, <1>4 DEF Elsewhere, Connected
    <1>6. QED
      BY <1>3, <1>4, <1>5 DEF Altered, Accounts

(* n itself has this form.                                                 *)
LEMMA AccountsOf ==
    ASSUME NEW n \in Net
    PROVE  /\ n = Accounts(n.nodes, n.inFlight, n.nPeersWithValidatedDownloads,
                           n.nPreferredDownload, n.nSyncStarted)
           /\ n.nodes \in [Peer -> Node \cup {None}]
           /\ n.inFlight \in Flying /\ n.nPeersWithValidatedDownloads \in Int
           /\ n.nPreferredDownload \in Int /\ n.nSyncStarted \in Int
    BY DEF Net, Accounts, Flying

(* What the predicates above look at in a peer's state.                    *)
SameNode(x, y) ==
    /\ x.vBlocksInFlight = y.vBlocksInFlight /\ x.nBlocksInFlight = y.nBlocksInFlight
    /\ x.fPreferredDownload = y.fPreferredDownload /\ x.fSyncStarted = y.fSyncStarted
    /\ x.stalling = y.stalling /\ x.pindexLastCommonBlock = y.pindexLastCommonBlock
    /\ x.ready = y.ready

SameBook(n, m) ==
    /\ m.inFlight = n.inFlight
    /\ m.nPeersWithValidatedDownloads = n.nPeersWithValidatedDownloads
    /\ m.nPreferredDownload = n.nPreferredDownload
    /\ m.nSyncStarted = n.nSyncStarted
    /\ Connected(m) = Connected(n)
    /\ \A p \in Connected(n) : SameNode(n.nodes[p], m.nodes[p])

(* Accounts with the same book are as good.                                *)
LEMMA SameBookGood ==
    ASSUME NEW s, NEW n, NEW m \in Net, SameBook(n, m)
    PROVE  (Sound(n, s) => Sound(m, s)) /\ (Limits(n) => Limits(m))
    <1> USE DEF SameBook, SameNode
    <1>1. Limits(n) => Limits(m)
      BY DEF Limits
    <1> SUFFICES ASSUME Sound(n, s) PROVE Sound(m, s)
      BY <1>1
    <1>2. Flights(m)
      BY DEF Sound, Flights
    <1>3. Queues(m)
      BY DEF Sound, Queues
    <1>4. Counts(m)
      <2>1. Busy(m) = Busy(n) /\ Preferred(m) = Preferred(n) /\ Syncing(m) = Syncing(n)
        BY DEF Busy, Preferred, Syncing
      <2>2. QED
        BY <2>1 DEF Sound, Counts
    <1>5. Stalls(m) /\ Commons(m, s) /\ Greeted(m)
      BY DEF Sound, Stalls, Commons, Greeted
    <1>6. QED
      BY <1>2, <1>3, <1>4, <1>5 DEF Sound

(* A change of something else in one peer's state.                         *)
Changed(n, p, y) ==
    Altered(n, p, y, n.inFlight, n.nPeersWithValidatedDownloads, n.nPreferredDownload, n.nSyncStarted)

(* It keeps the book.                                                      *)
LEMMA NodeChangeGood ==
    ASSUME NEW s, NEW n, Good(n, s), NEW p \in Connected(n), NEW y \in Node, SameNode(n.nodes[p], y)
    PROVE  Good(Changed(n, p, y), s) /\ SameBook(n, Changed(n, p, y)) /\ Changed(n, p, y).nodes[p] = y
    <1> DEFINE m == Changed(n, p, y)
    <1>1. n \in Net
      BY DEF Good, Sound
    <1>3. /\ m \in Net /\ Elsewhere(n, m, p) /\ m.nodes[p] = y
          /\ m.inFlight = n.inFlight /\ m.nPeersWithValidatedDownloads = n.nPeersWithValidatedDownloads
          /\ m.nPreferredDownload = n.nPreferredDownload /\ m.nSyncStarted = n.nSyncStarted
      <2>1. /\ n.inFlight \in Flying /\ n.nPeersWithValidatedDownloads \in Int
            /\ n.nPreferredDownload \in Int /\ n.nSyncStarted \in Int
        BY <1>1, AccountsOf
      <2>2. QED
        BY <1>1, <2>1, AccountsAre DEF Changed
    <1> HIDE DEF m
    <1>4. \A q \in Connected(n) : SameNode(n.nodes[q], m.nodes[q])
      <2>1. \A q \in Connected(n) \ {p} : SameNode(n.nodes[q], m.nodes[q])
        BY <1>3 DEF Elsewhere, SameNode
      <2>2. QED
        BY <2>1, <1>3
    <1>5. SameBook(n, m)
      BY <1>3, <1>4 DEF SameBook, Elsewhere
    <1>6. QED
      BY <1>3, <1>5, SameBookGood DEF Good, m

(* The EXCEPT that the handlers write is such a change.                    *)
LEMMA ChangedIs ==
    ASSUME NEW n \in Net, NEW p, NEW y
    PROVE  [n EXCEPT !.nodes[p] = y] = Changed(n, p, y)
    BY DEF Net, Changed, Altered, Accounts

(* What a peer has announced, and what it is asked, is in no account.      *)
Told(x, c, u, a) == [x EXCEPT !.pindexBestKnownBlock = c, !.hashLastUnknownBlock = u, !.asked = a]

(* So recording it is harmless.                                            *)
LEMMA ToldGood ==
    ASSUME NEW s, NEW n, Good(n, s), NEW p \in Connected(n),
           NEW c \in Block \cup {None}, NEW u \in Block \cup {None}, NEW a \in Block \cup {None}
    PROVE  LET m == Changed(n, p, Told(n.nodes[p], c, u, a)) IN Good(m, s) /\ SameBook(n, m)
    <1> DEFINE x == n.nodes[p]
               y == Told(x, c, u, a)
    <1>1. n \in Net /\ p \in Peer /\ x \in Node
      BY ConnectedNode DEF Good, Sound
    <1>2. y \in Node
      BY <1>1 DEF Node, Told
    <1>3. SameNode(x, y)
      BY <1>1 DEF Node, SameNode, Told
    <1> HIDE DEF y
    <1>4. Good(Changed(n, p, y), s) /\ SameBook(n, Changed(n, p, y))
      BY <1>2, <1>3, NodeChangeGood
    <1>5. QED
      BY <1>4 DEF y

(* ProcessBlockAvailability touches no account.                            *)
LEMMA ProcessAvailabilityGood ==
    ASSUME NEW s, NEW n, Good(n, s), NEW p \in Connected(n), NEW index \in SUBSET Block
    PROVE  /\ Good(ProcessBlockAvailability(n, p, index), s)
           /\ SameBook(n, ProcessBlockAvailability(n, p, index))
    <1> DEFINE m == ProcessBlockAvailability(n, p, index)
               x == n.nodes[p]
               u == x.hashLastUnknownBlock
               k == x.pindexBestKnownBlock
               c == AtLeast(k, u)
               a == x.asked
    <1>1. n \in Net /\ p \in Peer /\ x \in Node
      BY ConnectedNode DEF Good, Sound
    <1>2. u \in Block \cup {None} /\ k \in Block \cup {None} /\ a \in Block \cup {None}
      BY <1>1 DEF Node
    <1>3. CASE u = None \/ u \notin index
      BY <1>3 DEF ProcessBlockAvailability, SameBook, SameNode
    <1>4. CASE ~(u = None \/ u \notin index)
      <2>1. c \in Block \cup {None}
        BY <1>2, <1>4 DEF AtLeast
      <2> DEFINE none == None
                 y == Told(x, c, none, a)
      <2>6. none \in Block \cup {None}
        OBVIOUS
      <2>2. y = [x EXCEPT !.pindexBestKnownBlock = AtLeast(@, u), !.hashLastUnknownBlock = None]
        BY <1>1 DEF Told, Node
      <2>3. m = [n EXCEPT !.nodes[p] = y]
        BY <1>1, <1>4, <2>2 DEF ProcessBlockAvailability, Net
      <2>4. m = Changed(n, p, y)
        BY <1>1, <2>3, ChangedIs
      <2> HIDE DEF m, c, none
      <2>5. QED
        BY <1>2, <2>1, <2>4, <2>6, ToldGood DEF m
    <1>5. QED
      BY <1>3, <1>4

(* Nor does UpdateBlockAvailability.                                       *)
LEMMA UpdateAvailabilityGood ==
    ASSUME NEW s, NEW n, Good(n, s), NEW p \in Connected(n), NEW index \in SUBSET Block, NEW b \in Block
    PROVE  /\ Good(UpdateBlockAvailability(n, p, b, index), s)
           /\ SameBook(n, UpdateBlockAvailability(n, p, b, index))
    <1> DEFINE m == ProcessBlockAvailability(n, p, index)
               o == UpdateBlockAvailability(n, p, b, index)
               x == m.nodes[p]
               k == x.pindexBestKnownBlock
               u == x.hashLastUnknownBlock
               a == x.asked
               c == IF b \in index THEN AtLeast(k, b) ELSE k
               v == IF b \in index THEN u ELSE b
               y == Told(x, c, v, a)
    <1>1. Good(m, s) /\ SameBook(n, m)
      BY ProcessAvailabilityGood
    <1>2. p \in Connected(m)
      BY <1>1 DEF SameBook
    <1>3. o = IF b \in index THEN [m EXCEPT !.nodes[p].pindexBestKnownBlock = AtLeast(@, b)]
              ELSE [m EXCEPT !.nodes[p].hashLastUnknownBlock = b]
      BY DEF UpdateBlockAvailability
    <1> HIDE DEF m, o
    <1>4. m \in Net /\ p \in Peer /\ x \in Node
      BY <1>1, <1>2, ConnectedNode DEF Good, Sound
    <1>5. k \in Block \cup {None} /\ u \in Block \cup {None} /\ a \in Block \cup {None}
      BY <1>4 DEF Node
    <1>6. c \in Block \cup {None} /\ v \in Block \cup {None}
      BY <1>5 DEF AtLeast
    <1>7. y = IF b \in index THEN [x EXCEPT !.pindexBestKnownBlock = AtLeast(@, b)]
              ELSE [x EXCEPT !.hashLastUnknownBlock = b]
      BY <1>4 DEF Node, Told
    <1>8. o = [m EXCEPT !.nodes[p] = y]
      BY <1>3, <1>4, <1>7 DEF Net
    <1>9. o = Changed(m, p, y)
      BY <1>4, <1>8, ChangedIs
    <1> HIDE DEF c, v
    <1>10. Good(o, s) /\ SameBook(m, o)
      BY <1>1, <1>2, <1>5, <1>6, <1>9, ToldGood
    <1>11. SameBook(n, o)
      BY <1>1, <1>10 DEF SameBook, SameNode
    <1>12. QED
      BY <1>10, <1>11 DEF o

(* Nor does a getheaders message.                                          *)
LEMMA GetHeadersGood ==
    ASSUME NEW s, NEW n, Good(n, s), NEW p \in Connected(n), NEW b \in Block
    PROVE  Good(GetHeaders(n, p, b), s) /\ SameBook(n, GetHeaders(n, p, b))
    <1> DEFINE m == GetHeaders(n, p, b)
               x == n.nodes[p]
               k == x.pindexBestKnownBlock
               u == x.hashLastUnknownBlock
               y == Told(x, k, u, b)
    <1>1. n \in Net /\ p \in Peer /\ x \in Node
      BY ConnectedNode DEF Good, Sound
    <1>2. u \in Block \cup {None} /\ k \in Block \cup {None} /\ b \in Block \cup {None}
      BY <1>1 DEF Node
    <1>3. CASE p \in Prompt
      <2>1. y = [x EXCEPT !.asked = b]
        BY <1>1 DEF Told, Node
      <2>2. m = [n EXCEPT !.nodes[p] = y]
        BY <1>1, <1>3, <2>1 DEF GetHeaders, Net
      <2>3. m = Changed(n, p, y)
        BY <1>1, <2>2, ChangedIs
      <2> HIDE DEF m
      <2>4. QED
        BY <1>2, <2>3, ToldGood DEF m
    <1>4. CASE p \notin Prompt
      BY <1>4 DEF GetHeaders, SameBook, SameNode
    <1>5. QED
      BY <1>3, <1>4

-----------------------------------------------------------------------------
(* How the accounts follow a change of p's state to y and of the blocks in *)
(* flight to f.                                                            *)
Bit(c) == IF c THEN 1 ELSE 0

(* Sets of peers that differ in p only: their sizes differ by p.           *)
LEMMA CountChange ==
    ASSUME NEW S \in SUBSET Peer, NEW T \in SUBSET Peer, NEW p \in Peer, T \ {p} = S \ {p}
    PROVE  Cardinality(T) = Cardinality(S) + Bit(p \in T) - Bit(p \in S)
    <1>1. ASSUME NEW R \in SUBSET Peer
          PROVE  Cardinality(R) = Cardinality(R \ {p}) + Bit(p \in R) /\ Cardinality(R \ {p}) \in Nat
      <2>1. IsFiniteSet(R) /\ IsFiniteSet(R \ {p})
        BY TreeAssumption, FS_Subset
      <2>2. Cardinality(R) \in Nat /\ Cardinality(R \ {p}) \in Nat
        BY <2>1, FS_CardinalityType
      <2>3. CASE p \in R
        BY <2>1, <2>2, <2>3, FS_RemoveElement DEF Bit
      <2>4. CASE p \notin R
        <3>1. R \ {p} = R
          BY <2>4
        <3>2. QED
          BY <2>2, <2>4, <3>1 DEF Bit
      <2>5. QED
        BY <2>3, <2>4
    <1>2. Bit(p \in S) \in Int /\ Bit(p \in T) \in Int
      BY DEF Bit
    <1>3. Cardinality(S) = Cardinality(S \ {p}) + Bit(p \in S) /\ Cardinality(S \ {p}) \in Nat
      BY <1>1
    <1>4. Cardinality(T) = Cardinality(S \ {p}) + Bit(p \in T)
      BY <1>1
    <1>5. QED
      BY <1>2, <1>3, <1>4

Follows(n, p, y, f) ==
    /\ \A b \in DOMAIN f : f[b] = p => b \in y.vBlocksInFlight
    /\ \A b \in y.vBlocksInFlight : b \in DOMAIN f /\ f[b] = p
    /\ \A b \in DOMAIN f : f[b] # p => b \in DOMAIN n.inFlight /\ n.inFlight[b] = f[b]
    /\ \A b \in DOMAIN n.inFlight : n.inFlight[b] # p => b \in DOMAIN f /\ f[b] = n.inFlight[b]

Settled(y, s) ==
    /\ y.nBlocksInFlight = Cardinality(y.vBlocksInFlight)
    /\ y.stalling => y.vBlocksInFlight # {}
    /\ y.pindexLastCommonBlock # None => Chain(y.pindexLastCommonBlock) \subseteq s
    /\ y.fPreferredDownload => y.ready

Moved(n, p, y, f) ==
    LET x == n.nodes[p]
    IN  Altered(n, p, y, f,
                n.nPeersWithValidatedDownloads + Bit(y.vBlocksInFlight # {}) - Bit(x.vBlocksInFlight # {}),
                n.nPreferredDownload + Bit(y.fPreferredDownload) - Bit(x.fPreferredDownload),
                n.nSyncStarted + Bit(y.fSyncStarted) - Bit(x.fSyncStarted))

(* The accounts after the change, field by field.                          *)
LEMMA MovedIs ==
    ASSUME NEW n \in Net, NEW p \in Connected(n), NEW y \in Node, NEW f \in Flying
    PROVE  LET m == Moved(n, p, y, f)
               x == n.nodes[p]
           IN  /\ m \in Net /\ Elsewhere(n, m, p) /\ m.nodes[p] = y /\ m.inFlight = f
               /\ m.nPeersWithValidatedDownloads =
                      n.nPeersWithValidatedDownloads + Bit(y.vBlocksInFlight # {}) - Bit(x.vBlocksInFlight # {})
               /\ m.nPreferredDownload =
                      n.nPreferredDownload + Bit(y.fPreferredDownload) - Bit(x.fPreferredDownload)
               /\ m.nSyncStarted = n.nSyncStarted + Bit(y.fSyncStarted) - Bit(x.fSyncStarted)
    <1> DEFINE x == n.nodes[p]
               v == n.nPeersWithValidatedDownloads + Bit(y.vBlocksInFlight # {}) - Bit(x.vBlocksInFlight # {})
               w == n.nPreferredDownload + Bit(y.fPreferredDownload) - Bit(x.fPreferredDownload)
               z == n.nSyncStarted + Bit(y.fSyncStarted) - Bit(x.fSyncStarted)
    <1>1. v \in Int /\ w \in Int /\ z \in Int
      <2>1. \A c \in BOOLEAN : Bit(c) \in Int
        BY DEF Bit
      <2>2. /\ n.nPeersWithValidatedDownloads \in Int
            /\ n.nPreferredDownload \in Int /\ n.nSyncStarted \in Int
        BY AccountsOf
      <2>3. /\ Bit(y.vBlocksInFlight # {}) \in Int /\ Bit(x.vBlocksInFlight # {}) \in Int
            /\ Bit(y.fPreferredDownload) \in Int /\ Bit(x.fPreferredDownload) \in Int
            /\ Bit(y.fSyncStarted) \in Int /\ Bit(x.fSyncStarted) \in Int
        BY DEF Bit
      <2>4. QED
        BY <2>2, <2>3
    <1>2. Moved(n, p, y, f) = Altered(n, p, y, f, v, w, z)
      BY DEF Moved
    <1> HIDE DEF v, w, z
    <1>3. QED
      BY <1>1, <1>2, AccountsAre DEF v, w, z

(* They are sound if queue and map were changed alike.                     *)
LEMMA MovedSound ==
    ASSUME NEW s, NEW n, Sound(n, s), NEW p \in Connected(n), NEW y \in Node, NEW f \in Flying,
           Follows(n, p, y, f), Settled(y, s)
    PROVE  /\ Sound(Moved(n, p, y, f), s)
           /\ Elsewhere(n, Moved(n, p, y, f), p) /\ Moved(n, p, y, f).nodes[p] = y
    <1> DEFINE m == Moved(n, p, y, f)
               x == n.nodes[p]
    <1>1. n \in Net /\ p \in Peer /\ x \in Node
      BY ConnectedNode DEF Sound
    <1>2. /\ m \in Net /\ Elsewhere(n, m, p) /\ m.nodes[p] = y /\ m.inFlight = f
          /\ m.nPeersWithValidatedDownloads =
                 n.nPeersWithValidatedDownloads + Bit(y.vBlocksInFlight # {}) - Bit(x.vBlocksInFlight # {})
          /\ m.nPreferredDownload =
                 n.nPreferredDownload + Bit(y.fPreferredDownload) - Bit(x.fPreferredDownload)
          /\ m.nSyncStarted = n.nSyncStarted + Bit(y.fSyncStarted) - Bit(x.fSyncStarted)
      BY <1>1, MovedIs
    <1> HIDE DEF m
    <1>3. Connected(m) = Connected(n) /\ \A q \in Connected(n) \ {p} : m.nodes[q] = n.nodes[q]
      BY <1>2 DEF Elsewhere
    <1>4. Flights(m)
      <2> SUFFICES ASSUME NEW b \in DOMAIN f
                   PROVE  f[b] \in Connected(n) /\ b \in m.nodes[f[b]].vBlocksInFlight
        BY <1>2, <1>3 DEF Flights
      <2>1. CASE f[b] = p
        BY <2>1, <1>2 DEF Follows
      <2>2. CASE f[b] # p
        BY <2>2, <1>3 DEF Follows, Sound, Flights
      <2>3. QED
        BY <2>1, <2>2
    <1>5. Queues(m)
      <2> SUFFICES ASSUME NEW q \in Connected(n)
                   PROVE  /\ \A b \in m.nodes[q].vBlocksInFlight : b \in DOMAIN f /\ f[b] = q
                          /\ m.nodes[q].nBlocksInFlight = Cardinality(m.nodes[q].vBlocksInFlight)
        BY <1>2, <1>3 DEF Queues
      <2>1. CASE q = p
        BY <2>1, <1>2 DEF Follows, Settled
      <2>2. CASE q # p
        BY <2>2, <1>3 DEF Follows, Sound, Queues
      <2>3. QED
        BY <2>1, <2>2
    <1>6. Counts(m)
      <2>1. /\ Busy(m) \in SUBSET Peer /\ Preferred(m) \in SUBSET Peer /\ Syncing(m) \in SUBSET Peer
            /\ Busy(n) \in SUBSET Peer /\ Preferred(n) \in SUBSET Peer /\ Syncing(n) \in SUBSET Peer
        BY DEF Busy, Preferred, Syncing, Connected
      <2>2. /\ Busy(m) \ {p} = Busy(n) \ {p} /\ Preferred(m) \ {p} = Preferred(n) \ {p}
            /\ Syncing(m) \ {p} = Syncing(n) \ {p}
        BY <1>3 DEF Busy, Preferred, Syncing
      <2>3. /\ (p \in Busy(n)) = (x.vBlocksInFlight # {}) /\ (p \in Busy(m)) = (y.vBlocksInFlight # {})
            /\ p \in Preferred(n) <=> x.fPreferredDownload
            /\ p \in Preferred(m) <=> y.fPreferredDownload
            /\ p \in Syncing(n) <=> x.fSyncStarted
            /\ p \in Syncing(m) <=> y.fSyncStarted
        BY <1>2, <1>3 DEF Busy, Preferred, Syncing
      <2>4. n.nPeersWithValidatedDownloads = Cardinality(Busy(n))
            /\ n.nPreferredDownload = Cardinality(Preferred(n)) /\ n.nSyncStarted = Cardinality(Syncing(n))
        BY DEF Sound, Counts
      <2>5. Cardinality(Busy(m)) = Cardinality(Busy(n)) + Bit(p \in Busy(m)) - Bit(p \in Busy(n))
        BY <1>1, <2>1, <2>2, CountChange
      <2>6. Cardinality(Preferred(m)) = Cardinality(Preferred(n)) + Bit(p \in Preferred(m)) - Bit(p \in Preferred(n))
        BY <1>1, <2>1, <2>2, CountChange
      <2>7. Cardinality(Syncing(m)) = Cardinality(Syncing(n)) + Bit(p \in Syncing(m)) - Bit(p \in Syncing(n))
        BY <1>1, <2>1, <2>2, CountChange
      <2>8. m.nPeersWithValidatedDownloads = Cardinality(Busy(m))
        BY <1>2, <2>3, <2>4, <2>5 DEF Bit
      <2>9. m.nPreferredDownload = Cardinality(Preferred(m))
        BY <1>2, <2>3, <2>4, <2>6 DEF Bit
      <2>10. m.nSyncStarted = Cardinality(Syncing(m))
        BY <1>2, <2>3, <2>4, <2>7 DEF Bit
      <2>11. QED
        BY <2>8, <2>9, <2>10 DEF Counts
    <1>7. ASSUME NEW q \in Connected(n)
          PROVE  /\ m.nodes[q].stalling => m.nodes[q].vBlocksInFlight # {}
                 /\ m.nodes[q].pindexLastCommonBlock # None => Chain(m.nodes[q].pindexLastCommonBlock) \subseteq s
                 /\ m.nodes[q].fPreferredDownload => m.nodes[q].ready
      <2>1. CASE q = p
        BY <2>1, <1>2 DEF Settled
      <2>2. CASE q # p
        BY <2>2, <1>3 DEF Sound, Stalls, Commons, Greeted
      <2>3. QED
        BY <2>1, <2>2
    <1>8. Stalls(m) /\ Commons(m, s) /\ Greeted(m)
      BY <1>3, <1>7 DEF Stalls, Commons, Greeted
    <1>9. QED
      BY <1>2, <1>4, <1>5, <1>6, <1>8 DEF Sound, m

(* What Sound says of one peer.                                            *)
LEMMA SoundNode ==
    ASSUME NEW s, NEW n, Sound(n, s), NEW p \in Connected(n)
    PROVE  /\ n \in Net /\ p \in Peer /\ n.nodes[p] \in Node /\ n.inFlight \in Flying
           /\ Settled(n.nodes[p], s) /\ Follows(n, p, n.nodes[p], n.inFlight)
           /\ IsFiniteSet(n.nodes[p].vBlocksInFlight)
    <1>1. n \in Net /\ p \in Peer /\ n.nodes[p] \in Node /\ n.inFlight \in Flying
      BY ConnectedNode, AccountsOf DEF Sound
    <1>2. Settled(n.nodes[p], s)
      BY DEF Sound, Queues, Stalls, Commons, Greeted, Settled
    <1>3. Follows(n, p, n.nodes[p], n.inFlight)
      BY DEF Sound, Flights, Queues, Follows
    <1>4. n.nodes[p].vBlocksInFlight \in SUBSET Block
      BY <1>1 DEF Node
    <1>5. QED
      BY <1>1, <1>2, <1>3, <1>4, TreeAssumption, FS_Subset

(* And within the limits if the new queue is.                              *)
LEMMA MovedGood ==
    ASSUME NEW s, NEW n, Good(n, s), NEW p \in Connected(n), NEW y \in Node, NEW f \in Flying,
           Follows(n, p, y, f), Settled(y, s), y.nBlocksInFlight <= MAX_BLOCKS_IN_TRANSIT_PER_PEER
    PROVE  /\ Good(Moved(n, p, y, f), s)
           /\ Elsewhere(n, Moved(n, p, y, f), p) /\ Moved(n, p, y, f).nodes[p] = y
    <1> DEFINE m == Moved(n, p, y, f)
    <1>1. Sound(n, s) /\ Limits(n)
      BY DEF Good
    <1>2. Sound(m, s) /\ Elsewhere(n, m, p) /\ m.nodes[p] = y
      BY <1>1, MovedSound
    <1> HIDE DEF m
    <1>3. Limits(m)
      BY <1>1, <1>2 DEF Limits, Elsewhere
    <1>4. QED
      BY <1>2, <1>3 DEF Good, m

(* The start and the end of a headers synchronisation.                     *)
SyncState(x, c, t) == [x EXCEPT !.fSyncStarted = c, !.nHeadersSyncTimeout = t]

Switched(n, p, c, t, z) ==
    Altered(n, p, SyncState(n.nodes[p], c, t), n.inFlight, n.nPeersWithValidatedDownloads,
            n.nPreferredDownload, z)

(* nSyncStarted follows fSyncStarted.                                      *)
LEMMA SyncGood ==
    ASSUME NEW s, NEW n, Good(n, s), NEW p \in Connected(n),
           NEW c \in BOOLEAN, NEW t \in {"off", "armed", "never"},
           NEW z, z = n.nSyncStarted + Bit(c) - Bit(n.nodes[p].fSyncStarted)
    PROVE  Good(Switched(n, p, c, t, z), s) /\ Connected(Switched(n, p, c, t, z)) = Connected(n)
    <1> DEFINE x == n.nodes[p]
               y == SyncState(x, c, t)
               v == n.nPeersWithValidatedDownloads
               w == n.nPreferredDownload
    <1>1. Sound(n, s) /\ Limits(n)
      BY DEF Good
    <1>2. /\ n \in Net /\ p \in Peer /\ x \in Node /\ n.inFlight \in Flying
          /\ Settled(x, s) /\ Follows(n, p, x, n.inFlight)
      BY <1>1, SoundNode
    <1>3. y \in Node /\ y.fSyncStarted = c
      BY <1>2 DEF Node, SyncState
    <1>4. /\ y.vBlocksInFlight = x.vBlocksInFlight /\ y.nBlocksInFlight = x.nBlocksInFlight
          /\ y.stalling = x.stalling /\ y.pindexLastCommonBlock = x.pindexLastCommonBlock
          /\ y.fPreferredDownload = x.fPreferredDownload /\ y.ready = x.ready
      BY <1>2 DEF Node, SyncState
    <1> HIDE DEF y
    <1>5. Settled(y, s) /\ Follows(n, p, y, n.inFlight)
      BY <1>2, <1>4 DEF Settled, Follows
    <1>6. y.nBlocksInFlight <= MAX_BLOCKS_IN_TRANSIT_PER_PEER
      BY <1>1, <1>4 DEF Limits
    <1>7. Moved(n, p, y, n.inFlight) = Altered(n, p, y, n.inFlight, v, w, z)
      <2>1. v \in Int /\ w \in Int
        BY <1>2, AccountsOf
      <2>2. v + Bit(y.vBlocksInFlight # {}) - Bit(x.vBlocksInFlight # {}) = v
        BY <2>1, <1>4 DEF Bit
      <2>3. w + Bit(y.fPreferredDownload) - Bit(x.fPreferredDownload) = w
        BY <2>1, <1>4 DEF Bit
      <2>4. QED
        BY <2>2, <2>3, <1>3 DEF Moved
    <1>8. Switched(n, p, c, t, z) = Moved(n, p, y, n.inFlight)
      BY <1>7 DEF Switched, y
    <1>9. Good(Moved(n, p, y, n.inFlight), s) /\ Elsewhere(n, Moved(n, p, y, n.inFlight), p)
      BY <1>2, <1>3, <1>5, <1>6, MovedGood
    <1>10. QED
      BY <1>8, <1>9 DEF Elsewhere

(* StartSync counts the peer it starts with.                               *)
LEMMA StartSyncGood ==
    ASSUME NEW s, NEW n, Good(n, s), NEW p \in Connected(n), bestHeader \in Block
    PROVE  Good(StartSync(n, p), s) /\ Connected(StartSync(n, p)) = Connected(n)
    <1> DEFINE x == n.nodes[p]
               c == ~x.fSyncStarted /\ ((n.nSyncStarted = 0 /\ Fetches(n, p)) \/ bestHeader \in Recent)
               z == n.nSyncStarted + 1
               on == TRUE
               t == "armed"
               m == Switched(n, p, on, t, z)
               b == IF bestHeader = Genesis THEN Genesis ELSE Parent[bestHeader]
    <1>1. n \in Net /\ p \in Peer /\ x \in Node /\ n.nSyncStarted \in Int
      BY ConnectedNode, AccountsOf DEF Good, Sound
    <1>2. CASE ~c
      BY <1>2 DEF StartSync
    <1>3. CASE c
      <2>1. m = [n EXCEPT !.nodes[p].fSyncStarted = TRUE, !.nodes[p].nHeadersSyncTimeout = "armed",
                          !.nSyncStarted = @ + 1]
        <3> DEFINE y == SyncState(x, TRUE, "armed")
                   k == [n EXCEPT !.nodes[p].fSyncStarted = TRUE, !.nodes[p].nHeadersSyncTimeout = "armed"]
        <3>1. k = [n EXCEPT !.nodes[p] = y]
          BY <1>1 DEF Net, SyncState
        <3>2. k = Changed(n, p, y)
          BY <1>1, <3>1, ChangedIs
        <3> HIDE DEF y, k
        <3>3. [k EXCEPT !.nSyncStarted = z] = m
          <4>1. m = Altered(n, p, y, n.inFlight, n.nPeersWithValidatedDownloads, n.nPreferredDownload, z)
            BY DEF Switched, y
          <4> HIDE DEF m, z
          <4>2. QED
            BY <4>1, <3>2 DEF Changed, Altered, Accounts
        <3>4. k.nSyncStarted = n.nSyncStarted
          BY <3>2 DEF Changed, Altered, Accounts
        <3>5. QED
          BY <3>3, <3>4 DEF k
      <2>2. StartSync(n, p) = GetHeaders(m, p, b)
        BY <1>3, <2>1 DEF StartSync
      <2>3. /\ z = n.nSyncStarted + Bit(on) - Bit(n.nodes[p].fSyncStarted)
            /\ on \in BOOLEAN /\ t \in {"off", "armed", "never"}
        BY <1>1, <1>3 DEF Bit
      <2>4. b \in Block
        BY TreeAssumption
      <2> HIDE DEF b, z, on, t
      <2>5. Good(m, s) /\ Connected(m) = Connected(n)
        BY <2>3, SyncGood
      <2> HIDE DEF m
      <2>6. Good(GetHeaders(m, p, b), s) /\ SameBook(m, GetHeaders(m, p, b))
        BY <2>5, <2>4, GetHeadersGood
      <2>7. QED
        BY <2>2, <2>5, <2>6 DEF SameBook
    <1>4. QED
      BY <1>2, <1>3

(* AfterHeadersCheck takes the late peer off the count.                    *)
LEMMA HeadersCheckGood ==
    ASSUME NEW s, NEW n, Good(n, s), NEW p \in Connected(n), NEW late
    PROVE  LET m == AfterHeadersCheck(n, p, late) IN Good(m, s) /\ Connected(m) = Connected(n)
    <1> DEFINE x == n.nodes[p]
    <1>1. n \in Net /\ p \in Peer /\ x \in Node /\ n.nSyncStarted \in Int
      BY ConnectedNode, AccountsOf DEF Good, Sound
    <1>2. CASE HeadersLate(n, p, late)
      <2> DEFINE z == n.nSyncStarted - 1
                 on == FALSE
                 t == "off"
      <2>1. /\ z = n.nSyncStarted + Bit(on) - Bit(x.fSyncStarted)
            /\ on \in BOOLEAN /\ t \in {"off", "armed", "never"}
        BY <1>1, <1>2 DEF HeadersLate, Bit
      <2>2. AfterHeadersCheck(n, p, late) = Switched(n, p, on, t, z)
        BY <1>1, <1>2 DEF AfterHeadersCheck, Net, Switched, SyncState, Altered, Accounts
      <2> HIDE DEF z, on, t
      <2>3. QED
        BY <2>1, <2>2, SyncGood
    <1>3. CASE ~HeadersLate(n, p, late) /\ x.fSyncStarted /\ bestHeader \in Recent
      <2> DEFINE z == n.nSyncStarted
                 on == TRUE
                 t == "never"
                 y == [x EXCEPT !.nHeadersSyncTimeout = "never"]
      <2>1. /\ z = n.nSyncStarted + Bit(on) - Bit(x.fSyncStarted)
            /\ on \in BOOLEAN /\ t \in {"off", "armed", "never"}
        BY <1>1, <1>3 DEF Bit
      <2>2. y = SyncState(x, on, t)
        <3>1. x.fSyncStarted = TRUE
          BY <1>1, <1>3 DEF Node
        <3>2. QED
          BY <3>1, <1>1 DEF Node, SyncState
      <2>3. AfterHeadersCheck(n, p, late) = [n EXCEPT !.nodes[p] = y]
        BY <1>1, <1>3 DEF AfterHeadersCheck, Net
      <2>4. [n EXCEPT !.nodes[p] = y] = Changed(n, p, y)
        BY <1>1, ChangedIs
      <2>5. AfterHeadersCheck(n, p, late) = Switched(n, p, on, t, z)
        BY <2>2, <2>3, <2>4 DEF Changed, Switched
      <2> HIDE DEF z, on, t
      <2>6. QED
        BY <2>1, <2>5, SyncGood
    <1>4. CASE ~HeadersLate(n, p, late) /\ ~(x.fSyncStarted /\ bestHeader \in Recent)
      BY <1>4 DEF AfterHeadersCheck
    <1>5. QED
      BY <1>2, <1>3, <1>4

-----------------------------------------------------------------------------
(* Blocks that are asked for and arrive.                                   *)
LEMMA FlyingIs ==
    ASSUME NEW f \in Flying
    PROVE  DOMAIN f \in SUBSET Block /\ \A b \in DOMAIN f : f[b] \in Peer
    BY DEF Flying

(* Any map from blocks to peers may be in flight.                          *)
LEMMA FlyingFrom ==
    ASSUME NEW D \in SUBSET Block, NEW f \in [D -> Peer]
    PROVE  f \in Flying
    BY DEF Flying

(* The queues of m are no longer than those of n.                          *)
Shorter(n, m) ==
    \A p \in Connected(n) : m.nodes[p].nBlocksInFlight <= n.nodes[p].nBlocksInFlight

ReceivedNode(x, b) ==
    [x EXCEPT !.vBlocksInFlight = @ \ {b}, !.nBlocksInFlight = x.nBlocksInFlight - 1, !.stalling = FALSE]

(* MarkBlockAsReceived takes b out of one queue and the map, wherever it   *)
(* was.                                                                    *)
LEMMA ReceivedSound ==
    ASSUME NEW s, NEW n, Sound(n, s), NEW b \in Block
    PROVE  LET m == MarkBlockAsReceived(n, b)
           IN  /\ Sound(m, s) /\ Connected(m) = Connected(n) /\ Shorter(n, m)
               /\ b \notin DOMAIN m.inFlight
    <1>1. CASE b \notin DOMAIN n.inFlight
      <2>1. ASSUME NEW p \in Connected(n) PROVE n.nodes[p].nBlocksInFlight <= n.nodes[p].nBlocksInFlight
        <3>1. n.nodes[p] \in Node
          BY SoundNode
        <3>2. QED
          BY <3>1 DEF Node
      <2>2. QED
        BY <1>1, <2>1 DEF MarkBlockAsReceived, Shorter
    <1>2. CASE b \in DOMAIN n.inFlight
      <2> DEFINE p == n.inFlight[b]
                 x == n.nodes[p]
                 y == ReceivedNode(x, b)
                 f == Restrict(n.inFlight, DOMAIN n.inFlight \ {b})
                 left == x.nBlocksInFlight - 1
      <2>1. p \in Connected(n) /\ b \in x.vBlocksInFlight
        BY <1>2 DEF Sound, Flights
      <2> HIDE DEF p
      <2>2. /\ n \in Net /\ p \in Peer /\ x \in Node /\ n.inFlight \in Flying
            /\ Settled(x, s) /\ Follows(n, p, x, n.inFlight) /\ IsFiniteSet(x.vBlocksInFlight)
        BY <2>1, SoundNode
      <2>3. /\ Cardinality(x.vBlocksInFlight \ {b}) = left /\ left \in Nat
            /\ (left = 0) = (x.vBlocksInFlight \ {b} = {})
        <3>1. /\ IsFiniteSet(x.vBlocksInFlight \ {b})
              /\ Cardinality(x.vBlocksInFlight \ {b}) = Cardinality(x.vBlocksInFlight) - 1
          BY <2>1, <2>2, FS_RemoveElement
        <3>2. Cardinality(x.vBlocksInFlight \ {b}) \in Nat
          BY <3>1, FS_CardinalityType
        <3>3. (Cardinality(x.vBlocksInFlight \ {b}) = 0) = (x.vBlocksInFlight \ {b} = {})
          BY <3>1, FS_EmptySet
        <3>4. QED
          BY <2>2, <3>1, <3>2, <3>3 DEF Settled
      <2>4. y \in Node
        BY <2>2, <2>3 DEF Node, ReceivedNode
      <2>5. /\ y.vBlocksInFlight = x.vBlocksInFlight \ {b} /\ y.nBlocksInFlight = left
            /\ y.stalling = FALSE /\ y.pindexLastCommonBlock = x.pindexLastCommonBlock
            /\ y.fPreferredDownload = x.fPreferredDownload /\ y.ready = x.ready
            /\ y.fSyncStarted = x.fSyncStarted
        BY <2>2 DEF Node, ReceivedNode
      <2> HIDE DEF y
      <2>6. DOMAIN f = DOMAIN n.inFlight \ {b} /\ \A c \in DOMAIN f : f[c] = n.inFlight[c]
        BY DEF Restrict
      <2>7. f \in Flying
        <3>1. f \in [DOMAIN n.inFlight \ {b} -> Peer] /\ DOMAIN n.inFlight \ {b} \in SUBSET Block
          BY <2>2, FlyingIs DEF Restrict
        <3>2. QED
          BY <3>1, FlyingFrom
      <2> HIDE DEF f
      <2>8. Settled(y, s)
        BY <2>2, <2>3, <2>5 DEF Settled
      <2>9. Follows(n, p, y, f)
        <3>1. \A c \in DOMAIN f : f[c] = p => c \in y.vBlocksInFlight
          BY <2>2, <2>5, <2>6 DEF Follows
        <3>2. \A c \in y.vBlocksInFlight : c \in DOMAIN f /\ f[c] = p
          BY <2>2, <2>5, <2>6 DEF Follows
        <3>3. \A c \in DOMAIN f : f[c] # p => c \in DOMAIN n.inFlight /\ n.inFlight[c] = f[c]
          BY <2>6
        <3>4. \A c \in DOMAIN n.inFlight : n.inFlight[c] # p => c \in DOMAIN f /\ f[c] = n.inFlight[c]
          BY <2>6 DEF p
        <3>5. QED
          BY <3>1, <3>2, <3>3, <3>4 DEF Follows
      <2> DEFINE v == IF left = 0 THEN n.nPeersWithValidatedDownloads - 1 ELSE n.nPeersWithValidatedDownloads
                 k == Altered(n, p, y, f, v, n.nPreferredDownload, n.nSyncStarted)
      <2>10. Moved(n, p, y, f) = k
        <3>1. /\ n.nPeersWithValidatedDownloads \in Int /\ n.nPreferredDownload \in Int /\ n.nSyncStarted \in Int
          BY <2>2, AccountsOf
        <3>2. n.nPeersWithValidatedDownloads + Bit(y.vBlocksInFlight # {}) - Bit(x.vBlocksInFlight # {}) = v
          BY <3>1, <2>1, <2>3, <2>5 DEF Bit
        <3>3. n.nPreferredDownload + Bit(y.fPreferredDownload) - Bit(x.fPreferredDownload) = n.nPreferredDownload
          BY <3>1, <2>5 DEF Bit
        <3>4. n.nSyncStarted + Bit(y.fSyncStarted) - Bit(x.fSyncStarted) = n.nSyncStarted
          BY <3>1, <2>5 DEF Bit
        <3>5. QED
          BY <3>2, <3>3, <3>4 DEF Moved
      <2>11. MarkBlockAsReceived(n, b) = k
        <3>1. MarkBlockAsReceived(n, b) =
                [n EXCEPT !.nodes[p].vBlocksInFlight = @ \ {b}, !.nodes[p].nBlocksInFlight = left,
                          !.nodes[p].stalling = FALSE,
                          !.inFlight = Restrict(@, DOMAIN @ \ {b}),
                          !.nPeersWithValidatedDownloads = IF left = 0 THEN @ - 1 ELSE @]
          BY <1>2 DEF MarkBlockAsReceived, p
        <3> DEFINE m1 == [n EXCEPT !.nodes[p].vBlocksInFlight = @ \ {b}, !.nodes[p].nBlocksInFlight = left,
                                   !.nodes[p].stalling = FALSE]
        <3>2. m1 = [n EXCEPT !.nodes[p] = y]
          BY <2>2 DEF Net, ReceivedNode, y
        <3>3. m1 = Changed(n, p, y)
          BY <2>2, <3>2, ChangedIs
        <3>4. /\ m1.inFlight = n.inFlight
              /\ m1.nPeersWithValidatedDownloads = n.nPeersWithValidatedDownloads
          BY <3>3 DEF Changed, Altered, Accounts
        <3>5. MarkBlockAsReceived(n, b) = [[m1 EXCEPT !.inFlight = f] EXCEPT !.nPeersWithValidatedDownloads = v]
          BY <3>1, <3>4 DEF f
        <3> HIDE DEF m1, v
        <3>6. QED
          BY <3>3, <3>5 DEF Changed, Altered, Accounts
      <2>12. Sound(k, s) /\ Elsewhere(n, k, p) /\ k.nodes[p] = y
        BY <2>1, <2>4, <2>7, <2>8, <2>9, <2>10, MovedSound
      <2>13. Connected(k) = Connected(n) /\ Shorter(n, k)
        <3>1. ASSUME NEW q \in Connected(n) PROVE k.nodes[q].nBlocksInFlight <= n.nodes[q].nBlocksInFlight
          <4>1. n.nodes[q] \in Node
            BY SoundNode
          <4>2. CASE q = p
            BY <4>1, <4>2, <2>5, <2>12 DEF Node
          <4>3. CASE q # p
            BY <4>1, <4>3, <2>12 DEF Node, Elsewhere
          <4>4. QED
            BY <4>2, <4>3
        <3>2. QED
          BY <3>1, <2>12 DEF Shorter, Elsewhere
      <2>14. k.inFlight = f
        BY DEF Altered, Accounts
      <2> HIDE DEF k
      <2>15. QED
        BY <2>6, <2>11, <2>12, <2>13, <2>14
    <1>3. QED
      BY <1>1, <1>2

AskedNode(x, b) == [x EXCEPT !.vBlocksInFlight = @ \cup {b}, !.nBlocksInFlight = @ + 1]

Longer(n, m, p, k) ==
    /\ \A q \in Connected(n) \ {p} : m.nodes[q].nBlocksInFlight <= n.nodes[q].nBlocksInFlight
    /\ m.nodes[p].nBlocksInFlight <= n.nodes[p].nBlocksInFlight + k

(* MarkBlockAsInFlight moves b to the queue of p, and no other queue       *)
(* grows.                                                                  *)
LEMMA InFlightSound ==
    ASSUME NEW s, NEW n, Sound(n, s), NEW p \in Connected(n), NEW b \in Block
    PROVE  LET m == MarkBlockAsInFlight(n, p, b)
           IN  Sound(m, s) /\ Connected(m) = Connected(n) /\ Longer(n, m, p, 1)
    <1>1. \A q \in Connected(n) : n.nodes[q].nBlocksInFlight \in Nat
      <2>1. \A q \in Connected(n) : n.nodes[q] \in Node
        BY SoundNode
      <2>2. QED
        BY <2>1 DEF Node
    <1>2. CASE b \in DOMAIN n.inFlight /\ n.inFlight[b] = p
      BY <1>1, <1>2 DEF MarkBlockAsInFlight, Longer
    <1>3. CASE ~(b \in DOMAIN n.inFlight /\ n.inFlight[b] = p)
      <2> DEFINE m == MarkBlockAsReceived(n, b)
                 x == m.nodes[p]
                 y == AskedNode(x, b)
                 D == DOMAIN m.inFlight \cup {b}
                 f == [c \in D |-> IF c = b THEN p ELSE m.inFlight[c]]
                 v == IF x.nBlocksInFlight = 0 THEN m.nPeersWithValidatedDownloads + 1
                      ELSE m.nPeersWithValidatedDownloads
                 k == Altered(m, p, y, f, v, m.nPreferredDownload, m.nSyncStarted)
      <2>1. /\ Sound(m, s) /\ Connected(m) = Connected(n) /\ Shorter(n, m)
            /\ b \notin DOMAIN m.inFlight
        BY ReceivedSound
      <2>2. MarkBlockAsInFlight(n, p, b) =
               [m EXCEPT !.nodes[p].vBlocksInFlight = @ \cup {b},
                         !.nodes[p].nBlocksInFlight = @ + 1,
                         !.inFlight = [c \in DOMAIN @ \cup {b} |-> IF c = b THEN p ELSE @[c]],
                         !.nPeersWithValidatedDownloads = IF x.nBlocksInFlight = 0 THEN @ + 1 ELSE @]
        BY <1>3 DEF MarkBlockAsInFlight
      <2> HIDE DEF m
      <2>3. /\ m \in Net /\ p \in Peer /\ x \in Node /\ m.inFlight \in Flying
            /\ Settled(x, s) /\ Follows(m, p, x, m.inFlight) /\ IsFiniteSet(x.vBlocksInFlight)
        BY <2>1, SoundNode
      <2>4. b \notin x.vBlocksInFlight
        BY <2>1, <2>3 DEF Follows
      <2>5. x.nBlocksInFlight \in Nat /\ Cardinality(x.vBlocksInFlight \cup {b}) = x.nBlocksInFlight + 1
        <3>1. x.nBlocksInFlight \in Nat /\ x.nBlocksInFlight = Cardinality(x.vBlocksInFlight)
          BY <2>3 DEF Node, Settled
        <3>2. Cardinality(x.vBlocksInFlight \cup {b}) = Cardinality(x.vBlocksInFlight) + 1
          BY <2>3, <2>4, FS_AddElement
        <3>3. QED
          BY <3>1, <3>2
      <2>6. (x.nBlocksInFlight = 0) = (x.vBlocksInFlight = {})
        BY <2>3, FS_EmptySet DEF Settled
      <2>7. y \in Node
        <3>1. x.vBlocksInFlight \cup {b} \in SUBSET Block /\ x.nBlocksInFlight + 1 \in Nat
          BY <2>3, <2>5 DEF Node
        <3>2. QED
          BY <2>3, <3>1 DEF Node, AskedNode
      <2>8. /\ y.vBlocksInFlight = x.vBlocksInFlight \cup {b} /\ y.nBlocksInFlight = x.nBlocksInFlight + 1
            /\ y.stalling = x.stalling /\ y.pindexLastCommonBlock = x.pindexLastCommonBlock
            /\ y.fPreferredDownload = x.fPreferredDownload /\ y.ready = x.ready
            /\ y.fSyncStarted = x.fSyncStarted
        BY <2>3 DEF Node, AskedNode
      <2> HIDE DEF y
      <2>9. f \in Flying
        <3>1. D \in SUBSET Block /\ f \in [D -> Peer]
          BY <2>3, FlyingIs
        <3>2. QED
          BY <3>1, FlyingFrom
      <2>10. Settled(y, s)
        BY <2>3, <2>5, <2>8 DEF Settled
      <2>11. DOMAIN f = DOMAIN m.inFlight \cup {b} /\ f[b] = p /\ \A c \in DOMAIN m.inFlight : f[c] = m.inFlight[c]
        BY <2>1
      <2> HIDE DEF f
      <2>12. Follows(m, p, y, f)
        <3>1. \A c \in DOMAIN f : f[c] = p => c \in y.vBlocksInFlight
          BY <2>3, <2>8, <2>11 DEF Follows
        <3>2. \A c \in y.vBlocksInFlight : c \in DOMAIN f /\ f[c] = p
          BY <2>3, <2>8, <2>11 DEF Follows
        <3>3. \A c \in DOMAIN f : f[c] # p => c \in DOMAIN m.inFlight /\ m.inFlight[c] = f[c]
          BY <2>11
        <3>4. \A c \in DOMAIN m.inFlight : m.inFlight[c] # p => c \in DOMAIN f /\ f[c] = m.inFlight[c]
          BY <2>11
        <3>5. QED
          BY <3>1, <3>2, <3>3, <3>4 DEF Follows
      <2>13. Moved(m, p, y, f) = k
        <3>1. /\ m.nPeersWithValidatedDownloads \in Int /\ m.nPreferredDownload \in Int /\ m.nSyncStarted \in Int
          BY <2>3, AccountsOf
        <3>2. m.nPeersWithValidatedDownloads + Bit(y.vBlocksInFlight # {}) - Bit(x.vBlocksInFlight # {}) = v
          BY <3>1, <2>6, <2>8 DEF Bit
        <3>3. m.nPreferredDownload + Bit(y.fPreferredDownload) - Bit(x.fPreferredDownload) = m.nPreferredDownload
          BY <3>1, <2>8 DEF Bit
        <3>4. m.nSyncStarted + Bit(y.fSyncStarted) - Bit(x.fSyncStarted) = m.nSyncStarted
          BY <3>1, <2>8 DEF Bit
        <3>5. QED
          BY <3>2, <3>3, <3>4 DEF Moved
      <2>14. MarkBlockAsInFlight(n, p, b) = k
        <3> DEFINE m1 == [m EXCEPT !.nodes[p].vBlocksInFlight = @ \cup {b}, !.nodes[p].nBlocksInFlight = @ + 1]
        <3>1. m1 = [m EXCEPT !.nodes[p] = y]
          BY <2>3 DEF Net, Node, AskedNode, y
        <3>2. m1 = Changed(m, p, y)
          BY <2>3, <3>1, ChangedIs
        <3>3. /\ m1.inFlight = m.inFlight
              /\ m1.nPeersWithValidatedDownloads = m.nPeersWithValidatedDownloads
          BY <3>2 DEF Changed, Altered, Accounts
        <3>4. MarkBlockAsInFlight(n, p, b) = [[m1 EXCEPT !.inFlight = f] EXCEPT !.nPeersWithValidatedDownloads = v]
          BY <2>2, <3>3 DEF f
        <3> HIDE DEF m1, v
        <3>5. QED
          BY <3>2, <3>4 DEF Changed, Altered, Accounts
      <2>15. Sound(k, s) /\ Elsewhere(m, k, p) /\ k.nodes[p] = y
        BY <2>1, <2>7, <2>9, <2>10, <2>12, <2>13, MovedSound
      <2> HIDE DEF k
      <2>16. Longer(n, k, p, 1)
        <3>1. \A q \in Connected(n) \ {p} : k.nodes[q].nBlocksInFlight <= n.nodes[q].nBlocksInFlight
          BY <2>1, <2>15 DEF Elsewhere, Shorter
        <3>2. x.nBlocksInFlight <= n.nodes[p].nBlocksInFlight
          BY <2>1 DEF Shorter
        <3>3. k.nodes[p].nBlocksInFlight <= n.nodes[p].nBlocksInFlight + 1
          BY <3>2, <2>5, <2>8, <2>15, <1>1
        <3>4. QED
          BY <3>1, <3>3 DEF Longer
      <2>17. QED
        BY <2>1, <2>14, <2>15, <2>16 DEF Elsewhere
    <1>4. QED
      BY <1>2, <1>3

(* Taking the chosen element away makes a forest of the subsets of S.      *)
Less(S) == [t \in SUBSET S |-> t \ {Pick(t)}]
Size(S) == [t \in SUBSET S |-> Cardinality(t)]

(* The forest has the empty set as its root.                               *)
LEMMA SubsetForest ==
    ASSUME NEW S, IsFiniteSet(S)
    PROVE  Forest(SUBSET S, {{}}, Less(S), Size(S))
    <1>1. ASSUME NEW t \in SUBSET S PROVE IsFiniteSet(t) /\ Cardinality(t) \in Nat
      BY FS_Subset, FS_CardinalityType
    <1>2. ASSUME NEW t \in (SUBSET S) \ {{}}
          PROVE  t \ {Pick(t)} \in SUBSET S /\ Cardinality(t) = Cardinality(t \ {Pick(t)}) + 1
      <2>1. Pick(t) \in t
        BY Zenon DEF Pick
      <2>2. t \ {Pick(t)} \in SUBSET S
        OBVIOUS
      <2>3. IsFiniteSet(t) /\ Cardinality(t) \in Nat /\ Cardinality(t \ {Pick(t)}) \in Nat
        BY <1>1, <2>2
      <2>4. Cardinality(t \ {Pick(t)}) = Cardinality(t) - 1
        BY <2>1, <2>3, FS_RemoveElement
      <2>5. QED
        BY <2>2, <2>3, <2>4
    <1>3. QED
      BY <1>1, <1>2 DEF Forest, Less, Size

(* Request makes the queue of p at most that much longer.                  *)
LEMMA RequestSound ==
    ASSUME NEW s, NEW n, Sound(n, s), NEW p \in Connected(n), NEW S \in SUBSET Block
    PROVE  LET m == Request(n, p, S)
           IN  /\ Sound(m, s) /\ Connected(m) = Connected(n) /\ Longer(n, m, p, Cardinality(S))
               /\ S = {} => m = n
    <1> DEFINE V == {m \in Net : Sound(m, s) /\ Connected(m) = Connected(n)}
               B == {{}}
               base == [t \in B |-> n]
               st == [t \in (SUBSET S) \ B |-> [m \in V |-> MarkBlockAsInFlight(m, p, Pick(t))]]
    <1>1. IsFiniteSet(S) /\ n \in Net
      BY TreeAssumption, FS_Subset DEF Sound
    <1>2. Forest(SUBSET S, B, Less(S), Size(S))
      BY <1>1, SubsetForest
    <1>3. ASSUME NEW t \in (SUBSET S) \ B PROVE Pick(t) \in Block
      BY Zenon DEF Pick
    <1>4. ASSUME NEW m \in V, NEW b \in Block
          PROVE  MarkBlockAsInFlight(m, p, b) \in V /\ Longer(m, MarkBlockAsInFlight(m, p, b), p, 1)
      BY InFlightSound DEF Sound
    <1>5. TreeRecursive(SUBSET S, B, V, base, st)
      <2>1. n \in V
        BY <1>1
      <2>2. base \in [B -> V]
        BY <2>1
      <2>3. st \in [(SUBSET S) \ B -> [V -> V]]
        BY <1>3, <1>4
      <2> HIDE DEF V, B, base, st
      <2>4. QED
        BY <2>2, <2>3 DEF TreeRecursive
    <1>6. PICK g : TreeSolution(g, SUBSET S, B, Less(S), V, base, st)
      <2> HIDE DEF V, B, base, st
      <2>1. QED
        BY <1>2, <1>5, TreeRecursion
    <1>7. g \in [SUBSET S -> V]
      BY <1>6 DEF TreeSolution
    <1>8. ASSUME NEW t \in SUBSET S
          PROVE  g[t] = IF t = {} THEN n ELSE MarkBlockAsInFlight(g[t \ {Pick(t)}], p, Pick(t))
      <2>1. g[t] = TreeStep(g, t, B, Less(S), base, st)
        BY <1>6 DEF TreeSolution
      <2>2. CASE t = {}
        BY <2>1, <2>2 DEF TreeStep
      <2>3. CASE t # {}
        <3>1. t \ {Pick(t)} \in SUBSET S /\ Less(S)[t] = t \ {Pick(t)}
          BY DEF Less
        <3>2. g[t \ {Pick(t)}] \in V
          BY <3>1, <1>7
        <3>3. g[t] = st[t][g[t \ {Pick(t)}]]
          BY <2>1, <2>3, <3>1 DEF TreeStep
        <3> HIDE DEF V
        <3>4. QED
          BY <2>3, <3>2, <3>3
      <2>4. QED
        BY <2>2, <2>3
    <1> DEFINE T == {t \in SUBSET S : Longer(n, g[t], p, Cardinality(t))}
    <1>9. ASSUME NEW m \in V, NEW q \in Connected(n) PROVE m.nodes[q].nBlocksInFlight \in Nat
      <2>1. m.nodes[q] \in Node
        BY SoundNode
      <2>2. QED
        BY <2>1 DEF Node
    <1>10. n \in V
      BY <1>1
    <1> HIDE DEF V
    <1>11. {} \in T
      <2>1. g[{}] = n /\ Cardinality({}) = 0
        BY <1>8, FS_EmptySet
      <2>2. Longer(n, n, p, 0)
        BY <1>9, <1>10 DEF Longer
      <2>3. QED
        BY <2>1, <2>2
    <1>12. ASSUME NEW t \in (SUBSET S) \ B, Less(S)[t] \in T PROVE t \in T
      <2> DEFINE r == t \ {Pick(t)}
      <2>1. r \in SUBSET S /\ Less(S)[t] = r
        BY DEF Less
      <2>2. g[r] \in V /\ g[t] \in V
        BY <2>1, <1>7
      <2>3. Size(S)[t] = Size(S)[Less(S)[t]] + 1 /\ Size(S)[Less(S)[t]] \in Nat
        BY <1>2 DEF Forest
      <2>4. Cardinality(t) = Cardinality(r) + 1 /\ Cardinality(r) \in Nat
        BY <2>1, <2>3 DEF Size
      <2>5. Longer(n, g[r], p, Cardinality(r))
        BY <1>12, <2>1
      <2>6. Longer(g[r], g[t], p, 1) /\ Connected(g[r]) = Connected(n)
        <3>1. g[t] = MarkBlockAsInFlight(g[r], p, Pick(t))
          BY <1>8
        <3> HIDE DEF r
        <3>2. QED
          BY <3>1, <2>2, <1>3, <1>4 DEF V
      <2> HIDE DEF r
      <2>7. ASSUME NEW q \in Connected(n) \ {p}
            PROVE  g[t].nodes[q].nBlocksInFlight <= n.nodes[q].nBlocksInFlight
        <3>1. /\ g[t].nodes[q].nBlocksInFlight <= g[r].nodes[q].nBlocksInFlight
              /\ g[r].nodes[q].nBlocksInFlight <= n.nodes[q].nBlocksInFlight
          BY <2>5, <2>6 DEF Longer
        <3>2. /\ g[t].nodes[q].nBlocksInFlight \in Nat /\ g[r].nodes[q].nBlocksInFlight \in Nat
              /\ n.nodes[q].nBlocksInFlight \in Nat
          BY <1>9, <1>10, <2>2
        <3>3. QED
          BY <3>1, <3>2
      <2>8. g[t].nodes[p].nBlocksInFlight <= n.nodes[p].nBlocksInFlight + Cardinality(t)
        <3>1. /\ g[t].nodes[p].nBlocksInFlight <= g[r].nodes[p].nBlocksInFlight + 1
              /\ g[r].nodes[p].nBlocksInFlight <= n.nodes[p].nBlocksInFlight + Cardinality(r)
          BY <2>5, <2>6 DEF Longer
        <3>2. /\ g[t].nodes[p].nBlocksInFlight \in Nat /\ g[r].nodes[p].nBlocksInFlight \in Nat
              /\ n.nodes[p].nBlocksInFlight \in Nat
          BY <1>9, <1>10, <2>2
        <3>3. QED
          BY <3>1, <3>2, <2>4
      <2>9. QED
        BY <2>7, <2>8 DEF Longer
    <1>13. SUBSET S \subseteq T
      <2>1. B \subseteq T
        BY <1>11
      <2> HIDE DEF T, B
      <2>2. QED
        BY <1>2, <1>12, <2>1, TreeInduction
    <1>14. Request(n, p, S) = g[S]
      <2> DEFINE iter == CHOOSE h : h = [t \in SUBSET S |->
                   IF t = {} THEN n
                   ELSE MarkBlockAsInFlight(h[t \ {CHOOSE x \in t : TRUE}], p, CHOOSE x \in t : TRUE)]
      <2>1. g = [t \in SUBSET S |->
                   IF t = {} THEN n
                   ELSE MarkBlockAsInFlight(g[t \ {CHOOSE x \in t : TRUE}], p, CHOOSE x \in t : TRUE)]
        BY <1>7, <1>8, Zenon DEF Pick
      <2>2. iter = [t \in SUBSET S |->
                   IF t = {} THEN n
                   ELSE MarkBlockAsInFlight(iter[t \ {CHOOSE x \in t : TRUE}], p, CHOOSE x \in t : TRUE)]
        BY <2>1, Zenon
      <2>3. Request(n, p, S) = iter[S]
        BY DEF Request, FoldSet, MapThenFoldSet
      <2> HIDE DEF iter
      <2>4. iter[{}] = n /\ \A t \in (SUBSET S) \ B : iter[t] = MarkBlockAsInFlight(iter[Less(S)[t]], p, Pick(t))
        <3>1. iter[{}] = n
          BY <2>2
        <3>2. ASSUME NEW t \in (SUBSET S) \ B PROVE iter[t] = MarkBlockAsInFlight(iter[t \ {Pick(t)}], p, Pick(t))
          BY <2>2, Zenon DEF Pick
        <3>3. QED
          BY <3>1, <3>2 DEF Less
      <2>5. \A t \in B : iter[t] = base[t]
        BY <2>4
      <2>6. \A t \in (SUBSET S) \ B : iter[Less(S)[t]] \in V => iter[t] = st[t][iter[Less(S)[t]]]
        BY <2>4
      <2> HIDE DEF B, base, st
      <2>7. \A t \in SUBSET S : iter[t] = g[t]
        BY <1>2, <1>5, <1>6, <2>5, <2>6, TreeUnique
      <2>8. QED
        BY <2>3, <2>7
    <1>15. g[S] \in V /\ Longer(n, g[S], p, Cardinality(S)) /\ (S = {} => g[S] = n)
      BY <1>7, <1>8, <1>13
    <1>16. QED
      BY <1>14, <1>15 DEF V

(* With room for all of it the limits hold.                                *)
LEMMA RequestGood ==
    ASSUME NEW s, NEW n, Good(n, s), NEW p \in Connected(n), NEW S \in SUBSET Block,
           n.nodes[p].nBlocksInFlight + Cardinality(S) <= MAX_BLOCKS_IN_TRANSIT_PER_PEER
    PROVE  LET m == Request(n, p, S)
           IN  Good(m, s) /\ Connected(m) = Connected(n) /\ (S = {} => m = n)
    <1> DEFINE m == Request(n, p, S)
    <1>1. Sound(n, s) /\ Limits(n)
      BY DEF Good
    <1>2. /\ Sound(m, s) /\ Connected(m) = Connected(n) /\ Longer(n, m, p, Cardinality(S))
          /\ S = {} => m = n
      BY <1>1, RequestSound
    <1> HIDE DEF m
    <1>3. ASSUME NEW q \in Connected(n)
          PROVE  m.nodes[q].nBlocksInFlight \in Nat /\ n.nodes[q].nBlocksInFlight \in Nat
      <2>1. m.nodes[q] \in Node /\ n.nodes[q] \in Node
        BY <1>1, <1>2, SoundNode
      <2>2. QED
        BY <2>1 DEF Node
    <1>4. Cardinality(S) \in Nat /\ MAX_BLOCKS_IN_TRANSIT_PER_PEER \in Nat
      BY TreeAssumption, LimitAssumption, FS_Subset, FS_CardinalityType
    <1>5. ASSUME NEW q \in Connected(n) PROVE m.nodes[q].nBlocksInFlight <= MAX_BLOCKS_IN_TRANSIT_PER_PEER
      <2>1. CASE q = p
        BY <2>1, <1>2, <1>3, <1>4 DEF Longer
      <2>2. CASE q # p
        BY <2>2, <1>1, <1>2, <1>3, <1>4 DEF Longer, Limits
      <2>3. QED
        BY <2>1, <2>2
    <1>6. QED
      BY <1>2, <1>5 DEF Good, Limits, m

(* The lowest blocks of a chain that p has room for.                       *)
LEMMA RoomFor ==
    ASSUME NEW s, NEW n, Good(n, s), NEW p \in Connected(n), NEW b \in Block, NEW S \in SUBSET Chain(b)
    PROVE  LET F == FirstOf(MAX_BLOCKS_IN_TRANSIT_PER_PEER - n.nodes[p].nBlocksInFlight, S)
           IN  /\ F \in SUBSET Block
               /\ n.nodes[p].nBlocksInFlight + Cardinality(F) <= MAX_BLOCKS_IN_TRANSIT_PER_PEER
    <1> DEFINE k == MAX_BLOCKS_IN_TRANSIT_PER_PEER - n.nodes[p].nBlocksInFlight
               F == FirstOf(k, S)
    <1>1. n.nodes[p] \in Node /\ n.nodes[p].nBlocksInFlight <= MAX_BLOCKS_IN_TRANSIT_PER_PEER
      BY SoundNode DEF Good, Limits
    <1>2. n.nodes[p].nBlocksInFlight \in Nat /\ MAX_BLOCKS_IN_TRANSIT_PER_PEER \in Nat
      BY <1>1, LimitAssumption DEF Node
    <1>3. k \in Nat
      BY <1>1, <1>2
    <1>4. F \subseteq S /\ IsFiniteSet(F) /\ Cardinality(F) <= k
      <2> HIDE DEF k
      <2>1. QED
        BY <1>3, FirstOfSize
    <1>5. F \in SUBSET Block /\ Cardinality(F) \in Nat
      BY <1>4, ChainIs, FS_CardinalityType
    <1> HIDE DEF F
    <1>6. n.nodes[p].nBlocksInFlight + Cardinality(F) <= MAX_BLOCKS_IN_TRANSIT_PER_PEER
      BY <1>2, <1>4, <1>5
    <1>7. QED
      BY <1>5, <1>6 DEF F

(* There is always room for nothing.                                       *)
LEMMA NothingFits ==
    ASSUME NEW s, NEW n, Good(n, s), NEW p \in Connected(n)
    PROVE  n.nodes[p].nBlocksInFlight + Cardinality({}) <= MAX_BLOCKS_IN_TRANSIT_PER_PEER
    <1>1. n.nodes[p] \in Node /\ n.nodes[p].nBlocksInFlight <= MAX_BLOCKS_IN_TRANSIT_PER_PEER
      BY SoundNode DEF Good, Limits
    <1>2. n.nodes[p].nBlocksInFlight \in Nat /\ Cardinality({}) = 0
      BY <1>1, FS_EmptySet DEF Node
    <1>3. QED
      BY <1>1, <1>2

(* ProcessHeadersMessage fetches no more than there is room for.           *)
LEMMA DirectFetchFits ==
    ASSUME NEW s, NEW n, Good(n, s), NEW p \in Connected(n), NEW last \in Block
    PROVE  LET F == DirectFetch(n, p, last)
           IN  /\ F \in SUBSET Block
               /\ n.nodes[p].nBlocksInFlight + Cardinality(F) <= MAX_BLOCKS_IN_TRANSIT_PER_PEER
    <1> DEFINE path == Chain(last) \ Chain(tip)
               vToFetch == {b \in path \ stored : b \notin DOMAIN n.inFlight}
               G == FirstOf(MAX_BLOCKS_IN_TRANSIT_PER_PEER - n.nodes[p].nBlocksInFlight, vToFetch)
    <1>1. DirectFetch(n, p, last) = G \/ DirectFetch(n, p, last) = {}
      BY DEF DirectFetch
    <1>2. vToFetch \in SUBSET Chain(last)
      OBVIOUS
    <1> HIDE DEF vToFetch
    <1>3. /\ G \in SUBSET Block
          /\ n.nodes[p].nBlocksInFlight + Cardinality(G) <= MAX_BLOCKS_IN_TRANSIT_PER_PEER
      BY <1>2, RoomFor
    <1>4. n.nodes[p].nBlocksInFlight + Cardinality({}) <= MAX_BLOCKS_IN_TRANSIT_PER_PEER
      BY NothingFits
    <1> HIDE DEF G
    <1>5. QED
      BY <1>1, <1>3, <1>4

(* A change that leaves the queue and the counted marks alone.             *)
LEMMA TouchGood ==
    ASSUME NEW s, NEW n, Good(n, s), NEW p \in Connected(n), NEW y \in Node, Settled(y, s),
           y.vBlocksInFlight = n.nodes[p].vBlocksInFlight,
           y.fPreferredDownload = n.nodes[p].fPreferredDownload, y.fSyncStarted = n.nodes[p].fSyncStarted
    PROVE  LET m == Changed(n, p, y)
           IN  Good(m, s) /\ Elsewhere(n, m, p) /\ m.nodes[p] = y
    <1> DEFINE x == n.nodes[p]
               v == n.nPeersWithValidatedDownloads
               w == n.nPreferredDownload
               z == n.nSyncStarted
    <1>1. Sound(n, s) /\ Limits(n)
      BY DEF Good
    <1>2. /\ n \in Net /\ p \in Peer /\ x \in Node /\ n.inFlight \in Flying
          /\ Settled(x, s) /\ Follows(n, p, x, n.inFlight)
      BY <1>1, SoundNode
    <1>3. Follows(n, p, y, n.inFlight)
      BY <1>2 DEF Follows
    <1>4. y.nBlocksInFlight <= MAX_BLOCKS_IN_TRANSIT_PER_PEER
      BY <1>1, <1>2 DEF Limits, Settled
    <1>5. Moved(n, p, y, n.inFlight) = Changed(n, p, y)
      <2>1. v \in Int /\ w \in Int /\ z \in Int
        BY <1>2, AccountsOf
      <2>2. v + Bit(y.vBlocksInFlight # {}) - Bit(x.vBlocksInFlight # {}) = v
        BY <2>1 DEF Bit
      <2>3. w + Bit(y.fPreferredDownload) - Bit(x.fPreferredDownload) = w
        BY <2>1 DEF Bit
      <2>4. z + Bit(y.fSyncStarted) - Bit(x.fSyncStarted) = z
        BY <2>1 DEF Bit
      <2>5. QED
        BY <2>2, <2>3, <2>4 DEF Moved, Changed
    <1>6. QED
      BY <1>2, <1>3, <1>4, <1>5, MovedGood

-----------------------------------------------------------------------------
(* FindNextBlocksToDownload and the getdata that follows it.               *)
LEMMA MinOfTwo ==
    ASSUME NEW a \in Int, NEW b \in Int
    PROVE  Min({a, b}) \in {a, b} /\ Min({a, b}) <= a /\ Min({a, b}) <= b
    <1>1. \E x \in {a, b} : \A y \in {a, b} : x <= y
      BY DEF Nat
    <1>2. Min({a, b}) \in {a, b} /\ \A y \in {a, b} : Min({a, b}) <= y
      BY <1>1, Zenon DEF Min
    <1>3. QED
      BY <1>2

(* The chain is all there up to the tip.                                   *)
TreeSound ==
    /\ {headers, stored, failed} \subseteq SUBSET Block
    /\ {bestHeader, tip} \subseteq Block
    /\ ibd \in BOOLEAN
    /\ Chain(tip) \subseteq stored

(* The first guess of the common block is on the active chain.             *)
LEMMA GuessIs ==
    ASSUME TreeSound, NEW known \in Block
    PROVE  Path[tip][Min({Height(known), Height(tip)}) + 1] \in Chain(tip)
    <1>1. Path[tip] \in Seq(Block) /\ tip \in Block
      BY PathIs DEF TreeSound
    <1>2. Height(known) \in Nat /\ Height(tip) \in Nat
      BY <1>1, ChainIs
    <1> DEFINE i == Min({Height(known), Height(tip)})
    <1>3. i \in {Height(known), Height(tip)} /\ i <= Height(tip)
      <2>1. Height(known) \in Int /\ Height(tip) \in Int
        BY <1>2
      <2>2. QED
        BY <2>1, MinOfTwo, Zenon
    <1>4. Len(Path[tip]) = Height(tip) + 1
      BY <1>1, <1>2 DEF Height
    <1> HIDE DEF i
    <1>5. i + 1 \in DOMAIN Path[tip]
      BY <1>1, <1>2, <1>3, <1>4
    <1>6. QED
      BY <1>5 DEF Chain, Range, i

(* What is fetched fits, the new common block has its chain stored, and a  *)
(* staller is another peer that owes a block.                              *)
LEMMA NextBlocks ==
    ASSUME TreeSound, NEW n, Good(n, stored), NEW p \in Connected(n), n.nodes[p].pindexBestKnownBlock \in Block
    PROVE  LET next == FindNextBlocksToDownload(n, p)
           IN  /\ next.fetch \in SUBSET Block
               /\ n.nodes[p].nBlocksInFlight + Cardinality(next.fetch) <= MAX_BLOCKS_IN_TRANSIT_PER_PEER
               /\ next.common \in Block /\ Chain(next.common) \subseteq stored
               /\ next.staller # None => /\ next.fetch = {} /\ next.staller \in Connected(n) \ {p}
                                         /\ n.nodes[next.staller].vBlocksInFlight # {}
    <1> DEFINE known == n.nodes[p].pindexBestKnownBlock
               common == n.nodes[p].pindexLastCommonBlock
               guess == IF common # None THEN common ELSE Path[tip][Min({Height(known), Height(tip)}) + 1]
               last == Highest(Chain(guess) \cap Chain(known))
               nWindowEnd == Height(last) + BLOCK_DOWNLOAD_WINDOW
               walk == {b \in Chain(known) \ Chain(last) :
                           Height(b) <= nWindowEnd + 1 /\ Chain(b) \cap failed = {}}
               have == walk \cap (stored \cup Chain(tip))
               wanted == {b \in walk \ have : b \notin DOMAIN n.inFlight}
               near == {b \in wanted : Height(b) <= nWindowEnd}
               fetch == FirstOf(MAX_BLOCKS_IN_TRANSIT_PER_PEER - n.nodes[p].nBlocksInFlight, near)
               waiting == (walk \ have) \cap DOMAIN n.inFlight
               blocked == fetch = {} /\ wanted # {} /\ waiting # {}
               next == FindNextBlocksToDownload(n, p)
    <1>1. /\ next.fetch = fetch /\ next.common = NewCommon(have, last)
          /\ next.staller = IF blocked /\ n.inFlight[Lowest(waiting)] # p THEN n.inFlight[Lowest(waiting)] ELSE None
      BY DEF FindNextBlocksToDownload
    <1>2. Sound(n, stored) /\ n \in Net /\ n.nodes[p] \in Node
      BY SoundNode DEF Good
    <1>3. guess \in Block /\ Chain(guess) \subseteq stored
      <2>1. CASE common # None
        BY <2>1, <1>2 DEF Node, Sound, Commons
      <2>2. CASE common = None
        <3>1. guess \in Chain(tip)
          BY <2>2, GuessIs
        <3>2. tip \in Block /\ Chain(tip) \subseteq stored
          BY DEF TreeSound
        <3> HIDE DEF guess
        <3>3. QED
          BY <3>1, <3>2, ChainIs, ChainTransitive
      <2>3. QED
        BY <2>1, <2>2
    <1> HIDE DEF guess, next
    <1>4. last \in Chain(guess) /\ last \in Block
      <2> DEFINE both == Chain(guess) \cap Chain(known)
      <2>1. both \in SUBSET Block /\ Genesis \in both
        BY <1>3, ChainIs, ChainEnds
      <2> HIDE DEF both
      <2>2. Highest(both) \in both
        BY <2>1, HighestIs
      <2>3. QED
        BY <2>1, <2>2 DEF both
    <1>5. Chain(last) \subseteq stored
      BY <1>3, <1>4, ChainTransitive
    <1> HIDE DEF last
    <1>6. walk \in SUBSET Block /\ near \in SUBSET Chain(known)
      BY ChainIs
    <1>7. NewCommon(have, last) \in Block /\ Chain(NewCommon(have, last)) \subseteq stored
      <2> DEFINE up == (have \cap Linked(stored)) \cup {last}
      <2>1. up \in SUBSET Block /\ up # {}
        BY <1>4, <1>6
      <2>2. \A b \in up : Chain(b) \subseteq stored
        BY <1>5 DEF Linked
      <2>3. NewCommon(have, last) = Highest(up)
        BY DEF NewCommon
      <2> HIDE DEF up
      <2>4. QED
        BY <2>1, <2>2, <2>3, HighestIs
    <1>8. /\ fetch \in SUBSET Block
          /\ n.nodes[p].nBlocksInFlight + Cardinality(fetch) <= MAX_BLOCKS_IN_TRANSIT_PER_PEER
      <2> HIDE DEF near, known
      <2>1. QED
        BY <1>6, RoomFor DEF known
    <1>9. waiting \in SUBSET Block /\ waiting \subseteq DOMAIN n.inFlight
      BY <1>6
    <1> HIDE DEF fetch, waiting, wanted, have
    <1>10. ASSUME next.staller # None
           PROVE  /\ next.fetch = {} /\ next.staller \in Connected(n) \ {p}
                  /\ n.nodes[next.staller].vBlocksInFlight # {}
      <2>1. blocked /\ n.inFlight[Lowest(waiting)] # p /\ next.staller = n.inFlight[Lowest(waiting)]
        BY <1>1, <1>10
      <2>2. Lowest(waiting) \in waiting
        BY <1>9, <2>1, LowestIs
      <2>3. Lowest(waiting) \in DOMAIN n.inFlight
        BY <2>2, <1>9
      <2>4. QED
        BY <1>1, <1>2, <2>1, <2>3 DEF Sound, Flights
    <1>11. QED
      BY <1>1, <1>7, <1>8, <1>10 DEF next

(* So the getdata keeps the accounts good.                                 *)
LEMMA GetDataGood ==
    ASSUME TreeSound, NEW n, Good(n, stored), NEW p \in Connected(n)
    PROVE  Good(GetData(n, p), stored) /\ Connected(GetData(n, p)) = Connected(n)
    <1> DEFINE known == n.nodes[p].pindexBestKnownBlock
               next == FindNextBlocksToDownload(n, p)
               k == Request(n, p, next.fetch)
               x == k.nodes[p]
               y == [x EXCEPT !.pindexLastCommonBlock = next.common]
               m == [k EXCEPT !.nodes[p].pindexLastCommonBlock = next.common]
               o == [m EXCEPT !.nodes[next.staller].stalling = TRUE]
    <1>1. GetData(n, p) = n \/ (known # None /\ GetData(n, p) = m)
          \/ (known # None /\ GetData(n, p) = o /\ next.staller # None)
      BY DEF GetData
    <1>2. SUFFICES ASSUME known # None
                   PROVE  /\ Good(m, stored) /\ Connected(m) = Connected(n)
                          /\ next.staller # None => Good(o, stored) /\ Connected(o) = Connected(n)
      <2> HIDE DEF m, o
      <2>1. QED
        BY <1>1, <1>2
    <1>3. Sound(n, stored) /\ n.nodes[p] \in Node
      BY SoundNode DEF Good
    <1>4. known \in Block
      BY <1>2, <1>3 DEF Node
    <1>5. /\ next.fetch \in SUBSET Block
          /\ n.nodes[p].nBlocksInFlight + Cardinality(next.fetch) <= MAX_BLOCKS_IN_TRANSIT_PER_PEER
          /\ next.common \in Block /\ Chain(next.common) \subseteq stored
          /\ next.staller # None => /\ next.fetch = {} /\ next.staller \in Connected(n) \ {p}
                                    /\ n.nodes[next.staller].vBlocksInFlight # {}
      BY <1>4, NextBlocks
    <1> HIDE DEF next
    <1>6. Good(k, stored) /\ Connected(k) = Connected(n) /\ (next.fetch = {} => k = n)
      BY <1>5, RequestGood
    <1> HIDE DEF k
    <1>7. /\ k \in Net /\ p \in Peer /\ x \in Node /\ Settled(x, stored)
      BY <1>6, SoundNode DEF Good
    <1>8. y \in Node
      BY <1>5, <1>7 DEF Node
    <1>9. /\ y.vBlocksInFlight = x.vBlocksInFlight /\ y.nBlocksInFlight = x.nBlocksInFlight
          /\ y.stalling = x.stalling /\ y.pindexLastCommonBlock = next.common
          /\ y.fPreferredDownload = x.fPreferredDownload /\ y.ready = x.ready
          /\ y.fSyncStarted = x.fSyncStarted
      BY <1>7 DEF Node
    <1>10. m = [k EXCEPT !.nodes[p] = y]
      BY <1>7 DEF Net
    <1> HIDE DEF y
    <1>11. Settled(y, stored)
      BY <1>5, <1>7, <1>9 DEF Settled
    <1>12. m = Changed(k, p, y)
      BY <1>7, <1>10, ChangedIs
    <1> HIDE DEF m
    <1>13. Good(m, stored) /\ Elsewhere(k, m, p)
      BY <1>6, <1>8, <1>9, <1>11, <1>12, TouchGood
    <1>14. Connected(m) = Connected(n)
      BY <1>6, <1>13 DEF Elsewhere
    <1>15. ASSUME next.staller # None PROVE Good(o, stored) /\ Connected(o) = Connected(n)
      <2> DEFINE q == next.staller
                 u == m.nodes[q]
                 v == [u EXCEPT !.stalling = TRUE]
      <2>1. q \in Connected(n) \ {p} /\ q \in Connected(m) /\ u = n.nodes[q] /\ u.vBlocksInFlight # {}
        BY <1>5, <1>6, <1>13, <1>14, <1>15 DEF Elsewhere
      <2>2. /\ m \in Net /\ q \in Peer /\ u \in Node /\ Settled(u, stored)
        BY <1>13, <2>1, SoundNode DEF Good
      <2>3. v \in Node
        BY <2>2 DEF Node
      <2>4. /\ v.vBlocksInFlight = u.vBlocksInFlight /\ v.nBlocksInFlight = u.nBlocksInFlight
            /\ v.pindexLastCommonBlock = u.pindexLastCommonBlock
            /\ v.fPreferredDownload = u.fPreferredDownload /\ v.ready = u.ready
            /\ v.fSyncStarted = u.fSyncStarted
        BY <2>2 DEF Node
      <2>5. o = [m EXCEPT !.nodes[q] = v]
        BY <2>2 DEF Net
      <2> HIDE DEF v, q
      <2>6. Settled(v, stored)
        BY <2>1, <2>2, <2>4 DEF Settled
      <2>7. o = Changed(m, q, v)
        BY <2>2, <2>5, ChangedIs
      <2> HIDE DEF o
      <2>8. Good(o, stored) /\ Elsewhere(m, o, q)
        BY <1>13, <2>1, <2>3, <2>4, <2>6, <2>7, TouchGood
      <2>9. QED
        BY <1>14, <2>8 DEF Elsewhere
    <1>16. QED
      BY <1>13, <1>14, <1>15

(* A peer is marked for disconnection, or not.                             *)
LEMMA DisconnectGood ==
    ASSUME NEW s, NEW n, Good(n, s), NEW p \in Connected(n), NEW d \in BOOLEAN
    PROVE  LET m == [n EXCEPT !.nodes[p].fDisconnect = d] IN Good(m, s) /\ Connected(m) = Connected(n)
    <1> DEFINE x == n.nodes[p]
               y == [x EXCEPT !.fDisconnect = d]
               m == [n EXCEPT !.nodes[p].fDisconnect = d]
    <1>1. n \in Net /\ p \in Peer /\ x \in Node
      BY SoundNode DEF Good
    <1>2. y \in Node
      BY <1>1 DEF Node
    <1>3. SameNode(x, y)
      BY <1>1 DEF Node, SameNode
    <1>4. m = [n EXCEPT !.nodes[p] = y]
      BY <1>1 DEF Net
    <1> HIDE DEF y
    <1>5. m = Changed(n, p, y)
      BY <1>1, <1>4, ChangedIs
    <1> HIDE DEF m
    <1>6. Good(m, s) /\ SameBook(n, m)
      BY <1>2, <1>3, <1>5, NodeChangeGood
    <1>7. QED
      BY <1>6 DEF SameBook, m

(* So does all of SendMessages.                                            *)
LEMMA SentGood ==
    ASSUME TreeSound, Good(net, stored), NEW p \in Connected(net), NEW late
    PROVE  Good(Sent(p, late), stored) /\ Connected(Sent(p, late)) = Connected(net)
    <1> DEFINE n0 == StartSync(net, p)
               n1 == ProcessBlockAvailability(n0, p, headers)
               n2 == AfterHeadersCheck(n1, p, late)
               d == TRUE
               o == [n1 EXCEPT !.nodes[p].fDisconnect = d]
    <1>1. Good(n0, stored) /\ Connected(n0) = Connected(net)
      BY StartSyncGood DEF TreeSound
    <1>2. Good(n1, stored) /\ Connected(n1) = Connected(net)
      <2>1. headers \in SUBSET Block
        BY DEF TreeSound
      <2> HIDE DEF n0
      <2>2. Good(n1, stored) /\ SameBook(n0, n1)
        BY <1>1, <2>1, ProcessAvailabilityGood
      <2>3. QED
        BY <1>1, <2>2 DEF SameBook
    <1>3. Sent(p, late) = o \/ Sent(p, late) = GetData(n2, p)
      BY DEF Sent
    <1> HIDE DEF n1
    <1>4. Good(n2, stored) /\ Connected(n2) = Connected(net)
      BY <1>2, HeadersCheckGood
    <1> HIDE DEF n2
    <1>5. Good(GetData(n2, p), stored) /\ Connected(GetData(n2, p)) = Connected(net)
      BY <1>4, GetDataGood
    <1>6. Good(o, stored) /\ Connected(o) = Connected(net)
      <2>1. d \in BOOLEAN
        OBVIOUS
      <2> HIDE DEF d
      <2>2. QED
        BY <1>2, <2>1, DisconnectGood
    <1> HIDE DEF o
    <1>7. QED
      BY <1>3, <1>5, <1>6

-----------------------------------------------------------------------------
(* The inductive invariant: the accounts, the tree, and the peer whose     *)
(* block is being handled is still there.                                  *)
HandlerSound ==
    /\ handling \in Message \cup {None}
    /\ handling # None => handling.from \in Connected(net)

IInv ==
    /\ Good(net, stored) /\ TreeSound /\ HandlerSound
    /\ connections \in [Peer -> 0 .. MaxConnections]

(* It holds at the start.                                                  *)
LEMMA InitIInv == Init => IInv
    <1> SUFFICES ASSUME Init PROVE IInv
      OBVIOUS
    <1>1. Connected(net) = {}
      BY DEF Init, Connected
    <1>2. net \in Net
      <2>1. net.inFlight \in [{} -> Peer]
        BY DEF Init
      <2>2. net.inFlight \in Flying
        BY <2>1, FlyingFrom
      <2>3. net = Accounts([p \in Peer |-> None], net.inFlight, 0, 0, 0)
        BY DEF Init, Accounts
      <2>4. [p \in Peer |-> None] \in [Peer -> Node \cup {None}]
        OBVIOUS
      <2>5. QED
        BY <2>2, <2>3, <2>4 DEF Net, Accounts, Flying
    <1>3. DOMAIN net.inFlight = {}
      BY DEF Init
    <1>4. Flights(net) /\ Queues(net) /\ Stalls(net) /\ Commons(net, stored) /\ Greeted(net) /\ Limits(net)
      BY <1>1, <1>3 DEF Flights, Queues, Stalls, Commons, Greeted, Limits
    <1>5. Counts(net)
      <2>1. Busy(net) = {} /\ Preferred(net) = {} /\ Syncing(net) = {}
        BY <1>1 DEF Busy, Preferred, Syncing
      <2>2. QED
        BY <2>1, FS_EmptySet DEF Counts, Init
    <1>6. TreeSound
      BY TreeAssumption, ChainIs DEF Init, TreeSound
    <1>7. HandlerSound /\ connections \in [Peer -> 0 .. MaxConnections]
      BY LimitAssumption DEF Init, HandlerSound
    <1>8. QED
      BY <1>2, <1>4, <1>5, <1>6, <1>7 DEF IInv, Good, Sound

(* More blocks stored.                                                     *)
LEMMA StoredMore ==
    ASSUME NEW n, NEW s, NEW t, Good(n, s), s \subseteq t
    PROVE  Good(n, t)
    BY DEF Good, Sound, Commons

(* An action that leaves the tree alone and no one out.                    *)
LEMMA KeepTree ==
    ASSUME IInv, UNCHANGED tree, UNCHANGED connections, Good(net', stored),
           Connected(net) \subseteq Connected(net'), UNCHANGED handling
    PROVE  IInv'
    <1>1. TreeSound' /\ stored' = stored
      BY DEF IInv, TreeSound, tree
    <1>2. HandlerSound'
      BY DEF IInv, HandlerSound
    <1>3. QED
      BY <1>1, <1>2 DEF IInv

(* A new peer owes nothing and is counted nowhere.                         *)
LEMMA InitializeNodeInv ==
    ASSUME IInv, NEW p \in Peer, NEW kind \in Kinds[p], InitializeNode(p, kind)
    PROVE  IInv'
    <1> DEFINE y == NewNode(kind)
               m == [net EXCEPT !.nodes[p] = y]
               s == stored
    <1>1. Sound(net, s) /\ net \in Net /\ Limits(net)
      BY DEF IInv, Good, Sound
    <1>2. y \in Node
      BY TreeAssumption DEF Node, NewNode
    <1>3. y # None
      BY <1>2, NoneAssumption
    <1>4. /\ y.vBlocksInFlight = {} /\ y.nBlocksInFlight = 0 /\ ~y.stalling
          /\ y.pindexLastCommonBlock = None /\ ~y.fPreferredDownload /\ ~y.fSyncStarted
      BY DEF NewNode
    <1> HIDE DEF y
    <1>5. p \notin Connected(net) /\ net' = m
      BY DEF InitializeNode, y
    <1>6. m = Changed(net, p, y)
      BY <1>1, ChangedIs
    <1> HIDE DEF m
    <1>7. /\ m.inFlight = net.inFlight /\ m.nPeersWithValidatedDownloads = net.nPeersWithValidatedDownloads
          /\ m.nPreferredDownload = net.nPreferredDownload /\ m.nSyncStarted = net.nSyncStarted
          /\ m.nodes = [net.nodes EXCEPT ![p] = y]
      BY <1>6 DEF Changed, Altered, Accounts
    <1>8. m.nodes \in [Peer -> Node \cup {None}] /\ m.nodes[p] = y /\ \A q \in Peer \ {p} : m.nodes[q] = net.nodes[q]
      BY <1>1, <1>2, <1>7 DEF Net
    <1>9. m \in Net
      BY <1>1, <1>6, <1>7, <1>8 DEF Net, Changed, Altered, Accounts
    <1>10. Connected(m) = Connected(net) \cup {p} /\ \A q \in Connected(net) : m.nodes[q] = net.nodes[q]
      BY <1>3, <1>5, <1>8 DEF Connected
    <1>11. Flights(m)
      BY <1>1, <1>7, <1>10 DEF Sound, Flights
    <1>12. Queues(m)
      <2>1. Cardinality({}) = 0
        BY FS_EmptySet
      <2>2. ASSUME NEW q \in Connected(m)
            PROVE  /\ \A b \in m.nodes[q].vBlocksInFlight : b \in DOMAIN m.inFlight /\ m.inFlight[b] = q
                   /\ m.nodes[q].nBlocksInFlight = Cardinality(m.nodes[q].vBlocksInFlight)
        <3>1. CASE q = p
          BY <3>1, <2>1, <1>4, <1>8
        <3>2. CASE q \in Connected(net)
          BY <3>2, <1>1, <1>7, <1>10 DEF Sound, Queues
        <3>3. QED
          BY <3>1, <3>2, <1>10
      <2>3. QED
        BY <2>2 DEF Queues
    <1>13. Counts(m)
      <2>1. Busy(m) = Busy(net)
        BY <1>4, <1>5, <1>8, <1>10 DEF Busy
      <2>2. Preferred(m) = Preferred(net)
        BY <1>4, <1>5, <1>8, <1>10 DEF Preferred
      <2>3. Syncing(m) = Syncing(net)
        BY <1>4, <1>5, <1>8, <1>10 DEF Syncing
      <2>4. QED
        BY <1>1, <1>7, <2>1, <2>2, <2>3 DEF Sound, Counts
    <1>14. Stalls(m) /\ Commons(m, s) /\ Greeted(m)
      BY <1>1, <1>4, <1>8, <1>10 DEF Sound, Stalls, Commons, Greeted
    <1>15. Limits(m)
      <2>1. 0 <= MAX_BLOCKS_IN_TRANSIT_PER_PEER
        BY LimitAssumption
      <2>2. QED
        BY <1>1, <1>4, <1>8, <1>10, <2>1 DEF Limits
    <1>16. Good(m, s)
      BY <1>9, <1>11, <1>12, <1>13, <1>14, <1>15 DEF Good, Sound
    <1>17. TreeSound' /\ stored' = stored /\ HandlerSound'
      BY <1>5, <1>10 DEF IInv, TreeSound, tree, HandlerSound, InitializeNode
    <1>18. connections' \in [Peer -> 0 .. MaxConnections]
      BY LimitAssumption DEF IInv, InitializeNode
    <1>19. QED
      BY <1>5, <1>16, <1>17, <1>18 DEF IInv

(* The handshake counts a preferred peer once.                             *)
LEMMA HandshakeInv ==
    ASSUME IInv, NEW p \in Peer, Handshake(p)
    PROVE  IInv'
    <1> DEFINE x == net.nodes[p]
               c == x.kind # "inbound"
               y == [x EXCEPT !.ready = TRUE, !.fPreferredDownload = c]
               v == net.nPeersWithValidatedDownloads
               w == IF c THEN net.nPreferredDownload + 1 ELSE net.nPreferredDownload
               z == net.nSyncStarted
               m == Altered(net, p, y, net.inFlight, v, w, z)
    <1>1. Good(net, stored) /\ Sound(net, stored) /\ Limits(net) /\ p \in Connected(net) /\ ~x.ready
      BY DEF IInv, Good, Handshake
    <1>2. /\ net \in Net /\ x \in Node /\ net.inFlight \in Flying
          /\ Settled(x, stored) /\ Follows(net, p, x, net.inFlight)
      BY <1>1, SoundNode
    <1>3. ~x.fPreferredDownload
      BY <1>1, <1>2 DEF Settled
    <1>4. y \in Node /\ y.ready /\ y.fPreferredDownload = c
      BY <1>2 DEF Node
    <1>5. /\ y.vBlocksInFlight = x.vBlocksInFlight /\ y.nBlocksInFlight = x.nBlocksInFlight
          /\ y.stalling = x.stalling /\ y.pindexLastCommonBlock = x.pindexLastCommonBlock
          /\ y.fSyncStarted = x.fSyncStarted
      BY <1>2 DEF Node
    <1>6. net' = m
      <2> DEFINE k == [net EXCEPT !.nodes[p].ready = TRUE, !.nodes[p].fPreferredDownload = c]
      <2>1. k = [net EXCEPT !.nodes[p] = y]
        BY <1>2 DEF Net
      <2>2. net' = [k EXCEPT !.nPreferredDownload = IF c THEN @ + 1 ELSE @]
        BY DEF Handshake
      <2> HIDE DEF y
      <2>3. k = Changed(net, p, y)
        BY <1>2, <2>1, ChangedIs
      <2>4. k.nPreferredDownload = net.nPreferredDownload
        BY <2>3 DEF Changed, Altered, Accounts
      <2>5. net' = [k EXCEPT !.nPreferredDownload = w]
        BY <2>2, <2>4
      <2> HIDE DEF k, w
      <2>6. QED
        BY <2>3, <2>5 DEF Changed, Altered, Accounts
    <1> HIDE DEF y, c
    <1>7. Settled(y, stored) /\ Follows(net, p, y, net.inFlight)
      BY <1>2, <1>4, <1>5 DEF Settled, Follows
    <1>8. y.nBlocksInFlight <= MAX_BLOCKS_IN_TRANSIT_PER_PEER
      BY <1>1, <1>5 DEF Limits
    <1>9. Moved(net, p, y, net.inFlight) = m
      <2>1. v \in Int /\ net.nPreferredDownload \in Int /\ z \in Int
        BY <1>2, AccountsOf
      <2>2. v + Bit(y.vBlocksInFlight # {}) - Bit(x.vBlocksInFlight # {}) = v
        BY <2>1, <1>5 DEF Bit
      <2>3. net.nPreferredDownload + Bit(y.fPreferredDownload) - Bit(x.fPreferredDownload) = w
        BY <2>1, <1>3, <1>4 DEF Bit
      <2>4. z + Bit(y.fSyncStarted) - Bit(x.fSyncStarted) = z
        BY <2>1, <1>5 DEF Bit
      <2>5. QED
        BY <2>2, <2>3, <2>4 DEF Moved
    <1> HIDE DEF m
    <1>10. Good(m, stored) /\ Elsewhere(net, m, p)
      BY <1>1, <1>2, <1>4, <1>7, <1>8, <1>9, MovedGood
    <1>11. QED
      BY <1>6, <1>10, KeepTree DEF Elsewhere, Handshake

(* The mark for disconnection is in no account.                            *)
LEMMA CloseConnectionInv ==
    ASSUME IInv, NEW p \in Peer, CloseConnection(p)
    PROVE  IInv'
    <1> DEFINE d == TRUE
    <1>1. d \in BOOLEAN /\ p \in Connected(net) /\ Good(net, stored)
      BY DEF CloseConnection, IInv
    <1>2. net' = [net EXCEPT !.nodes[p].fDisconnect = d]
      BY DEF CloseConnection
    <1> HIDE DEF d
    <1>3. Good(net', stored) /\ Connected(net') = Connected(net)
      BY <1>1, <1>2, DisconnectGood
    <1>4. QED
      BY <1>3, KeepTree DEF CloseConnection

(* FinalizeNode takes everything of the peer out of the accounts.          *)
LEMMA FinalizeNodeInv ==
    ASSUME IInv, NEW p \in Peer, FinalizeNode(p)
    PROVE  IInv'
    <1> DEFINE x == net.nodes[p]
               f == Restrict(net.inFlight, DOMAIN net.inFlight \ x.vBlocksInFlight)
               v == IF x.nBlocksInFlight # 0 THEN net.nPeersWithValidatedDownloads - 1
                    ELSE net.nPeersWithValidatedDownloads
               w == IF x.fPreferredDownload THEN net.nPreferredDownload - 1 ELSE net.nPreferredDownload
               z == IF x.fSyncStarted THEN net.nSyncStarted - 1 ELSE net.nSyncStarted
               m == Accounts([net.nodes EXCEPT ![p] = None], f, v, w, z)
               s == stored
    <1>1. Sound(net, s) /\ Limits(net) /\ p \in Connected(net)
      BY DEF IInv, Good, FinalizeNode
    <1>2. /\ net \in Net /\ x \in Node /\ net.inFlight \in Flying
          /\ Settled(x, s) /\ Follows(net, p, x, net.inFlight) /\ IsFiniteSet(x.vBlocksInFlight)
      BY <1>1, SoundNode
    <1>3. net' = m
      BY <1>2 DEF FinalizeNode, Finalized, Net, Accounts
    <1>4. /\ DOMAIN f = DOMAIN net.inFlight \ x.vBlocksInFlight
          /\ \A b \in DOMAIN f : f[b] = net.inFlight[b]
      BY DEF Restrict
    <1>5. f \in Flying
      <2>1. f \in [DOMAIN net.inFlight \ x.vBlocksInFlight -> Peer]
            /\ DOMAIN net.inFlight \ x.vBlocksInFlight \in SUBSET Block
        BY <1>2, FlyingIs DEF Restrict
      <2>2. QED
        BY <2>1, FlyingFrom
    <1>6. v \in Int /\ w \in Int /\ z \in Int
      <2>1. /\ net.nPeersWithValidatedDownloads \in Int /\ net.nPreferredDownload \in Int
            /\ net.nSyncStarted \in Int
        BY <1>2, AccountsOf
      <2>2. QED
        BY <2>1
    <1>7. [net.nodes EXCEPT ![p] = None] \in [Peer -> Node \cup {None}]
      BY <1>2 DEF Net
    <1>8. m \in Net
      <2> HIDE DEF f, v, w, z
      <2>1. QED
        BY <1>5, <1>6, <1>7 DEF Net, Accounts, Flying
    <1>9. /\ m.inFlight = f /\ m.nPeersWithValidatedDownloads = v
          /\ m.nPreferredDownload = w /\ m.nSyncStarted = z
          /\ m.nodes = [net.nodes EXCEPT ![p] = None]
      BY DEF Accounts
    <1> HIDE DEF m, f
    <1>10. m.nodes[p] = None /\ \A q \in Peer \ {p} : m.nodes[q] = net.nodes[q]
      BY <1>2, <1>9 DEF Net
    <1>11. Connected(m) = Connected(net) \ {p} /\ \A q \in Connected(m) : m.nodes[q] = net.nodes[q]
      BY <1>10 DEF Connected
    <1>12. Flights(m)
      <2> SUFFICES ASSUME NEW b \in DOMAIN f
                   PROVE  f[b] \in Connected(m) /\ b \in m.nodes[f[b]].vBlocksInFlight
        BY <1>9 DEF Flights
      <2>1. b \in DOMAIN net.inFlight /\ b \notin x.vBlocksInFlight /\ f[b] = net.inFlight[b]
        BY <1>4
      <2>2. net.inFlight[b] \in Connected(net) /\ b \in net.nodes[net.inFlight[b]].vBlocksInFlight
        BY <1>1, <2>1 DEF Sound, Flights
      <2>3. net.inFlight[b] # p
        BY <2>1, <2>2
      <2>4. QED
        BY <1>11, <2>1, <2>2, <2>3
    <1>13. Queues(m)
      <2> SUFFICES ASSUME NEW q \in Connected(m)
                   PROVE  /\ \A b \in m.nodes[q].vBlocksInFlight : b \in DOMAIN f /\ f[b] = q
                          /\ m.nodes[q].nBlocksInFlight = Cardinality(m.nodes[q].vBlocksInFlight)
        BY <1>9 DEF Queues
      <2>1. q \in Connected(net) /\ q # p /\ m.nodes[q] = net.nodes[q]
        BY <1>11
      <2>2. /\ \A b \in net.nodes[q].vBlocksInFlight : b \in DOMAIN net.inFlight /\ net.inFlight[b] = q
            /\ net.nodes[q].nBlocksInFlight = Cardinality(net.nodes[q].vBlocksInFlight)
        BY <1>1, <2>1 DEF Sound, Queues
      <2>3. \A b \in x.vBlocksInFlight : net.inFlight[b] = p
        BY <1>2 DEF Follows
      <2>4. QED
        BY <1>4, <2>1, <2>2, <2>3
    <1>14. Counts(m)
      <2>1. /\ Busy(m) \in SUBSET Peer /\ Preferred(m) \in SUBSET Peer /\ Syncing(m) \in SUBSET Peer
            /\ Busy(net) \in SUBSET Peer /\ Preferred(net) \in SUBSET Peer /\ Syncing(net) \in SUBSET Peer
        BY DEF Busy, Preferred, Syncing, Connected
      <2>2. /\ Busy(m) \ {p} = Busy(net) \ {p} /\ Preferred(m) \ {p} = Preferred(net) \ {p}
            /\ Syncing(m) \ {p} = Syncing(net) \ {p}
        BY <1>11 DEF Busy, Preferred, Syncing
      <2>3. /\ p \notin Busy(m) /\ p \notin Preferred(m) /\ p \notin Syncing(m)
            /\ p \in Busy(net) <=> x.vBlocksInFlight # {}
            /\ p \in Preferred(net) <=> x.fPreferredDownload
            /\ p \in Syncing(net) <=> x.fSyncStarted
        BY <1>1, <1>11 DEF Busy, Preferred, Syncing
      <2>4. net.nPeersWithValidatedDownloads = Cardinality(Busy(net))
            /\ net.nPreferredDownload = Cardinality(Preferred(net)) /\ net.nSyncStarted = Cardinality(Syncing(net))
        BY <1>1 DEF Sound, Counts
      <2>5. Cardinality(Busy(m)) = Cardinality(Busy(net)) + Bit(p \in Busy(m)) - Bit(p \in Busy(net))
        BY <2>1, <2>2, CountChange
      <2>6. Cardinality(Preferred(m)) = Cardinality(Preferred(net)) + Bit(p \in Preferred(m)) - Bit(p \in Preferred(net))
        BY <2>1, <2>2, CountChange
      <2>7. Cardinality(Syncing(m)) = Cardinality(Syncing(net)) + Bit(p \in Syncing(m)) - Bit(p \in Syncing(net))
        BY <2>1, <2>2, CountChange
      <2>8. /\ net.nPeersWithValidatedDownloads \in Int /\ net.nPreferredDownload \in Int
            /\ net.nSyncStarted \in Int
        BY <1>2, AccountsOf
      <2>9. (x.nBlocksInFlight = 0) = (x.vBlocksInFlight = {})
        BY <1>2, FS_EmptySet DEF Settled
      <2>10. m.nPeersWithValidatedDownloads = Cardinality(Busy(m))
        BY <1>9, <2>3, <2>4, <2>5, <2>8, <2>9 DEF Bit
      <2>11. m.nPreferredDownload = Cardinality(Preferred(m))
        BY <1>9, <2>3, <2>4, <2>6, <2>8 DEF Bit
      <2>12. m.nSyncStarted = Cardinality(Syncing(m))
        BY <1>9, <2>3, <2>4, <2>7, <2>8 DEF Bit
      <2>13. QED
        BY <2>10, <2>11, <2>12 DEF Counts
    <1>15. Stalls(m) /\ Commons(m, s) /\ Greeted(m) /\ Limits(m)
      BY <1>1, <1>11 DEF Sound, Stalls, Commons, Greeted, Limits
    <1>16. Good(m, s)
      BY <1>8, <1>12, <1>13, <1>14, <1>15 DEF Good, Sound
    <1>17. TreeSound' /\ stored' = stored /\ HandlerSound'
      BY <1>3, <1>11 DEF IInv, TreeSound, tree, HandlerSound, FinalizeNode
    <1>18. QED
      BY <1>3, <1>16, <1>17 DEF IInv, FinalizeNode

(* ProcessNewBlock only adds blocks, and the new tip has all of its chain. *)
LEMMA ProcessNewBlockSound ==
    ASSUME TreeSound, NEW b \in Block, NEW force \in BOOLEAN, ProcessNewBlock(b, force)
    PROVE  TreeSound' /\ stored \subseteq stored'
    <1>1. CASE Parent[b] \notin headers \/ b \in failed
      <2>1. UNCHANGED tree
        BY <1>1 DEF ProcessNewBlock
      <2>2. QED
        BY <2>1 DEF tree, TreeSound
    <1>2. CASE ~(Parent[b] \notin headers \/ b \in failed)
      <2> DEFINE enough == Height(b) > Height(tip) /\ Height(b) >= nMinimumChainWork
                 have == IF force \/ enough THEN stored \cup {b} ELSE stored
                 better == {x \in Linked(have) \ Bad : Height(x) > Height(tip)}
                 tried(t) == {x \in Linked(have) \cap Bad : Height(x) > Height(t)}
                 tied(t) == {x \in Linked(have) \cap Bad : t # tip /\ Height(x) = Height(t)}
      <2>1. /\ headers' = headers \cup {b}
            /\ bestHeader' = IF Height(b) > Height(bestHeader) THEN b ELSE bestHeader
            /\ stored' = have
        BY <1>2 DEF ProcessNewBlock
      <2>2. PICK t \in IF better = {} THEN {tip} ELSE {x \in better : \A y \in better : Height(y) <= Height(x)} :
                   /\ tip' = t
                   /\ ibd' = (ibd /\ ~(t \in Recent /\ Height(t) >= nMinimumChainWork))
                   /\ \E first \in SUBSET tied(t) : failed' = failed \cup tried(t) \cup first
        BY <1>2 DEF ProcessNewBlock
      <2>3. have \in SUBSET Block /\ stored \subseteq have
        BY DEF TreeSound
      <2> HIDE DEF have
      <2>4. Linked(have) \subseteq have /\ \A x \in Linked(have) : Chain(x) \subseteq have
        BY DEF Linked
      <2>5. t \in Block /\ Chain(t) \subseteq have
        <3>1. CASE better = {}
          BY <3>1, <2>2, <2>3 DEF TreeSound
        <3>2. CASE better # {}
          BY <3>2, <2>2, <2>3, <2>4
        <3>3. QED
          BY <3>1, <3>2
      <2>6. failed' \in SUBSET Block
        BY <2>2, <2>3, <2>4 DEF TreeSound
      <2>7. headers' \in SUBSET Block /\ bestHeader' \in Block
        BY <2>1 DEF TreeSound
      <2>8. ibd' \in BOOLEAN /\ tip' = t
        BY <2>2
      <2>9. QED
        BY <2>1, <2>3, <2>5, <2>6, <2>7, <2>8 DEF TreeSound
    <1>3. QED
      BY <1>1, <1>2

(* A block is taken off the queue it was in, whoever sends it.             *)
LEMMA RecvBlockInv ==
    ASSUME IInv, NEW p \in Peer, RecvBlock(p)
    PROVE  IInv'
    <1>1. Sound(net, stored) /\ Limits(net) /\ p \in Connected(net)
      BY DEF IInv, Good, RecvBlock, Served
    <1>2. net.nodes[p] \in Node
      BY <1>1, SoundNode
    <1>3. PICK b \in IF p \in Prompt THEN net.nodes[p].vBlocksInFlight ELSE Offered, corrupt \in BOOLEAN :
             /\ handling' = [from |-> p, block |-> b, corrupt |-> corrupt, force |-> b \in DOMAIN net.inFlight]
             /\ net' = MarkBlockAsReceived(net, b)
      BY DEF RecvBlock
    <1>4. b \in Block
      BY <1>2, <1>3, TreeAssumption DEF Node
    <1>5. Sound(net', stored) /\ Connected(net') = Connected(net) /\ Shorter(net, net')
      BY <1>1, <1>3, <1>4, ReceivedSound
    <1>6. Limits(net')
      <2>1. ASSUME NEW q \in Connected(net)
            PROVE  net'.nodes[q].nBlocksInFlight <= MAX_BLOCKS_IN_TRANSIT_PER_PEER
        <3>1. net'.nodes[q] \in Node /\ net.nodes[q] \in Node
          BY <1>1, <1>5, SoundNode
        <3>2. net'.nodes[q].nBlocksInFlight \in Nat /\ net.nodes[q].nBlocksInFlight \in Nat
          BY <3>1 DEF Node
        <3>3. /\ net'.nodes[q].nBlocksInFlight <= net.nodes[q].nBlocksInFlight
              /\ net.nodes[q].nBlocksInFlight <= MAX_BLOCKS_IN_TRANSIT_PER_PEER
          BY <1>1, <1>5 DEF Shorter, Limits
        <3>4. QED
          BY <3>2, <3>3, LimitAssumption
      <2>2. QED
        BY <2>1, <1>5 DEF Limits
    <1>7. handling' \in Message /\ handling'.from = p
      BY <1>3, <1>4 DEF Message
    <1>8. HandlerSound'
      BY <1>1, <1>5, <1>7 DEF HandlerSound
    <1>9. TreeSound' /\ stored' = stored
      BY DEF IInv, TreeSound, tree, RecvBlock
    <1>10. QED
      BY <1>5, <1>6, <1>8, <1>9 DEF IInv, Good, RecvBlock

(* ProcessNewBlock for the block in the handler.                           *)
LEMMA FinishBlockInv ==
    ASSUME IInv, FinishBlock
    PROVE  IInv'
    <1>1. handling \in Message /\ handling.from \in Connected(net) /\ handling' = None
      BY DEF IInv, HandlerSound, FinishBlock
    <1>2. /\ handling.block \in Block /\ handling.force \in BOOLEAN
      BY <1>1 DEF Message
    <1>3. HandlerSound' /\ connections' = connections
      BY <1>1 DEF HandlerSound, FinishBlock
    <1>4. CASE handling.corrupt
      <2> DEFINE d == TRUE
                 p == handling.from
      <2>1. net' = [net EXCEPT !.nodes[p].fDisconnect = d] /\ d \in BOOLEAN /\ UNCHANGED tree
        BY <1>4 DEF FinishBlock
      <2> HIDE DEF d, p
      <2>2. p \in Connected(net) /\ Good(net, stored)
        BY <1>1 DEF p, IInv
      <2>3. Good(net', stored)
        BY <2>1, <2>2, DisconnectGood
      <2>4. TreeSound' /\ stored' = stored
        BY <2>1 DEF IInv, TreeSound, tree
      <2>5. QED
        BY <1>3, <2>3, <2>4 DEF IInv
    <1>5. CASE ~handling.corrupt
      <2>1. ProcessNewBlock(handling.block, handling.force) /\ net' = net
        BY <1>5 DEF FinishBlock
      <2>2. TreeSound' /\ stored \subseteq stored'
        BY <1>2, <2>1, ProcessNewBlockSound DEF IInv
      <2>3. Good(net, stored')
        BY <2>2, StoredMore DEF IInv
      <2>4. QED
        BY <1>3, <2>1, <2>2, <2>3 DEF IInv
    <1>6. QED
      BY <1>4, <1>5

(* ProcessNewBlock for a submitted block.                                  *)
LEMMA SubmitBlockInv ==
    ASSUME IInv, SubmitBlock
    PROVE  IInv'
    <1> DEFINE force == TRUE
    <1>1. PICK b \in Submitted \ stored : ProcessNewBlock(b, force)
      BY DEF SubmitBlock
    <1>2. b \in Block /\ force \in BOOLEAN
      BY TreeAssumption
    <1> HIDE DEF force
    <1>3. TreeSound' /\ stored \subseteq stored'
      BY <1>1, <1>2, ProcessNewBlockSound DEF IInv
    <1>4. Good(net, stored')
      BY <1>3, StoredMore DEF IInv
    <1>5. net' = net /\ HandlerSound' /\ connections' = connections
      BY DEF SubmitBlock, IInv, HandlerSound
    <1>6. QED
      BY <1>3, <1>4, <1>5 DEF IInv

(* SendMessages for one peer.                                              *)
LEMMA SendMessagesInv ==
    ASSUME IInv, NEW p \in Peer, NEW late, SendMessages(p, late)
    PROVE  IInv'
    <1>1. TreeSound /\ Good(net, stored) /\ p \in Connected(net)
      BY DEF IInv, SendMessages, Served
    <1>2. Good(net', stored) /\ Connected(net') = Connected(net)
      BY <1>1, SentGood DEF SendMessages
    <1>3. QED
      BY <1>2, KeepTree DEF SendMessages

(* An INV message.                                                         *)
LEMMA RecvInvInv ==
    ASSUME IInv, NEW p \in Peer, RecvInv(p)
    PROVE  IInv'
    <1>1. Good(net, stored) /\ p \in Connected(net) /\ headers \in SUBSET Block /\ bestHeader \in Block
      BY DEF IInv, TreeSound, RecvInv, Served
    <1>2. PICK b \in IF p \in Prompt THEN {Best[p]} ELSE Offered :
             LET n == UpdateBlockAvailability(net, p, b, headers)
             IN  net' = IF b \in headers \/ b \in DOMAIN n.inFlight THEN n ELSE GetHeaders(n, p, bestHeader)
      BY DEF RecvInv
    <1>3. b \in Block
      BY <1>2, TreeAssumption
    <1> DEFINE n == UpdateBlockAvailability(net, p, b, headers)
    <1>4. net' = n \/ net' = GetHeaders(n, p, bestHeader)
      BY <1>2
    <1>5. Good(n, stored) /\ Connected(n) = Connected(net)
      BY <1>1, <1>3, UpdateAvailabilityGood DEF SameBook
    <1> HIDE DEF n
    <1>6. Good(GetHeaders(n, p, bestHeader), stored) /\ Connected(GetHeaders(n, p, bestHeader)) = Connected(net)
      BY <1>1, <1>5, GetHeadersGood DEF SameBook
    <1>7. Good(net', stored) /\ Connected(net') = Connected(net)
      BY <1>4, <1>5, <1>6
    <1>8. QED
      BY <1>7, KeepTree DEF RecvInv

(* Headers that hang together are blocks.                                  *)
LEMMA SliceOfBlocks ==
    ASSUME NEW q \in Seq(Block), NEW i \in Nat \ {0}, NEW j \in Int, j <= Len(q)
    PROVE  SubSeq(q, i, j) \in Seq(Block)
    OBVIOUS

(* ProcessHeadersMessage, for the accounts and for the tree.               *)
LEMMA ProcessHeadersSound ==
    ASSUME IInv, NEW n, Good(n, stored), Connected(n) = Connected(net), NEW p \in Connected(net),
           NEW run \in Seq(Block), run # <<>>, ProcessHeaders(n, p, run)
    PROVE  /\ Good(net', stored) /\ Connected(net') = Connected(net)
           /\ TreeSound' /\ stored' = stored
    <1> DEFINE last == Last(run)
               index == headers \cup (ToSet(run) \ failed)
               connects == run[1] \in headers \/ Parent[run[1]] \in headers
               n1 == UpdateBlockAvailability(n, p, last, index)
               n2 == IF Len(run) = MAX_HEADERS_RESULTS THEN GetHeaders(n1, p, last) ELSE n1
               F == DirectFetch(n2, p, last)
               n3 == Request(n2, p, F)
               o == GetHeaders(n, p, bestHeader)
    <1>1. TreeSound /\ headers \in SUBSET Block /\ bestHeader \in Block /\ p \in Connected(n)
      BY DEF IInv, TreeSound
    <1>2. last \in Block /\ index \in SUBSET Block
      <2>1. Len(run) \in 1 .. Len(run)
        OBVIOUS
      <2>2. run[Len(run)] \in Block
        BY <2>1
      <2>3. ToSet(run) \subseteq Block
        BY DEF ToSet
      <2>4. QED
        BY <1>1, <2>2, <2>3 DEF Last
    <1>3. CASE ~connects
      <2>1. net' = UpdateBlockAvailability(o, p, last, headers) /\ UNCHANGED tree
        BY <1>3 DEF ProcessHeaders
      <2>2. Good(o, stored) /\ Connected(o) = Connected(n)
        BY <1>1, GetHeadersGood DEF SameBook
      <2> HIDE DEF o, last
      <2>3. Good(net', stored) /\ Connected(net') = Connected(net)
        <3> DEFINE e == UpdateBlockAvailability(o, p, last, headers)
        <3>1. Good(e, stored) /\ SameBook(o, e)
          BY <1>1, <1>2, <2>2, UpdateAvailabilityGood
        <3> HIDE DEF e
        <3>2. QED
          BY <2>1, <2>2, <3>1 DEF SameBook, e
      <2>4. TreeSound' /\ stored' = stored
        BY <1>1, <2>1 DEF tree, TreeSound
      <2>5. QED
        BY <2>3, <2>4
    <1>4. CASE connects
      <2> DEFINE bad == n.nodes[p].kind = "outbound"
                 weak == TooLittleWork(n3, p, Len(run))
      <2>1. /\ headers' = index
            /\ bestHeader' = (LET b == Highest(index) IN IF Height(b) > Height(bestHeader) THEN b ELSE bestHeader)
            /\ UNCHANGED <<stored, failed, tip, ibd>>
            /\ net' = IF last \in failed THEN [n EXCEPT !.nodes[p].fDisconnect = bad]
                      ELSE [n3 EXCEPT !.nodes[p].fDisconnect = weak]
        BY <1>4 DEF ProcessHeaders
      <2>2. index # {}
        BY <1>4
      <2>3. Good(n1, stored) /\ Connected(n1) = Connected(n)
        <3> HIDE DEF last, index
        <3>1. QED
          BY <1>1, <1>2, UpdateAvailabilityGood DEF SameBook
      <2> HIDE DEF n1, last, index
      <2>4. Good(n2, stored) /\ Connected(n2) = Connected(n)
        BY <1>1, <1>2, <2>3, GetHeadersGood DEF SameBook
      <2> HIDE DEF n2
      <2>5. /\ F \in SUBSET Block
            /\ n2.nodes[p].nBlocksInFlight + Cardinality(F) <= MAX_BLOCKS_IN_TRANSIT_PER_PEER
        BY <1>1, <1>2, <2>4, DirectFetchFits
      <2> HIDE DEF F
      <2>6. Good(n3, stored) /\ Connected(n3) = Connected(n)
        BY <1>1, <2>4, <2>5, RequestGood
      <2>7. bad \in BOOLEAN /\ weak \in BOOLEAN
        BY DEF TooLittleWork
      <2> HIDE DEF n3, bad, weak
      <2>8. Good(net', stored) /\ Connected(net') = Connected(net)
        <3>1. CASE last \in failed
          BY <3>1, <1>1, <2>1, <2>7, DisconnectGood
        <3>2. CASE last \notin failed
          <4>1. p \in Connected(n3) /\ net' = [n3 EXCEPT !.nodes[p].fDisconnect = weak]
            BY <3>2, <1>1, <2>1, <2>6
          <4>2. Good(net', stored) /\ Connected(net') = Connected(n3)
            BY <2>6, <2>7, <4>1, DisconnectGood
          <4>3. QED
            BY <2>6, <4>2
        <3>3. QED
          BY <3>1, <3>2
      <2>9. Highest(index) \in Block
        BY <1>2, <2>2, HighestIs
      <2>10. bestHeader' \in Block
        BY <1>1, <2>1, <2>9
      <2>11. TreeSound' /\ stored' = stored
        BY <1>1, <1>2, <2>1, <2>10 DEF TreeSound
      <2>12. QED
        BY <2>8, <2>11
    <1>5. QED
      BY <1>3, <1>4

(* Headers from a peer that sends what it likes.                           *)
LEMMA RecvHeadersInv ==
    ASSUME IInv, NEW p \in Peer, RecvHeaders(p)
    PROVE  IInv'
    <1>1. Good(net, stored) /\ p \in Connected(net)
      BY DEF IInv, RecvHeaders, Served
    <1>2. PICK run \in Runs : ProcessHeaders(net, p, run)
      BY DEF RecvHeaders
    <1>3. run \in Seq(Block) /\ run # <<>>
      <2>1. PICK b \in Offered, i \in 2 .. Cardinality(Block) : run = SubSeq(Path[b], i, Height(b) + 1)
        BY DEF Runs
      <2>2. run # <<>>
        BY DEF Runs
      <2>3. b \in Block /\ i \in Nat \ {0}
        BY TreeAssumption, FS_CardinalityType
      <2>4. Path[b] \in Seq(Block)
        BY <2>3, PathIs
      <2>5. Height(b) + 1 \in Int /\ Height(b) + 1 <= Len(Path[b])
        BY <2>4 DEF Height
      <2> DEFINE q == Path[b]
                 j == Height(b) + 1
      <2> HIDE DEF q, j
      <2>6. SubSeq(q, i, j) \in Seq(Block)
        BY <2>3, <2>4, <2>5, SliceOfBlocks DEF q, j
      <2>7. QED
        BY <2>1, <2>2, <2>6 DEF q, j
    <1>4. /\ Good(net', stored) /\ Connected(net') = Connected(net)
          /\ TreeSound' /\ stored' = stored
      BY <1>1, <1>2, <1>3, ProcessHeadersSound
    <1>5. HandlerSound' /\ connections' = connections
      BY <1>4 DEF RecvHeaders, IInv, HandlerSound
    <1>6. QED
      BY <1>4, <1>5 DEF IInv

(* Headers from a prompt peer.                                             *)
LEMMA AnswerGetHeadersInv ==
    ASSUME IInv, NEW p \in Peer, AnswerGetHeaders(p)
    PROVE  IInv'
    <1> DEFINE x == net.nodes[p]
               c == x.pindexBestKnownBlock
               u == x.hashLastUnknownBlock
               none == None
               y == Told(x, c, u, none)
               n == [net EXCEPT !.nodes[p].asked = none]
               fork == Height(Highest(Chain(net.nodes[p].asked) \cap Chain(Best[p])))
               upTo == Min({Height(Best[p]), fork + MAX_HEADERS_RESULTS})
               run == SubSeq(Path[Best[p]], fork + 2, upTo + 1)
    <1>1. /\ Good(net, stored) /\ p \in Connected(net) /\ p \in Prompt /\ x.asked # None
          /\ IF run = <<>> THEN net' = n /\ UNCHANGED tree ELSE ProcessHeaders(n, p, run)
          /\ UNCHANGED <<handling, connections>>
      BY DEF IInv, AnswerGetHeaders, Served
    <1>2. net \in Net /\ x \in Node
      BY <1>1, SoundNode DEF Good
    <1>3. Good(n, stored) /\ Connected(n) = Connected(net)
      <2>1. c \in Block \cup {None} /\ u \in Block \cup {None} /\ none \in Block \cup {None}
        BY <1>2 DEF Node
      <2>2. y = [x EXCEPT !.asked = none]
        BY <1>2 DEF Told, Node
      <2>3. n = [net EXCEPT !.nodes[p] = y]
        BY <1>2, <2>2 DEF Net
      <2>4. n = Changed(net, p, y)
        BY <1>2, <2>3, ChangedIs
      <2> HIDE DEF n, none
      <2>5. Good(Changed(net, p, y), stored) /\ SameBook(net, Changed(net, p, y))
        BY <1>1, <2>1, ToldGood
      <2> HIDE DEF y
      <2>6. QED
        BY <2>4, <2>5 DEF SameBook
    <1>4. run \in Seq(Block)
      <2> DEFINE q == Path[Best[p]]
                 i == fork + 2
                 j == upTo + 1
      <2>1. Best[p] \in Block /\ x.asked \in Block
        BY <1>1, <1>2, TreeAssumption DEF Node
      <2>2. q \in Seq(Block) /\ Height(Best[p]) \in Nat /\ Height(Best[p]) + 1 = Len(q)
        BY <2>1, PathIs, ChainIs DEF Height
      <2>3. fork \in Nat
        <3> DEFINE both == Chain(x.asked) \cap Chain(Best[p])
        <3>1. both \in SUBSET Block /\ Genesis \in both
          BY <2>1, ChainIs, ChainEnds
        <3> HIDE DEF both
        <3>2. Highest(both) \in Block
          BY <3>1, HighestIs
        <3>3. QED
          BY <3>2, ChainIs DEF both
      <2> HIDE DEF fork, q
      <2>4. Height(Best[p]) \in Int /\ fork + MAX_HEADERS_RESULTS \in Int
        BY <2>2, <2>3, LimitAssumption
      <2>5. upTo \in {Height(Best[p]), fork + MAX_HEADERS_RESULTS} /\ upTo <= Height(Best[p])
        BY <2>4, MinOfTwo, Zenon
      <2>6. upTo \in Int
        BY <2>4, <2>5
      <2> HIDE DEF upTo
      <2>7. i \in Nat \ {0} /\ j \in Int /\ j <= Len(q)
        BY <2>2, <2>3, <2>5, <2>6
      <2> HIDE DEF i, j
      <2>8. SubSeq(q, i, j) \in Seq(Block)
        BY <2>2, <2>7, SliceOfBlocks
      <2>9. QED
        BY <2>8 DEF q, i, j
    <1> HIDE DEF n, run
    <1>5. /\ Good(net', stored) /\ Connected(net') = Connected(net)
          /\ TreeSound' /\ stored' = stored
      <2>1. CASE run = <<>>
        <3>1. net' = n /\ UNCHANGED tree
          BY <1>1, <2>1
        <3>2. TreeSound' /\ stored' = stored
          BY <3>1 DEF IInv, TreeSound, tree
        <3>3. QED
          BY <3>1, <3>2, <1>3
      <2>2. CASE run # <<>>
        BY <1>1, <1>3, <1>4, <2>2, ProcessHeadersSound
      <2>3. QED
        BY <2>1, <2>2
    <1>6. HandlerSound' /\ connections' = connections
      BY <1>1, <1>5 DEF IInv, HandlerSound
    <1>7. QED
      BY <1>5, <1>6 DEF IInv

(* Every step keeps it.                                                    *)
LEMMA NextIInv == IInv /\ [Next]_vars => IInv'
    <1> SUFFICES ASSUME IInv, [Next]_vars PROVE IInv'
      OBVIOUS
    <1>1. CASE \E p \in Peer : \E kind \in Kinds[p] : InitializeNode(p, kind)
      BY <1>1, InitializeNodeInv
    <1>2. ASSUME NEW p \in Peer,
                 \/ Handshake(p) \/ CloseConnection(p) \/ FinalizeNode(p)
                 \/ RecvHeaders(p) \/ AnswerGetHeaders(p) \/ RecvInv(p) \/ RecvBlock(p)
          PROVE  IInv'
      BY <1>2, HandshakeInv, CloseConnectionInv, FinalizeNodeInv, RecvHeadersInv, AnswerGetHeadersInv,
         RecvInvInv, RecvBlockInv
    <1>3. CASE \E p \in Peer, late \in SUBSET Deadline : SendMessages(p, late)
      BY <1>3, SendMessagesInv
    <1>4. CASE FinishBlock
      BY <1>4, FinishBlockInv
    <1>5. CASE SubmitBlock
      BY <1>5, SubmitBlockInv
    <1>6. CASE UNCHANGED vars
      <2>1. /\ net' = net /\ stored' = stored /\ handling' = handling /\ connections' = connections
            /\ TreeSound'
        BY <1>6 DEF vars, tree, IInv, TreeSound
      <2>2. HandlerSound'
        BY <2>1 DEF IInv, HandlerSound
      <2>3. QED
        BY <2>1, <2>2 DEF IInv
    <1>7. QED
      BY <1>1, <1>2, <1>3, <1>4, <1>5, <1>6 DEF Next

(* The inductive invariant holds in every state the node can reach.        *)
THEOREM DownloadInvariant == Spec => []IInv
    BY InitIInv, NextIInv, PTL DEF Spec

(* The peers' state and the tree keep their types, for any peers, blocks   *)
(* and limits.                                                             *)
THEOREM TypeCorrect == Spec => []TypeOK
    <1>1. IInv => TypeOK
      BY DEF IInv, Good, Sound, TreeSound, HandlerSound, TypeOK
    <1>2. QED
      BY <1>1, DownloadInvariant, PTL

(* mapBlocksInFlight, the peers' queues and the counters beside them agree *)
(* and no queue is too long (MarkBlockAsReceived, MarkBlockAsInFlight,     *)
(* FinalizeNode).                                                          *)
THEOREM AccountsAreExact == Spec => []AccountsExact
    <1>1. IInv => AccountsExact
      BY DEF IInv, Good, Sound, Flights, Queues, Counts, Limits, Busy, Preferred, Syncing, AccountsExact
    <1>2. QED
      BY <1>1, DownloadInvariant, PTL

(* A peer under the stalling deadline owes a block.                        *)
THEOREM StallersDoOwe == Spec => []StallersOwe
    <1>1. IInv => StallersOwe
      BY DEF IInv, Good, Sound, Stalls, StallersOwe
    <1>2. QED
      BY <1>1, DownloadInvariant, PTL

(* Nothing is missing below pindexLastCommonBlock.                         *)
THEOREM LastCommonIsLinked == Spec => []LastCommonLinked
    <1>1. IInv => LastCommonLinked
      BY DEF IInv, Good, Sound, Commons, LastCommonLinked
    <1>2. QED
      BY <1>1, DownloadInvariant, PTL
=============================================================================
