-------------------------- MODULE MempoolProofs --------------------------
(***************************************************************************)
(* The links, the totals, the inputs and the claims of the memory pool are *)
(* right, for any transactions and blocks.                                 *)
(***************************************************************************)
EXTENDS Mempool, InductionLemmas

(* What the proofs assume of the transactions: an issue that has a rival,  *)
(* another transaction that issues the same name, has no children.  When a *)
(* block confirms the rival, removeForBlock takes the issue out of the     *)
(* pool and leaves its children there.                                     *)
Unrivalled ==
    \A t, u, w \in Tx : Issue[t] = Issue[u] /\ Issue[t] # None /\ t # u => t \notin Sources(w)

-----------------------------------------------------------------------------
(* Graphs: next gives the successors of each vertex of V.                  *)
Shut(V, next, T) == \A x \in V \cap T : next[x] \subseteq T
Reach(V, next, S) == {x \in V : \A T \in SUBSET V : S \subseteq T /\ Shut(V, next, T) => x \in T}

(* The graph of a pool's links.                                            *)
Spends(t) == ToSet(vin[t])
Parents(q) == [t \in InPool(q) |-> q.mapLinks[t].parents]
Children(q) == [t \in InPool(q) |-> q.mapLinks[t].children]
Up(q, t) == Reach(InPool(q), Parents(q), {t})
Down(q, t) == Reach(InPool(q), Children(q), {t})

-----------------------------------------------------------------------------
(* A pool is well formed: its maps are functions of the right kind, and a  *)
(* link is known at both ends.                                             *)
IsMap(f) == f = [x \in DOMAIN f |-> f[x]]
Entry == [delta : Nat, nAnc : Int, feeAnc : Int, nDesc : Int, feeDesc : Int]
WellFormed(q) ==
    /\ q = [mapTx |-> q.mapTx, mapLinks |-> q.mapLinks, mapNextTx |-> q.mapNextTx,
            mapDeltas |-> q.mapDeltas, mapAssetToHash |-> q.mapAssetToHash,
            mapReissuedAssets |-> q.mapReissuedAssets]
    /\ InPool(q) \subseteq Tx
    /\ q.mapTx \in [InPool(q) -> Entry]
    /\ q.mapLinks \in [InPool(q) -> [parents : SUBSET InPool(q), children : SUBSET InPool(q)]]
    /\ IsMap(q.mapNextTx) /\ IsMap(q.mapDeltas) /\ IsMap(q.mapAssetToHash) /\ IsMap(q.mapReissuedAssets)
    /\ IsFiniteSet(DOMAIN q.mapDeltas) /\ \A t \in DOMAIN q.mapDeltas : q.mapDeltas[t] \in Nat
    /\ \A t, u \in InPool(q) : u \in Children(q)[t] <=> t \in Parents(q)[u]

(* mapNextTx holds every input of the pool once.                           *)
SpendsKnown(q) ==
    /\ DOMAIN q.mapNextTx = UNION {Spends(t) : t \in InPool(q)}
    /\ \A t \in InPool(q) : \A o \in Spends(t) : q.mapNextTx[o] = t

(* The links are complete, but for those from M to what was in the pool    *)
(* before H were accepted again.                                           *)
Linked(q, H, M) ==
    \A t \in InPool(q) :
        IF t \in H THEN Parents(q)[t] = Sources(t) \cap InPool(q) /\ Parents(q)[t] \subseteq H
        ELSE Parents(q)[t] = (Sources(t) \cap InPool(q)) \ M

(* An entry counts the entries of up as ancestors, of down as descendants. *)
Counts(q, t, up, down) ==
    /\ q.mapTx[t].delta = Delta(q, t)
    /\ q.mapTx[t].nAnc = Cardinality(up) /\ q.mapTx[t].feeAnc = FeesOf(q, up)
    /\ q.mapTx[t].nDesc = Cardinality(down) /\ q.mapTx[t].feeDesc = FeesOf(q, down)

Counted(q) == \A t \in InPool(q) : Counts(q, t, Up(q, t), Down(q, t))

(* Inputs are coins of the chain C, outputs of the pool or of W.           *)
Coin(C, o) == o[1] \in C \cup {Base} /\ \A t \in C : o \notin Spends(t)
Supplied(q, C, W) ==
    \A t \in InPool(q) : \A o \in Spends(t) : o[1] \in InPool(q) \cup W \/ Coin(C, o)

(* Names are claimed as they should be, but for X.                         *)
Names(C) == BaseAssets \cup ({Issue[t] : t \in C} \ {None})
Claimed(q, X) ==
    /\ \A t \in InPool(q) \ X : Issue[t] # None =>
          Issue[t] \in DOMAIN q.mapAssetToHash /\ q.mapAssetToHash[Issue[t]] = t
    /\ \A n \in DOMAIN q.mapAssetToHash :
          n # None /\ q.mapAssetToHash[n] \in InPool(q) /\ Issue[q.mapAssetToHash[n]] = n
    /\ \A t \in InPool(q) \ X : Reissue[t] # None =>
          Reissue[t] \in DOMAIN q.mapReissuedAssets /\ q.mapReissuedAssets[Reissue[t]] = t
Free(q, C) == \A t \in InPool(q) : Issue[t] # None => Issue[t] \notin Names(C)

(* A sound pool.                                                           *)
Sound(q, H, M, C, W, X) ==
    /\ WellFormed(q) /\ SpendsKnown(q) /\ Linked(q, H, M) /\ Counted(q)
    /\ Supplied(q, C, W) /\ InPool(q) \cap C = {} /\ Claimed(q, X) /\ Free(q, C)

-----------------------------------------------------------------------------
(* The chain: no transaction twice, no output spent twice, and none before *)
(* its transaction.                                                        *)
Apart(S, T) == \A t \in S, u \in T : t # u => Spends(t) \cap Spends(u) = {}
Rooted(C) == \A t \in C : Sources(t) \subseteq C \cup {Base}
ChainSound ==
    /\ chain \in Seq(Block)
    /\ \A i, j \in DOMAIN chain : i # j => ToSet(chain[i]) \cap ToSet(chain[j]) = {}
    /\ \A i \in DOMAIN chain : IsInjective(chain[i])
    /\ \A i \in DOMAIN chain : \A t \in ToSet(chain[i]) : \A s \in Sources(t) \ {Base} :
          \E j \in 1..i : s \in ToSet(chain[j])
    /\ Apart(ChainTx(chain), ChainTx(chain))

Queued == ToSet(disconnectpool)
Again == ToSet(vHashUpdate)

(* The queue: none of its transactions is anywhere else, and they conflict *)
(* neither with each other nor with the pool.                              *)
QueueSound ==
    /\ disconnectpool \in Seq(Tx) /\ IsInjective(disconnectpool)
    /\ Queued \cap (ChainTx(chain) \cup InPool(pool)) = {}
    /\ Apart(Queued, Queued \cup InPool(pool))
    /\ \A t \in Queued : Sources(t) \cap InPool(pool) \subseteq Again
    /\ phase = "disconnect" => Apart(Queued, ChainTx(chain))
    /\ phase = "idle" => disconnectpool = <<>>

(* What was accepted again is in the pool, parents first.                  *)
AgainSound ==
    /\ vHashUpdate \in Seq(Tx) /\ Again \subseteq InPool(pool)
    /\ \A i, j \in DOMAIN vHashUpdate : i <= j => vHashUpdate[j] \notin Sources(vHashUpdate[i])
    /\ IsInjective(vHashUpdate)
    /\ \A t \in Again : Sources(t) \cap Queued = {}
    /\ phase # "update" => vHashUpdate = <<>>

PoolSound ==
    /\ Sound(pool, Again, Again, ChainTx(chain), Queued, {})
    /\ phase = "idle" => \A t \in InPool(pool) : LockHeight[t] <= Len(chain) + 1

FileSound ==
    /\ file = [txs |-> file.txs, deltas |-> file.deltas]
    /\ file.txs \in Seq(Tx) /\ IsMap(file.deltas) /\ IsFiniteSet(DOMAIN file.deltas)
    /\ \A t \in DOMAIN file.deltas : file.deltas[t] \in Nat

IInv == /\ phase \in {"idle", "disconnect", "connect", "update"}
        /\ ChainSound /\ QueueSound /\ AgainSound /\ PoolSound /\ FileSound

-----------------------------------------------------------------------------
(* What is reached is the least set with the start that nothing leaves.    *)
LEMMA ReachIs ==
    ASSUME NEW V, NEW next \in [V -> SUBSET V], NEW S \in SUBSET V
    PROVE  /\ S \subseteq Reach(V, next, S) /\ Reach(V, next, S) \subseteq V
           /\ \A x \in Reach(V, next, S) : next[x] \subseteq Reach(V, next, S)
    BY DEF Reach, Shut

(* Anything that holds the start and that nothing leaves holds what is     *)
(* reached.                                                                *)
LEMMA ReachLeast ==
    ASSUME NEW V, NEW next \in [V -> SUBSET V], NEW S, NEW T, S \subseteq T, S \subseteq V,
           \A x \in V \cap T : next[x] \subseteq T
    PROVE  Reach(V, next, S) \subseteq T
    <1>1. V \cap T \in SUBSET V /\ S \subseteq V \cap T /\ Shut(V, next, V \cap T)
      BY DEF Shut
    <1>2. QED
      BY <1>1 DEF Reach

(* The same from a single vertex.                                          *)
LEMMA ReachOne ==
    ASSUME NEW V, NEW next \in [V -> SUBSET V], NEW k \in V
    PROVE  /\ k \in Reach(V, next, {k}) /\ Reach(V, next, {k}) \subseteq V
           /\ \A x \in Reach(V, next, {k}) : next[x] \subseteq Reach(V, next, {k})
    BY DEF Reach, Shut

(* And so it does from a single vertex.                                    *)
LEMMA ReachOneLeast ==
    ASSUME NEW V, NEW next \in [V -> SUBSET V], NEW k \in V, NEW T, k \in T,
           \A x \in V \cap T : next[x] \subseteq T
    PROVE  Reach(V, next, {k}) \subseteq T
    BY {k} \subseteq T, {k} \subseteq V, ReachLeast

(* It is reached from one of the start, and is transitive.                 *)
LEMMA ReachFrom ==
    ASSUME NEW V, NEW next \in [V -> SUBSET V], NEW S \in SUBSET V
    PROVE  \A x \in V : x \in Reach(V, next, S) <=> \E s \in S : x \in Reach(V, next, {s})
    <1> DEFINE T == {x \in V : \E s \in S : x \in Reach(V, next, {s})}
    <1>1. S \subseteq T
      BY ReachIs
    <1>2. \A x \in V \cap T : next[x] \subseteq T
      BY ReachIs
    <1>3. Reach(V, next, S) \subseteq T
      <2> HIDE DEF T
      <2>1. QED
        BY <1>1, <1>2, ReachLeast
    <1>4. ASSUME NEW s \in S PROVE Reach(V, next, {s}) \subseteq Reach(V, next, S)
      <2>1. {s} \subseteq Reach(V, next, S) /\ \A x \in V \cap Reach(V, next, S) : next[x] \subseteq Reach(V, next, S)
        BY ReachIs
      <2>2. QED
        BY <2>1, ReachLeast
    <1>5. QED
      BY <1>3, <1>4

(* What is reached from what is reached is reached.                        *)
LEMMA ReachOn ==
    ASSUME NEW V, NEW next \in [V -> SUBSET V], NEW S \in SUBSET V, NEW x \in Reach(V, next, S)
    PROVE  Reach(V, next, {x}) \subseteq Reach(V, next, S)
    <1>1. {x} \subseteq Reach(V, next, S) /\ \A y \in V \cap Reach(V, next, S) : next[y] \subseteq Reach(V, next, S)
      BY ReachIs
    <1>2. QED
      BY <1>1, ReachIs, ReachLeast

(* Two maps that are each other's inverse.                                 *)
Opposite(V, next, prev) ==
    /\ next \in [V -> SUBSET V] /\ prev \in [V -> SUBSET V]
    /\ \A x, y \in V : y \in next[x] <=> x \in prev[y]

(* What is reached forwards reaches back.                                  *)
LEMMA ReachBack ==
    ASSUME NEW V, NEW next, NEW prev, Opposite(V, next, prev), NEW a \in V, NEW b \in V,
           b \in Reach(V, next, {a})
    PROVE  a \in Reach(V, prev, {b})
    <1> DEFINE T == {x \in V : a \in Reach(V, prev, {x})}
    <1>1. {a} \subseteq T
      BY ReachIs DEF Opposite
    <1>2. ASSUME NEW x \in V \cap T, NEW y \in next[x] PROVE y \in T
      <2>1. y \in V /\ x \in prev[y]
        BY DEF Opposite
      <2>2. x \in Reach(V, prev, {y})
        BY <2>1, ReachIs DEF Opposite
      <2>3. Reach(V, prev, {x}) \subseteq Reach(V, prev, {y})
        BY <2>1, <2>2, ReachOn DEF Opposite
      <2>4. QED
        BY <2>1, <2>3
    <1>3. Reach(V, next, {a}) \subseteq T
      <2> HIDE DEF T
      <2>1. QED
        BY <1>1, <1>2, ReachLeast DEF Opposite
    <1>4. QED
      BY <1>3

(* To be reached forwards is to reach backwards.                           *)
LEMMA ReachDual ==
    ASSUME NEW V, NEW next, NEW prev, Opposite(V, next, prev)
    PROVE  \A a, b \in V : b \in Reach(V, next, {a}) <=> a \in Reach(V, prev, {b})
    <1>1. Opposite(V, prev, next)
      BY DEF Opposite
    <1>2. QED
      BY <1>1, ReachBack

(* What is reached from a set is reached from one of it.                   *)
Among(V, next, prev, S, x) == Opposite(V, next, prev) /\ S \in SUBSET V /\ x \in Reach(V, next, S)
From(V, next, prev, S, x) ==
    x \in V /\ \E s \in S : s \in V /\ x \in Reach(V, next, {s}) /\ s \in Reach(V, prev, {x})

(* The one it is reached from can be found going back.                     *)
LEMMA ReachedFrom ==
    ASSUME NEW V, NEW next, NEW prev, NEW S, NEW x, Among(V, next, prev, S, x)
    PROVE  From(V, next, prev, S, x)
    <1>0. Opposite(V, next, prev) /\ x \in Reach(V, next, S)
      BY DEF Among
    <1>1. next \in [V -> SUBSET V] /\ S \in SUBSET V
      BY DEF Opposite, Among
    <1>2. x \in V
      BY <1>0, <1>1, ReachIs
    <1>3. \A y \in V : y \in Reach(V, next, S) <=> \E s \in S : y \in Reach(V, next, {s})
      BY <1>1, ReachFrom
    <1>4. PICK s \in S : x \in Reach(V, next, {s})
      BY <1>0, <1>2, <1>3
    <1>5. s \in V
      BY <1>1
    <1>6. s \in Reach(V, prev, {x})
      BY <1>0, <1>2, <1>4, <1>5, ReachBack
    <1>7. QED
      BY <1>2, <1>4, <1>5, <1>6 DEF From

(* And what one of a set reaches is reached from the set.                  *)
LEMMA ReachInto ==
    ASSUME NEW V, NEW next, NEW prev, Opposite(V, next, prev), NEW S, S \subseteq V, NEW s, s \in S,
           NEW x, x \in Reach(V, next, {s})
    PROVE  x \in Reach(V, next, S)
    <1>1. next \in [V -> SUBSET V] /\ S \in SUBSET V
      BY DEF Opposite
    <1>2. s \in Reach(V, next, S)
      BY <1>1, ReachIs
    <1>3. Reach(V, next, {s}) \subseteq Reach(V, next, S)
      BY <1>1, <1>2, ReachOn
    <1>4. QED
      BY <1>3

(* Of what is left when some vertices go that next does not lead out of,   *)
(* as much is reached as before, in both directions.                       *)
Inside(V, next, prev, U, next2, prev2) ==
    /\ Opposite(V, next, prev)
    /\ U \in SUBSET V /\ \A x \in V \ U : next[x] \cap U = {}
    /\ next2 \in [U -> SUBSET U] /\ \A x \in U : next2[x] = next[x] \cap U
    /\ prev2 \in [U -> SUBSET U] /\ \A x \in U : prev2[x] = prev[x] \cap U

(* Removing what has no successors left keeps both closures, but for what  *)
(* is removed.                                                             *)
LEMMA ReachWithin ==
    ASSUME NEW V, NEW next, NEW prev, NEW U, NEW next2, NEW prev2, Inside(V, next, prev, U, next2, prev2)
    PROVE  /\ Opposite(U, next2, prev2)
           /\ \A k \in U : Reach(U, next2, {k}) = Reach(V, next, {k}) \cap U
           /\ \A k \in U : Reach(U, prev2, {k}) = Reach(V, prev, {k})
           /\ \A k \in U : Reach(V, prev, {k}) \subseteq U
    <1> USE DEF Inside
    <1>1. next \in [V -> SUBSET V] /\ prev \in [V -> SUBSET V]
      BY DEF Opposite
    <1>2. Opposite(U, next2, prev2)
      BY <1>1 DEF Opposite
    <1>3. ASSUME NEW k \in U PROVE Reach(U, next2, {k}) = Reach(V, next, {k}) \cap U
      <2> DEFINE R == Reach(V, next, {k})
                 R2 == Reach(U, next2, {k})
      <2>0. k \in V
        OBVIOUS
      <2>1. k \in R /\ R \subseteq V /\ \A x \in R : next[x] \subseteq R
        BY <1>1, <2>0, ReachOne
      <2>2. k \in R2 /\ R2 \subseteq U /\ \A x \in R2 : next2[x] \subseteq R2
        BY <1>1, ReachOne
      <2>3. R2 \subseteq R \cap U
        <3> HIDE DEF R
        <3> DEFINE T == R \cap U
        <3>1. k \in T /\ \A x \in U \cap T : next2[x] \subseteq T
          BY <2>1
        <3> HIDE DEF T
        <3>2. R2 \subseteq T
          BY <3>1, ReachOneLeast
        <3>3. QED
          BY <3>2 DEF T
      <2>4. R \subseteq R2 \cup (V \ U)
        <3> HIDE DEF R2
        <3> DEFINE T == R2 \cup (V \ U)
        <3>1. k \in T /\ \A x \in V \cap T : next[x] \subseteq T
          <4>1. ASSUME NEW x \in R2 PROVE next[x] \subseteq T
            <5>1. x \in U /\ next2[x] = next[x] \cap U /\ next2[x] \subseteq R2 /\ next[x] \subseteq V
              BY <1>1, <2>2
            <5>2. QED
              BY <5>1
          <4>2. ASSUME NEW x \in V \ U PROVE next[x] \subseteq T
            BY <1>1, <4>2
          <4>3. QED
            BY <2>2, <4>1, <4>2
        <3> HIDE DEF T
        <3>2. R \subseteq T
          BY <1>1, <2>0, <3>1, ReachOneLeast
        <3>3. QED
          BY <3>2 DEF T
      <2>5. QED
        BY <2>1, <2>2, <2>3, <2>4
    <1>4. ASSUME NEW k \in U
          PROVE  Reach(U, prev2, {k}) = Reach(V, prev, {k}) /\ Reach(V, prev, {k}) \subseteq U
      <2> DEFINE R == Reach(V, prev, {k})
                 R2 == Reach(U, prev2, {k})
      <2>0. k \in V
        OBVIOUS
      <2>1. k \in R /\ R \subseteq V /\ \A x \in R : prev[x] \subseteq R
        BY <1>1, <2>0, ReachOne
      <2>2. k \in R2 /\ R2 \subseteq U /\ \A x \in R2 : prev2[x] \subseteq R2
        BY <1>1, ReachOne
      <2>3. \A x \in U : prev[x] \subseteq U
        BY DEF Opposite
      <2>4. R \subseteq U
        BY <1>1, <2>0, <2>3, ReachOneLeast
      <2>5. R2 \subseteq R
        <3> HIDE DEF R
        <3>1. k \in R /\ \A x \in U \cap R : prev2[x] \subseteq R
          <4>1. ASSUME NEW x \in U \cap R PROVE prev2[x] \subseteq R
            <5>1. prev2[x] = prev[x] \cap U /\ prev[x] \subseteq R
              BY <2>1
            <5>2. QED
              BY <5>1
          <4>2. QED
            BY <2>1, <4>1
        <3>2. QED
          BY <3>1, ReachOneLeast
      <2>6. R \subseteq R2
        <3>1. k \in R2 /\ \A x \in V \cap R2 : prev[x] \subseteq R2
          <4>1. ASSUME NEW x \in R2 PROVE prev[x] \subseteq R2
            <5>1. x \in U /\ prev2[x] \subseteq R2 /\ prev[x] \subseteq U /\ prev2[x] = prev[x] \cap U
              BY <2>2, <2>3
            <5>2. QED
              BY <5>1
          <4>2. QED
            BY <2>2, <4>1
        <3> HIDE DEF R2
        <3>2. QED
          BY <1>1, <2>0, <3>1, ReachOneLeast
      <2>7. QED
        BY <2>4, <2>5, <2>6
    <1>5. QED
      BY <1>2, <1>3, <1>4

(* With a new vertex t that has predecessors and no successors.            *)
Extended(V, next, prev, t, P, W, next2, prev2) ==
    /\ Opposite(V, next, prev) /\ t \notin V /\ P \in SUBSET V
    /\ V \subseteq W /\ t \in W /\ \A x \in W : x \in V \/ x = t
    /\ next2 \in [W -> SUBSET W] /\ next2[t] = {}
    /\ \A x \in V : next2[x] = IF x \in P THEN next[x] \cup {t} ELSE next[x]
    /\ prev2 \in [W -> SUBSET W] /\ prev2[t] = P /\ \A x \in V : prev2[x] = prev[x]

ExtendedReach(V, next, prev, t, P, W, next2, prev2) ==
    /\ Opposite(W, next2, prev2)
    /\ Reach(W, next2, {t}) = {t}
    /\ Reach(W, prev2, {t}) = {t} \cup Reach(V, prev, P)
    /\ \A k \in V : Reach(W, prev2, {k}) = Reach(V, prev, {k})
    /\ \A k \in V : Reach(W, next2, {k}) =
                       IF k \in Reach(V, prev, P) THEN Reach(V, next, {k}) \cup {t} ELSE Reach(V, next, {k})

(* The new vertex adds itself below its predecessors and nothing else.     *)
LEMMA ReachWith ==
    ASSUME NEW V, NEW next, NEW prev, NEW t, NEW P, NEW W, NEW next2, NEW prev2,
           Extended(V, next, prev, t, P, W, next2, prev2)
    PROVE  ExtendedReach(V, next, prev, t, P, W, next2, prev2)
    <1> USE DEF Extended
    <1>0. prev \in [V -> SUBSET V] /\ next \in [V -> SUBSET V]
      BY DEF Opposite
    <1>1. Opposite(W, next2, prev2)
      <2>1. ASSUME NEW x \in W, NEW y \in W PROVE y \in next2[x] <=> x \in prev2[y]
        <3>1. CASE x = t
          <4>1. y \in V => t \notin prev[y]
            BY <1>0
          <4>2. QED
            BY <3>1, <4>1
        <3>2. CASE x \in V /\ y = t
          <4>1. t \notin next[x]
            BY <1>0, <3>2
          <4>2. QED
            BY <3>2, <4>1
        <3>3. CASE x \in V /\ y \in V
          <4>1. prev2[y] = prev[y] /\ (y \in next[x] <=> x \in prev[y]) /\ y # t
            BY <3>3 DEF Opposite
          <4>2. y \in next2[x] <=> y \in next[x]
            BY <3>3, <4>1
          <4>3. QED
            BY <4>1, <4>2
        <3>4. QED
          BY <3>1, <3>2, <3>3
      <2>2. QED
        BY <2>1 DEF Opposite
    <1>2. /\ V \in SUBSET W /\ \A x \in W \ V : next2[x] \cap V = {}
          /\ \A x \in V : next[x] = next2[x] \cap V
          /\ \A x \in V : prev[x] = prev2[x] \cap V
      BY <1>0
    <1>3. /\ \A k \in V : Reach(V, next, {k}) = Reach(W, next2, {k}) \cap V
          /\ \A k \in V : Reach(V, prev, {k}) = Reach(W, prev2, {k})
      <2>1. Inside(W, next2, prev2, V, next, prev)
        BY <1>0, <1>1, <1>2 DEF Inside
      <2>2. QED
        BY <2>1, ReachWithin
    <1>4. Reach(W, next2, {t}) = {t}
      <2> DEFINE T == {t}
                 R2 == Reach(W, next2, {t})
      <2>1. t \in T /\ \A x \in W \cap T : next2[x] \subseteq T
        OBVIOUS
      <2>2. R2 \subseteq T
        <3> HIDE DEF T
        <3>1. QED
          BY <2>1, ReachOneLeast
      <2>3. t \in R2
        BY ReachOne
      <2>4. QED
        BY <2>2, <2>3
    <1>5. Reach(W, prev2, {t}) = {t} \cup Reach(V, prev, P)
      <2> DEFINE R == Reach(V, prev, P)
                 R2 == Reach(W, prev2, {t})
      <2>1. P \subseteq R /\ R \subseteq V /\ \A x \in R : prev[x] \subseteq R
        BY <1>0, ReachIs
      <2>2. t \in R2 /\ R2 \subseteq W /\ \A x \in R2 : prev2[x] \subseteq R2
        BY ReachOne
      <2>3. R2 \subseteq {t} \cup R
        <3> HIDE DEF R
        <3> DEFINE T == {t} \cup R
        <3>1. t \in T /\ \A x \in W \cap T : prev2[x] \subseteq T
          BY <2>1
        <3> HIDE DEF T
        <3>2. R2 \subseteq T
          BY <3>1, ReachOneLeast
        <3>3. QED
          BY <3>2 DEF T
      <2>4. R \subseteq R2
        <3>1. P \subseteq R2 /\ \A x \in V \cap R2 : prev[x] \subseteq R2
          BY <2>2
        <3> HIDE DEF R2
        <3>2. QED
          BY <1>0, <3>1, ReachLeast
      <2>5. QED
        BY <2>2, <2>3, <2>4
    <1>6. ASSUME NEW k \in V PROVE t \in Reach(W, next2, {k}) <=> k \in Reach(V, prev, P)
      <2>1. k \in W /\ k # t
        OBVIOUS
      <2>2. t \in Reach(W, next2, {k}) <=> k \in Reach(W, prev2, {t})
        BY <1>1, <2>1, ReachDual
      <2>3. QED
        BY <1>5, <2>1, <2>2
    <1>7. ASSUME NEW k \in V
          PROVE  Reach(W, next2, {k}) = IF k \in Reach(V, prev, P) THEN Reach(V, next, {k}) \cup {t}
                                        ELSE Reach(V, next, {k})
      <2>1. k \in W
        OBVIOUS
      <2>2. Reach(W, next2, {k}) \subseteq W
        BY <2>1, ReachOne
      <2>3. Reach(V, next, {k}) = Reach(W, next2, {k}) \cap V
        BY <1>3
      <2> DEFINE R2 == Reach(W, next2, {k})
                 R == Reach(V, next, {k})
      <2>4. t \in R2 <=> k \in Reach(V, prev, P)
        BY <1>6
      <2>5. QED
        BY <2>2, <2>3, <2>4
    <1>8. QED
      BY <1>1, <1>3, <1>4, <1>5, <1>7 DEF ExtendedReach

(* A vertex reaches itself and what its successors reach.                  *)
LEMMA ReachStep ==
    ASSUME NEW V, NEW next \in [V -> SUBSET V], NEW k \in V
    PROVE  Reach(V, next, {k}) = {k} \cup Reach(V, next, next[k])
    <1> DEFINE R == Reach(V, next, {k})
               N == Reach(V, next, next[k])
               T == {k} \cup N
    <1>1. k \in R /\ R \subseteq V /\ \A x \in R : next[x] \subseteq R
      BY ReachOne
    <1>2. next[k] \subseteq N /\ N \subseteq V /\ \A x \in N : next[x] \subseteq N
      BY ReachIs
    <1>3. k \in T /\ \A x \in V \cap T : next[x] \subseteq T
      BY <1>2
    <1>4. R \subseteq T
      <2> HIDE DEF T
      <2>1. QED
        BY <1>3, ReachOneLeast
    <1>5. N \subseteq R
      <2> HIDE DEF R
      <2>1. next[k] \subseteq R /\ next[k] \subseteq V /\ \A x \in V \cap R : next[x] \subseteq R
        BY <1>1
      <2>2. QED
        BY <2>1, ReachLeast
    <1>6. QED
      BY <1>1, <1>4, <1>5

(* With new edges from t to the vertices of K, which do not lead to t.     *)
Joined(V, next, prev, t, K, next2, prev2) ==
    /\ Opposite(V, next, prev) /\ t \in V /\ K \in SUBSET V /\ t \notin Reach(V, next, K)
    /\ next2 \in [V -> SUBSET V] /\ next2[t] = next[t] \cup K /\ \A x \in V \ {t} : next2[x] = next[x]
    /\ prev2 \in [V -> SUBSET V] /\ \A x \in V : prev2[x] = IF x \in K THEN prev[x] \cup {t} ELSE prev[x]

JoinedReach(V, next, prev, t, K, next2, prev2) ==
    /\ Opposite(V, next2, prev2)
    /\ \A x \in V : Reach(V, next2, {x}) = IF t \in Reach(V, next, {x})
                        THEN Reach(V, next, {x}) \cup Reach(V, next, K) ELSE Reach(V, next, {x})
    /\ \A x \in V : Reach(V, prev2, {x}) = IF x \in Reach(V, next, K)
                        THEN Reach(V, prev, {x}) \cup Reach(V, prev, {t}) ELSE Reach(V, prev, {x})

(* The new edges bring what K reaches under whatever reaches t.            *)
LEMMA ReachJoined ==
    ASSUME NEW V, NEW next, NEW prev, NEW t, NEW K, NEW next2, NEW prev2,
           Joined(V, next, prev, t, K, next2, prev2)
    PROVE  JoinedReach(V, next, prev, t, K, next2, prev2)
    <1> USE DEF Joined
    <1>0. prev \in [V -> SUBSET V] /\ next \in [V -> SUBSET V]
      BY DEF Opposite
    <1>1. Opposite(V, next2, prev2)
      <2>1. ASSUME NEW x \in V, NEW y \in V PROVE y \in next2[x] <=> x \in prev2[y]
        <3>1. y \in next[x] <=> x \in prev[y]
          BY DEF Opposite
        <3>2. y \in next2[x] <=> y \in next[x] \/ (x = t /\ y \in K)
          OBVIOUS
        <3>3. x \in prev2[y] <=> x \in prev[y] \/ (x = t /\ y \in K)
          OBVIOUS
        <3>4. QED
          BY <3>1, <3>2, <3>3
      <2>2. QED
        BY <2>1 DEF Opposite
    <1> DEFINE N == Reach(V, next, K)
    <1>2. K \subseteq N /\ N \subseteq V /\ \A x \in N : next[x] \subseteq N
      BY <1>0, ReachIs
    <1> HIDE DEF N
    <1>3. ASSUME NEW x \in V
          PROVE  Reach(V, next2, {x}) = IF t \in Reach(V, next, {x})
                     THEN Reach(V, next, {x}) \cup N ELSE Reach(V, next, {x})
      <2> DEFINE R == Reach(V, next, {x})
                 R2 == Reach(V, next2, {x})
                 T == IF t \in R THEN R \cup N ELSE R
      <2>1. x \in R /\ R \subseteq V /\ \A y \in R : next[y] \subseteq R
        BY <1>0, ReachOne
      <2>2. x \in R2 /\ R2 \subseteq V /\ \A y \in R2 : next2[y] \subseteq R2
        BY ReachOne
      <2> HIDE DEF R, R2
      <2>3. x \in T /\ \A y \in V \cap T : next2[y] \subseteq T
        <3>1. ASSUME NEW y \in R PROVE next2[y] \subseteq T
          <4>1. CASE y = t
            <5>1. next2[t] = next[t] \cup K /\ next[t] \subseteq R /\ K \subseteq N
              BY <1>2, <2>1, <4>1
            <5>2. QED
              BY <4>1, <5>1
          <4>2. CASE y # t
            <5>1. next2[y] = next[y] /\ next[y] \subseteq R
              BY <2>1, <4>2
            <5>2. QED
              BY <5>1
          <4>3. QED
            BY <4>1, <4>2
        <3>2. ASSUME NEW y \in N, t \in R PROVE next2[y] \subseteq T
          <4>1. y # t
            BY DEF N
          <4>2. next2[y] = next[y] /\ next[y] \subseteq N
            BY <1>2, <4>1
          <4>3. QED
            BY <3>2, <4>2
        <3>3. QED
          BY <2>1, <3>1, <3>2
      <2>4. R2 \subseteq T
        <3> HIDE DEF T
        <3>1. QED
          BY <2>3, ReachOneLeast DEF R2
      <2>5. R \subseteq R2
        <3>1. \A y \in V \cap R2 : next[y] \subseteq R2
          <4>1. ASSUME NEW y \in R2 PROVE next[y] \subseteq next2[y]
            BY <2>2
          <4>2. QED
            BY <2>2, <4>1
        <3>2. QED
          BY <1>0, <2>2, <3>1, ReachOneLeast DEF R
      <2>6. t \in R => N \subseteq R2
        <3>1. SUFFICES ASSUME t \in R PROVE N \subseteq R2
          OBVIOUS
        <3>2. K \subseteq R2
          BY <2>2, <2>5, <3>1
        <3>3. \A y \in V \cap R2 : next[y] \subseteq R2
          <4>1. ASSUME NEW y \in R2 PROVE next[y] \subseteq next2[y]
            BY <2>2
          <4>2. QED
            BY <2>2, <4>1
        <3>4. QED
          BY <1>0, <3>2, <3>3, ReachLeast DEF N
      <2>7. R2 = T
        BY <2>4, <2>5, <2>6
      <2>8. QED
        BY <2>7 DEF R, R2
    <1>4. ASSUME NEW x \in V
          PROVE  Reach(V, prev2, {x}) = IF x \in N THEN Reach(V, prev, {x}) \cup Reach(V, prev, {t})
                                        ELSE Reach(V, prev, {x})
      <2>1. Reach(V, prev2, {x}) \subseteq V /\ Reach(V, prev, {x}) \subseteq V /\ Reach(V, prev, {t}) \subseteq V
        BY <1>0, ReachOne
      <2>2. ASSUME NEW y \in V
            PROVE  y \in Reach(V, prev2, {x}) <=>
                      y \in Reach(V, prev, {x}) \/ (x \in N /\ y \in Reach(V, prev, {t}))
        <3>1. y \in Reach(V, prev2, {x}) <=> x \in Reach(V, next2, {y})
          BY <1>1, ReachDual
        <3>2. y \in Reach(V, prev, {x}) <=> x \in Reach(V, next, {y})
          BY ReachDual
        <3>3. y \in Reach(V, prev, {t}) <=> t \in Reach(V, next, {y})
          BY ReachDual
        <3>4. QED
          BY <1>3, <3>1, <3>2, <3>3
      <2>3. QED
        BY <2>1, <2>2
    <1>5. QED
      BY <1>1, <1>3, <1>4 DEF N, JoinedReach

-----------------------------------------------------------------------------
(* The loops.  One turn of each: k says which, x is the element it is at.  *)
RemoveConflict(q, t, o) ==
    IF o \notin DOMAIN q.mapNextTx THEN q
    ELSE LET c == q.mapNextTx[o] IN IF c = t THEN q ELSE removeRecursive(ClearPrioritisation(q, c), c)
TrimOnce(q) ==
    IF Cardinality(InPool(q)) <= MaxMempool THEN {q}
    ELSE {RemoveStaged(q, CalculateDescendants(q, {t}), FALSE) : t \in Cheapest(q)}
Turn(k, q, x) ==
    CASE k[1] = "conflicts" -> RemoveConflict(q, k[2], x)
      [] k[1] = "confirmed" -> removeConfirmed(q, x)
      [] k[1] = "recursive" -> removeRecursive(q, x)
      [] k[1] = "update" -> UpdateForDescendants(q, x, k[2])
      [] k[1] = "prioritise" -> PrioritiseTransaction(q, x, k[2][x])
      [] k[1] = "queue" -> IF x \in ToSet(k[2]) THEN q ELSE Append(q, x)
      [] k[1] = "trim" -> UNION {TrimOnce(r) : r \in q}
      [] k[1] = "parents" -> q \cup UNION {k[2][t].parents : t \in q}
      [] k[1] = "children" -> q \cup UNION {k[2][t].children : t \in q}

(* The recursion of the folds: ch says which element comes last.           *)
Turns(g, U, ch, k, f, base) ==
    g = [s \in SUBSET U |-> IF s = {} THEN base ELSE Turn(k, g[s \ {ch[s]}], f[ch[s]])]

(* It has a solution, one cardinality after the other.                     *)
LEMMA TurnsExist ==
    ASSUME NEW U, IsFiniteSet(U), NEW ch, \A s \in SUBSET U : s # {} => ch[s] \in s, NEW k, NEW f, NEW base
    PROVE  \E g : Turns(g, U, ch, k, f, base)
    <1> DEFINE D(n) == {s \in SUBSET U : Cardinality(s) <= n}
               Step(g, s) == IF s = {} THEN base ELSE Turn(k, g[s \ {ch[s]}], f[ch[s]])
               Solved(n) == \E g : g = [s \in D(n) |-> Step(g, s)]
               Bad == {n \in Nat : ~Solved(n)}
    <1> HIDE DEF Solved
    <1>1. Bad = {}
      <2>1. SUFFICES ASSUME Bad # {} PROVE FALSE
        OBVIOUS
      <2>2. PICK n \in Bad : \A m \in Bad : n <= m
        BY <2>1, LeastNat
      <2>3. n # 0
        <3>1. D(0) = {{}}
          <4>1. {} \in D(0)
            BY FS_EmptySet
          <4>2. ASSUME NEW s \in D(0) PROVE s = {}
            <5>1. IsFiniteSet(s)
              BY FS_Subset
            <5>2. Cardinality(s) = 0
              BY <5>1, FS_CardinalityType
            <5>3. QED
              BY <5>1, <5>2, FS_EmptySet
          <4>3. QED
            BY <4>1, <4>2
        <3>2. [s \in D(0) |-> base] = [s \in D(0) |-> Step([r \in D(0) |-> base], s)]
          BY <3>1
        <3>3. Solved(0)
          BY <3>2, Zenon DEF Solved
        <3>4. QED
          BY <3>3, <2>2
      <2>4. PICK g : g = [s \in D(n - 1) |-> Step(g, s)]
        <3>1. n - 1 \in Nat /\ n - 1 \notin Bad
          BY <2>2, <2>3
        <3>2. Solved(n - 1)
          BY <3>1
        <3>3. QED
          BY <3>2, Zenon DEF Solved
      <2> DEFINE h == [s \in D(n) |-> Step(g, s)]
      <2>5. ASSUME NEW s \in D(n) PROVE Step(h, s) = Step(g, s)
        <3>1. CASE s = {}
          BY <3>1
        <3>2. CASE s # {}
          <4>1. ch[s] \in s
            BY <3>2
          <4>2. s \ {ch[s]} \in D(n - 1)
            BY <4>1, FS_Subset, FS_RemoveElement, FS_CardinalityType, <2>5
          <4>3. s \ {ch[s]} \in D(n)
            BY <4>1, FS_Subset, FS_RemoveElement, FS_CardinalityType, <2>5
          <4>4. h[s \ {ch[s]}] = g[s \ {ch[s]}]
            BY <4>2, <4>3, <2>4
          <4>5. QED
            BY <4>4
        <3>3. QED
          BY <3>1, <3>2
      <2>6. h = [s \in D(n) |-> Step(h, s)]
        BY <2>5
      <2>7. QED
        BY <2>6, <2>2 DEF Solved
    <1>2. Cardinality(U) \in Nat
      BY FS_CardinalityType
    <1>3. D(Cardinality(U)) = SUBSET U
      BY FS_Subset
    <1>4. PICK g : g = [s \in D(Cardinality(U)) |-> Step(g, s)]
      <2>1. Solved(Cardinality(U))
        BY <1>1, <1>2
      <2>2. QED
        BY <2>1, Zenon DEF Solved
    <1>5. QED
      BY <1>3, <1>4 DEF Turns

(* The greatest of some numbers.                                           *)
Greatest(n) == [s \in SUBSET (1..n) |-> Max(s)]

(* The greatest index is in its set, and is the bound of an interval.      *)
LEMMA MaxUpTo ==
    ASSUME NEW n \in Nat
    PROVE  /\ IsFiniteSet(1..n) /\ \A s \in SUBSET (1..n) : s # {} => Greatest(n)[s] \in s
           /\ \A i \in 1..n : Greatest(n)[1..i] = i
    <1>1. IsFiniteSet(1..n)
      BY FS_Interval
    <1>2. ASSUME NEW s \in SUBSET (1..n), s # {} PROVE Max(s) \in s /\ \A y \in s : Max(s) >= y
      <2> DEFINE T == {m \in Nat : \E y \in s : m = n - y}
      <2>1. T \in SUBSET Nat /\ T # {}
        <3>1. PICK y \in s : TRUE
          BY <1>2
        <3>2. n - y \in T
          BY <3>1
        <3>3. QED
          BY <3>2
      <2>2. PICK m \in T : \A j \in T : m <= j
        <3> HIDE DEF T
        <3>1. QED
          BY <2>1, LeastNat
      <2>3. PICK y \in s : m = n - y
        OBVIOUS
      <2>4. ASSUME NEW z \in s PROVE y >= z
        <3>1. n - z \in T
          OBVIOUS
        <3>2. QED
          BY <2>2, <2>3, <3>1
      <2>5. \E x \in s : \A z \in s : x >= z
        BY <2>4
      <2>6. QED
        BY <2>5 DEF Max
    <1>3. ASSUME NEW i \in 1..n PROVE Max(1..i) = i
      <2>1. 1..i \in SUBSET (1..n) /\ i \in 1..i
        OBVIOUS
      <2>2. Max(1..i) \in 1..i /\ Max(1..i) >= i
        BY <1>2, <2>1
      <2>3. QED
        BY <2>2
    <1>4. QED
      BY <1>1, <1>2, <1>3 DEF Greatest

(* A loop over the numbers up to n.                                        *)
Steps(h, n, k, f, base) == h[0] = base /\ \A i \in 1..n : h[i] = Turn(k, h[i - 1], f[i])

(* A fold over the intervals of a sequence takes one turn at each index.   *)
LEMMA TurnsStep ==
    ASSUME NEW n \in Nat, NEW k, NEW f, NEW base, NEW g, Turns(g, 1..n, Greatest(n), k, f, base)
    PROVE  \E h : h = [i \in 0..n |-> g[1..i]] /\ Steps(h, n, k, f, base)
    <1> DEFINE h == [i \in 0..n |-> g[1..i]]
    <1>1. h[0] = base
      <2>1. 1..0 = {}
        OBVIOUS
      <2>2. g[{}] = base
        BY DEF Turns
      <2>3. QED
        BY <2>1, <2>2
    <1>2. ASSUME NEW i \in 1..n PROVE h[i] = Turn(k, h[i - 1], f[i])
      <2>1. 1..i \in SUBSET (1..n) /\ 1..i # {} /\ (1..i) \ {i} = 1..(i - 1) /\ i - 1 \in 0..n
        OBVIOUS
      <2>2. Greatest(n)[1..i] = i
        BY MaxUpTo
      <2>3. g[1..i] = Turn(k, g[(1..i) \ {i}], f[i])
        BY <2>1, <2>2 DEF Turns
      <2>4. i \in 0..n /\ \A j \in 0..n : h[j] = g[1..j]
        OBVIOUS
      <2> HIDE DEF h
      <2>5. h[i] = g[1..i] /\ h[i - 1] = g[1..(i - 1)]
        BY <2>1, <2>4, Zenon
      <2>6. QED
        BY <2>1, <2>3, <2>5, Zenon
    <1>3. QED
      BY <1>1, <1>2 DEF Steps

(* A loop over a sequence takes its turns one after the other.             *)
LEMMA StepsExist ==
    ASSUME NEW n \in Nat, NEW k, NEW f, NEW base
    PROVE  \E h : DOMAIN h = 0..n /\ h = [i \in 0..n |-> h[i]] /\ Steps(h, n, k, f, base)
    <1>1. PICK g : Turns(g, 1..n, Greatest(n), k, f, base)
      BY MaxUpTo, TurnsExist
    <1>2. PICK h : h = [i \in 0..n |-> g[1..i]] /\ Steps(h, n, k, f, base)
      BY <1>1, TurnsStep
    <1>3. QED
      BY <1>2

(* Induction: a number is reached one by one.                              *)
LEMMA UpTo ==
    ASSUME NEW n \in Nat, NEW T, 0 \in T, \A i \in 1..n : i - 1 \in T => i \in T
    PROVE  0..n \subseteq T
    <1> DEFINE Bad == {i \in 0..n : i \notin T}
    <1>1. SUFFICES ASSUME Bad # {} PROVE FALSE
      OBVIOUS
    <1>2. PICK i \in Bad : \A j \in Bad : i <= j
      <2>1. Bad \in SUBSET Nat
        OBVIOUS
      <2> HIDE DEF Bad
      <2>2. QED
        BY <1>1, <2>1, LeastNat
    <1>3. i # 0 /\ i - 1 \in 0..n /\ i - 1 \notin Bad
      BY <1>2
    <1>4. QED
      BY <1>2, <1>3

-----------------------------------------------------------------------------
(* As many rounds as there are vertices reach everything.                  *)
LEMMA Growth ==
    ASSUME NEW V, IsFiniteSet(V), NEW next \in [V -> SUBSET V], NEW S \in SUBSET V,
           NEW h, h[0] = S,
           \A i \in 1..Cardinality(V) : h[i - 1] \subseteq V =>
               h[i] = h[i - 1] \cup UNION {next[t] : t \in h[i - 1]}
    PROVE  h[Cardinality(V)] = Reach(V, next, S)
    <1> DEFINE n == Cardinality(V)
               R == Reach(V, next, S)
               Closed(A) == \A x \in A : next[x] \subseteq A
               T == {i \in 0..n : S \subseteq h[i] /\ h[i] \subseteq R /\ (Closed(h[i]) \/ Cardinality(h[i]) >= i)}
    <1>0. n \in Nat
      BY FS_CardinalityType
    <1>1. S \subseteq R /\ R \subseteq V /\ \A x \in R : next[x] \subseteq R
      BY ReachIs
    <1> HIDE DEF R, n
    <1>2. 0 \in T
      <2>1. IsFiniteSet(S)
        BY FS_Subset
      <2>2. Cardinality(S) >= 0
        BY <2>1, FS_CardinalityType
      <2>3. QED
        BY <1>0, <1>1, <2>2
    <1>3. ASSUME NEW i \in 1..n, i - 1 \in T PROVE i \in T
      <2> DEFINE A == h[i - 1]
                 B == h[i]
      <2>1. S \subseteq A /\ A \subseteq R /\ A \subseteq V /\ (Closed(A) \/ Cardinality(A) >= i - 1)
        BY <1>1, <1>3
      <2>2. B = A \cup UNION {next[t] : t \in A}
        BY <2>1 DEF n
      <2> HIDE DEF A, B
      <2>3. A \subseteq B /\ B \subseteq R
        BY <1>1, <2>1, <2>2
      <2>4. IsFiniteSet(A) /\ IsFiniteSet(B)
        BY <1>1, <2>1, <2>3, FS_Subset
      <2>5. CASE Closed(A)
        <3>1. B = A
          BY <2>2, <2>5
        <3>2. Closed(B)
          BY <2>5, <3>1
        <3>3. QED
          BY <1>0, <2>1, <2>3, <3>2 DEF B
      <2>6. CASE ~Closed(A)
        <3>0. PICK x \in A : ~(next[x] \subseteq A)
          BY <2>6
        <3>1. PICK u \in next[x] : u \notin A
          BY <3>0
        <3>2. u \in B
          BY <2>2, <3>1
        <3>3. Cardinality(A \cup {u}) = Cardinality(A) + 1 /\ IsFiniteSet(A \cup {u})
          BY <2>4, <3>1, FS_AddElement
        <3>4. A \cup {u} \subseteq B
          BY <2>3, <3>2
        <3>5. Cardinality(A \cup {u}) <= Cardinality(B)
          BY <2>4, <3>4, FS_Subset
        <3>6. Cardinality(A) \in Nat /\ Cardinality(B) \in Nat
          BY <2>4, FS_CardinalityType
        <3>7. Cardinality(B) >= i
          BY <2>1, <2>6, <3>3, <3>5, <3>6
        <3>8. QED
          BY <1>0, <2>1, <2>3, <3>7 DEF B
      <2>7. QED
        BY <2>5, <2>6
    <1>4. n \in T
      <2> HIDE DEF T
      <2>1. 0..n \subseteq T
        BY <1>0, <1>2, <1>3, UpTo
      <2>2. QED
        BY <1>0, <2>1
    <1>5. Closed(h[n])
      <2>1. h[n] \subseteq V /\ IsFiniteSet(h[n])
        BY <1>1, <1>4, FS_Subset
      <2>2. CASE Cardinality(h[n]) >= n
        <3>1. Cardinality(h[n]) \in Nat /\ Cardinality(h[n]) <= n
          BY <2>1, FS_Subset, FS_CardinalityType DEF n
        <3>2. h[n] = V
          BY <2>1, <2>2, <3>1, <1>0, FS_Subset DEF n
        <3>3. QED
          BY <3>2
      <2>3. QED
        BY <1>4, <2>2
    <1>6. R \subseteq h[n]
      <2> DEFINE A == h[n]
      <2>1. S \subseteq A /\ \A x \in V \cap A : next[x] \subseteq A
        BY <1>4, <1>5
      <2> HIDE DEF A
      <2>2. R \subseteq A
        BY <2>1, ReachLeast DEF R
      <2>3. QED
        BY <2>2 DEF A
    <1>7. QED
      BY <1>4, <1>6 DEF n, R

(* The pool is finite, and its links lead both ways.                       *)
LEMMA PoolGraph ==
    ASSUME NEW q, WellFormed(q)
    PROVE  /\ IsFiniteSet(InPool(q)) /\ Opposite(InPool(q), Children(q), Parents(q))
           /\ Opposite(InPool(q), Parents(q), Children(q))
           /\ Parents(q) \in [InPool(q) -> SUBSET InPool(q)]
           /\ Children(q) \in [InPool(q) -> SUBSET InPool(q)]
    <1>1. IsFiniteSet(InPool(q))
      BY TxAssumption, FS_Subset DEF WellFormed
    <1>2. /\ Parents(q) \in [InPool(q) -> SUBSET InPool(q)]
          /\ Children(q) \in [InPool(q) -> SUBSET InPool(q)]
      BY DEF WellFormed, Parents, Children
    <1>3. \A t, u \in InPool(q) : u \in Children(q)[t] <=> t \in Parents(q)[u]
      BY DEF WellFormed
    <1>4. QED
      BY <1>1, <1>2, <1>3 DEF Opposite

(* CalculateDescendants and CalculateAncestors find what can be reached.   *)
LEMMA DescendantsAre ==
    ASSUME NEW q, WellFormed(q), NEW S \in SUBSET InPool(q)
    PROVE  CalculateDescendants(q, S) = Reach(InPool(q), Children(q), S)
    <1> DEFINE n == Cardinality(InPool(q))
               V == InPool(q)
               k == <<"children", q.mapLinks>>
               within == CHOOSE w : w = [i \in 0..n |->
                            IF i = 0 THEN S ELSE w[i - 1] \cup UNION {q.mapLinks[t].children : t \in w[i - 1]}]
    <1>1. n \in Nat
      BY PoolGraph, FS_CardinalityType
    <1>2. PICK h : h = [i \in 0..n |-> h[i]] /\ Steps(h, n, k, S, S)
      <2> HIDE DEF n, k
      <2>1. QED
        BY <1>1, StepsExist
    <1>3. \E w : w = [i \in 0..n |->
                IF i = 0 THEN S ELSE w[i - 1] \cup UNION {q.mapLinks[t].children : t \in w[i - 1]}]
      <2> HIDE DEF n
      <2>1. ASSUME NEW i \in 0..n
            PROVE  h[i] = IF i = 0 THEN S ELSE h[i - 1] \cup UNION {q.mapLinks[t].children : t \in h[i - 1]}
        <3>1. CASE i = 0
          BY <1>2, <3>1 DEF Steps
        <3>2. CASE i # 0
          <4>1. h[i] = Turn(k, h[i - 1], S[i])
            <5> HIDE DEF k
            <5>1. i \in 1..n
              BY <1>1, <3>2
            <5>2. QED
              BY <1>2, <5>1, Zenon DEF Steps
          <4>2. QED
            BY <3>2, <4>1 DEF Turn
        <3>3. QED
          BY <3>1, <3>2
      <2>2. h = [i \in 0..n |-> IF i = 0 THEN S ELSE h[i - 1] \cup UNION {q.mapLinks[t].children : t \in h[i - 1]}]
        BY <1>2, <2>1
      <2>3. QED
        BY <2>2
    <1>4. within = [i \in 0..n |->
              IF i = 0 THEN S ELSE within[i - 1] \cup UNION {q.mapLinks[t].children : t \in within[i - 1]}]
      BY <1>3, Zenon
    <1>5. CalculateDescendants(q, S) = within[n]
      BY DEF CalculateDescendants, Closure
    <1> HIDE DEF within
    <1>6. ASSUME NEW i \in 1..n, within[i - 1] \subseteq V
          PROVE  within[i] = within[i - 1] \cup UNION {Children(q)[t] : t \in within[i - 1]}
      <2>1. i \in 0..n /\ i # 0
        BY <1>1
      <2>2. within[i] = within[i - 1] \cup UNION {q.mapLinks[t].children : t \in within[i - 1]}
        BY <1>4, <2>1
      <2>3. \A t \in within[i - 1] : q.mapLinks[t].children = Children(q)[t]
        BY <1>6 DEF Children
      <2>4. QED
        BY <2>2, <2>3
    <1>7. within[0] = S
      BY <1>1, <1>4
    <1>8. within[Cardinality(V)] = Reach(V, Children(q), S)
      <2> HIDE DEF V
      <2>1. IsFiniteSet(V) /\ Children(q) \in [V -> SUBSET V] /\ S \in SUBSET V
        BY PoolGraph DEF V
      <2>2. \A i \in 1..Cardinality(V) : within[i - 1] \subseteq V =>
               within[i] = within[i - 1] \cup UNION {Children(q)[t] : t \in within[i - 1]}
        BY <1>6 DEF V
      <2>3. QED
        BY <1>7, <2>1, <2>2, Growth
    <1>9. QED
      BY <1>5, <1>8

(* CalculateAncestors follows the links to parents in the same way.        *)
LEMMA AncestorsAre ==
    ASSUME NEW q, WellFormed(q), NEW S \in SUBSET InPool(q)
    PROVE  CalculateAncestors(q, S) = Reach(InPool(q), Parents(q), S)
    <1> DEFINE n == Cardinality(InPool(q))
               V == InPool(q)
               k == <<"parents", q.mapLinks>>
               within == CHOOSE w : w = [i \in 0..n |->
                            IF i = 0 THEN S ELSE w[i - 1] \cup UNION {q.mapLinks[t].parents : t \in w[i - 1]}]
    <1>1. n \in Nat
      BY PoolGraph, FS_CardinalityType
    <1>2. PICK h : h = [i \in 0..n |-> h[i]] /\ Steps(h, n, k, S, S)
      <2> HIDE DEF n, k
      <2>1. QED
        BY <1>1, StepsExist
    <1>3. \E w : w = [i \in 0..n |->
                IF i = 0 THEN S ELSE w[i - 1] \cup UNION {q.mapLinks[t].parents : t \in w[i - 1]}]
      <2> HIDE DEF n
      <2>1. ASSUME NEW i \in 0..n
            PROVE  h[i] = IF i = 0 THEN S ELSE h[i - 1] \cup UNION {q.mapLinks[t].parents : t \in h[i - 1]}
        <3>1. CASE i = 0
          BY <1>2, <3>1 DEF Steps
        <3>2. CASE i # 0
          <4>1. h[i] = Turn(k, h[i - 1], S[i])
            <5> HIDE DEF k
            <5>1. i \in 1..n
              BY <1>1, <3>2
            <5>2. QED
              BY <1>2, <5>1, Zenon DEF Steps
          <4>2. QED
            BY <3>2, <4>1 DEF Turn
        <3>3. QED
          BY <3>1, <3>2
      <2>2. h = [i \in 0..n |-> IF i = 0 THEN S ELSE h[i - 1] \cup UNION {q.mapLinks[t].parents : t \in h[i - 1]}]
        BY <1>2, <2>1
      <2>3. QED
        BY <2>2
    <1>4. within = [i \in 0..n |->
              IF i = 0 THEN S ELSE within[i - 1] \cup UNION {q.mapLinks[t].parents : t \in within[i - 1]}]
      BY <1>3, Zenon
    <1>5. CalculateAncestors(q, S) = within[n]
      BY DEF CalculateAncestors, Closure
    <1> HIDE DEF within
    <1>6. ASSUME NEW i \in 1..n, within[i - 1] \subseteq V
          PROVE  within[i] = within[i - 1] \cup UNION {Parents(q)[t] : t \in within[i - 1]}
      <2>1. i \in 0..n /\ i # 0
        BY <1>1
      <2>2. within[i] = within[i - 1] \cup UNION {q.mapLinks[t].parents : t \in within[i - 1]}
        BY <1>4, <2>1
      <2>3. \A t \in within[i - 1] : q.mapLinks[t].parents = Parents(q)[t]
        BY <1>6 DEF Parents
      <2>4. QED
        BY <2>2, <2>3
    <1>7. within[0] = S
      BY <1>1, <1>4
    <1>8. within[Cardinality(V)] = Reach(V, Parents(q), S)
      <2> HIDE DEF V
      <2>1. IsFiniteSet(V) /\ Parents(q) \in [V -> SUBSET V] /\ S \in SUBSET V
        BY PoolGraph DEF V
      <2>2. \A i \in 1..Cardinality(V) : within[i - 1] \subseteq V =>
               within[i] = within[i - 1] \cup UNION {Parents(q)[t] : t \in within[i - 1]}
        BY <1>6 DEF V
      <2>3. QED
        BY <1>7, <2>1, <2>2, Growth
    <1>9. QED
      BY <1>5, <1>8


-----------------------------------------------------------------------------
(* Fees and numbers of entries.                                            *)
FeeMap(q) == [t \in InPool(q) |-> ModifiedFee(q, t)]

(* FeesOf is a sum of natural numbers.                                     *)
LEMMA FeesAre ==
    ASSUME NEW q, WellFormed(q), NEW S \in SUBSET InPool(q)
    PROVE  /\ IsFiniteSet(S) /\ FeesOf(q, S) = SumOn(FeeMap(q), S) /\ FeesOf(q, S) \in Nat
           /\ \A t \in InPool(q) : FeeMap(q)[t] = ModifiedFee(q, t) /\ ModifiedFee(q, t) \in Nat
    <1> DEFINE f == FeeMap(q)
               iter == CHOOSE g : g = [s \in SUBSET S |->
                          IF s = {} THEN 0 ELSE ModifiedFee(q, CHOOSE x \in s : TRUE) + g[s \ {CHOOSE x \in s : TRUE}]]
    <1>1. \A t \in InPool(q) : f[t] = ModifiedFee(q, t) /\ ModifiedFee(q, t) \in Nat
      BY TxAssumption DEF FeeMap, ModifiedFee, WellFormed, Entry
    <1>2. IsFiniteSet(S)
      BY PoolGraph, FS_Subset
    <1> HIDE DEF f
    <1>3. PICK g : Sums(g, f, S) /\ SumOn(f, S) = g[S]
      BY <1>2, SumFollows
    <1>4. \A s \in SUBSET S : s # {} => f[CHOOSE x \in s : TRUE] = ModifiedFee(q, CHOOSE x \in s : TRUE)
      BY <1>1
    <1>5. g = [s \in SUBSET S |->
                 IF s = {} THEN 0 ELSE ModifiedFee(q, CHOOSE x \in s : TRUE) + g[s \ {CHOOSE x \in s : TRUE}]]
      BY <1>3, <1>4 DEF Sums, Pick
    <1>6. iter = [s \in SUBSET S |->
                 IF s = {} THEN 0 ELSE ModifiedFee(q, CHOOSE x \in s : TRUE) + iter[s \ {CHOOSE x \in s : TRUE}]]
      BY <1>5, Zenon
    <1>7. FeesOf(q, S) = iter[S]
      BY DEF FeesOf, MapThenSumSet, MapThenFoldSet
    <1> HIDE DEF iter
    <1>8. Sums(iter, f, S)
      BY <1>4, <1>6 DEF Sums, Pick
    <1>9. iter[S] = g[S]
      BY <1>2, <1>3, <1>8, SumsAgree
    <1>10. SumOn(f, S) \in Nat
      BY <1>1, <1>2, SumNat
    <1>11. QED
      BY <1>1, <1>2, <1>3, <1>7, <1>9, <1>10 DEF f

(* Without some, and with one more.                                        *)
LEMMA FeesWithout ==
    ASSUME NEW q, WellFormed(q), NEW S \in SUBSET InPool(q), NEW T \in SUBSET S
    PROVE  /\ FeesOf(q, S \ T) = FeesOf(q, S) - FeesOf(q, T)
           /\ Cardinality(S \ T) = Cardinality(S) - Cardinality(T)
           /\ FeesOf(q, S) \in Nat /\ FeesOf(q, T) \in Nat /\ Cardinality(S) \in Nat /\ Cardinality(T) \in Nat
    <1> DEFINE R == S \ T
    <1>1. /\ IsFiniteSet(S) /\ FeesOf(q, S) = SumOn(FeeMap(q), S) /\ FeesOf(q, S) \in Nat
          /\ \A t \in S : FeeMap(q)[t] \in Nat
      BY FeesAre
    <1>2. T \in SUBSET InPool(q) /\ R \in SUBSET InPool(q)
      OBVIOUS
    <1>3. FeesOf(q, T) = SumOn(FeeMap(q), T) /\ FeesOf(q, T) \in Nat /\ IsFiniteSet(T)
      BY <1>2, FeesAre
    <1>4. FeesOf(q, R) = SumOn(FeeMap(q), R) /\ FeesOf(q, R) \in Nat
      <2> HIDE DEF R
      <2>1. QED
        BY <1>2, FeesAre
    <1>5. SumOn(FeeMap(q), S) = SumOn(FeeMap(q), T) + SumOn(FeeMap(q), R)
      BY <1>1, SumSplit
    <1>6. Cardinality(R) = Cardinality(S) - Cardinality(S \cap T) /\ S \cap T = T
      BY <1>1, FS_Difference
    <1>7. Cardinality(S) \in Nat /\ Cardinality(T) \in Nat
      BY <1>1, <1>3, FS_CardinalityType
    <1>8. FeesOf(q, R) = FeesOf(q, S) - FeesOf(q, T)
      <2> HIDE DEF R
      <2>1. QED
        BY <1>1, <1>3, <1>4, <1>5
    <1>9. QED
      BY <1>1, <1>3, <1>6, <1>7, <1>8

(* Fees and counts of a set with one more entry.                           *)
LEMMA FeesWith ==
    ASSUME NEW q, WellFormed(q), NEW S \in SUBSET InPool(q), NEW t \in InPool(q), t \notin S
    PROVE  /\ FeesOf(q, S \cup {t}) = FeesOf(q, S) + ModifiedFee(q, t)
           /\ Cardinality(S \cup {t}) = Cardinality(S) + 1
           /\ FeesOf(q, S) \in Nat /\ ModifiedFee(q, t) \in Nat /\ Cardinality(S) \in Nat
    <1> DEFINE U == S \cup {t}
    <1>1. U \in SUBSET InPool(q) /\ t \in U /\ U \ {t} = S
      OBVIOUS
    <1>2. /\ IsFiniteSet(S) /\ FeesOf(q, S) = SumOn(FeeMap(q), S) /\ FeesOf(q, S) \in Nat
          /\ \A u \in InPool(q) : FeeMap(q)[u] = ModifiedFee(q, u) /\ ModifiedFee(q, u) \in Nat
      BY FeesAre
    <1>3. Cardinality(U) = Cardinality(S) + 1
      BY <1>2, FS_AddElement
    <1>4. IsFiniteSet(U) /\ FeesOf(q, U) = SumOn(FeeMap(q), U)
      <2> HIDE DEF U
      <2>1. QED
        BY <1>1, FeesAre
    <1>5. SumOn(FeeMap(q), U) = FeeMap(q)[t] + SumOn(FeeMap(q), S)
      <2>1. \A u \in U : FeeMap(q)[u] \in Nat
        BY <1>1, <1>2
      <2> HIDE DEF U
      <2>2. SumOn(FeeMap(q), U) = FeeMap(q)[t] + SumOn(FeeMap(q), U \ {t})
        BY <1>1, <1>4, <2>1, SumRemove
      <2>3. QED
        BY <1>1, <2>2
    <1>6. Cardinality(S) \in Nat
      BY <1>2, FS_CardinalityType
    <1>7. FeesOf(q, U) = FeesOf(q, S) + ModifiedFee(q, t)
      <2> HIDE DEF U
      <2>1. QED
        BY <1>2, <1>4, <1>5
    <1>8. QED
      BY <1>2, <1>3, <1>6, <1>7

(* Fees that did not change.                                               *)
LEMMA FeesSame ==
    ASSUME NEW q, WellFormed(q), NEW r, WellFormed(r), NEW S \in SUBSET InPool(q), S \subseteq InPool(r),
           \A t \in S : r.mapTx[t].delta = q.mapTx[t].delta
    PROVE  FeesOf(r, S) = FeesOf(q, S)
    <1>1. IsFiniteSet(S) /\ FeesOf(q, S) = SumOn(FeeMap(q), S)
      BY FeesAre
    <1>2. FeesOf(r, S) = SumOn(FeeMap(r), S)
      BY FeesAre
    <1>3. \A t \in S : FeeMap(r)[t] = FeeMap(q)[t]
      BY DEF FeeMap, ModifiedFee
    <1>4. SumOn(FeeMap(r), S) = SumOn(FeeMap(q), S)
      BY <1>1, <1>3, SumSame
    <1>5. QED
      BY <1>1, <1>2, <1>4

(* Nothing has no fees.                                                    *)
LEMMA FeesNone == ASSUME NEW q, WellFormed(q) PROVE FeesOf(q, {}) = 0 /\ Cardinality({}) = 0
    BY FeesAre, SumEmpty, FS_EmptySet

-----------------------------------------------------------------------------
(* The two ways to remove: with all that is below, or only what is named.  *)
Below == FALSE
Alone == TRUE

(* RemoveStaged.  What k stops counting as ancestors and as descendants.   *)
AncestorsLost(q, S, flag, k) == {x \in S : flag /\ k \in Reach(InPool(q), Children(q), {x})}
DescendantsLost(q, S, k) == {x \in S : k \in Reach(InPool(q), Parents(q), {x})}

Removal(q, S, flag, r) ==
    /\ WellFormed(q) /\ S \in SUBSET InPool(q)
    /\ r = [mapTx |-> r.mapTx, mapLinks |-> r.mapLinks, mapNextTx |-> r.mapNextTx,
            mapDeltas |-> q.mapDeltas, mapAssetToHash |-> r.mapAssetToHash,
            mapReissuedAssets |-> r.mapReissuedAssets]
    /\ InPool(r) = InPool(q) \ S
    /\ r.mapTx = [k \in InPool(q) \ S |-> [delta |-> q.mapTx[k].delta,
          nAnc |-> q.mapTx[k].nAnc - Cardinality(AncestorsLost(q, S, flag, k)),
          feeAnc |-> q.mapTx[k].feeAnc - FeesOf(q, AncestorsLost(q, S, flag, k)),
          nDesc |-> q.mapTx[k].nDesc - Cardinality(DescendantsLost(q, S, k)),
          feeDesc |-> q.mapTx[k].feeDesc - FeesOf(q, DescendantsLost(q, S, k))]]
    /\ r.mapLinks = [k \in InPool(q) \ S |-> [parents |-> Parents(q)[k] \ S, children |-> Children(q)[k] \ S]]
    /\ r.mapNextTx = [o \in DOMAIN q.mapNextTx \ UNION {Spends(t) : t \in S} |-> q.mapNextTx[o]]
    /\ r.mapAssetToHash = [n \in {n \in DOMAIN q.mapAssetToHash : q.mapAssetToHash[n] \notin S} |-> q.mapAssetToHash[n]]
    /\ r.mapReissuedAssets = [n \in {n \in DOMAIN q.mapReissuedAssets : q.mapReissuedAssets[n] \notin S} |->
                                 q.mapReissuedAssets[n]]

(* What an entry loses is of the pool, and can be counted.                 *)
LEMMA LostAreIn ==
    ASSUME NEW q, WellFormed(q), NEW S \in SUBSET InPool(q), NEW flag, NEW k \in InPool(q)
    PROVE  /\ AncestorsLost(q, S, flag, k) \in SUBSET InPool(q)
           /\ DescendantsLost(q, S, k) \in SUBSET InPool(q)
           /\ Cardinality(AncestorsLost(q, S, flag, k)) \in Nat /\ FeesOf(q, AncestorsLost(q, S, flag, k)) \in Nat
           /\ Cardinality(DescendantsLost(q, S, k)) \in Nat /\ FeesOf(q, DescendantsLost(q, S, k)) \in Nat
    <1>1. AncestorsLost(q, S, flag, k) \in SUBSET InPool(q) /\ DescendantsLost(q, S, k) \in SUBSET InPool(q)
      BY DEF AncestorsLost, DescendantsLost
    <1>2. QED
      BY <1>1, FeesAre, FS_CardinalityType

(* RemoveStaged does what Removal says.                                    *)
LEMMA RemovedIs ==
    ASSUME NEW q, WellFormed(q), NEW S \in SUBSET InPool(q), NEW flag
    PROVE  Removal(q, S, flag, RemoveStaged(q, S, flag))
    <1> DEFINE below == [x \in S |-> IF flag THEN CalculateDescendants(q, {x}) ELSE {}]
               above == [x \in S |-> CalculateAncestors(q, {x})]
               up(k) == {x \in S : k \in below[x]}
               down(k) == {x \in S : k \in above[x]}
               p == UpdateForRemoval(q, S, flag)
               r == RemoveStaged(q, S, flag)
               tx == [k \in InPool(q) \ S |-> MoreAncestors(
                          MoreDescendants(q.mapTx[k], -Cardinality(down(k)), -FeesOf(q, down(k))),
                          -Cardinality(up(k)), -FeesOf(q, up(k)))]
               links == [k \in DOMAIN q.mapLinks \ S |->
                        [parents  |-> q.mapLinks[k].parents \ {x \in S : k \in q.mapLinks[x].children},
                         children |-> q.mapLinks[k].children \ {x \in S : k \in q.mapLinks[x].parents}]]
    <1>0. q = [mapTx |-> q.mapTx, mapLinks |-> q.mapLinks, mapNextTx |-> q.mapNextTx,
               mapDeltas |-> q.mapDeltas, mapAssetToHash |-> q.mapAssetToHash,
               mapReissuedAssets |-> q.mapReissuedAssets]
      BY DEF WellFormed
    <1>1. p = [q EXCEPT !.mapTx = tx, !.mapLinks = links]
      BY DEF UpdateForRemoval, InPool
    <1> HIDE DEF p, tx, links
    <1>2. p = [mapTx |-> tx, mapLinks |-> links, mapNextTx |-> q.mapNextTx, mapDeltas |-> q.mapDeltas,
               mapAssetToHash |-> q.mapAssetToHash, mapReissuedAssets |-> q.mapReissuedAssets]
      BY <1>0, <1>1
    <1> DEFINE nx == Without(q.mapNextTx, UNION {ToSet(vin[t]) : t \in S})
               as == RestrictValues(q.mapAssetToHash, LAMBDA t : t \notin S)
               re == RestrictValues(q.mapReissuedAssets, LAMBDA t : t \notin S)
    <1>3. r = [p EXCEPT !.mapNextTx = Without(@, UNION {ToSet(vin[t]) : t \in S}),
                  !.mapAssetToHash = RestrictValues(@, LAMBDA t : t \notin S),
                  !.mapReissuedAssets = RestrictValues(@, LAMBDA t : t \notin S)]
      BY DEF RemoveStaged, p
    <1>4. r = [p EXCEPT !.mapNextTx = nx, !.mapAssetToHash = as, !.mapReissuedAssets = re]
      BY <1>2, <1>3
    <1> HIDE DEF nx, as, re
    <1>5. r = [mapTx |-> tx, mapLinks |-> links, mapNextTx |-> nx, mapDeltas |-> q.mapDeltas,
               mapAssetToHash |-> as, mapReissuedAssets |-> re]
      BY <1>2, <1>4
    <1>6. nx = [o \in DOMAIN q.mapNextTx \ UNION {Spends(t) : t \in S} |-> q.mapNextTx[o]]
      BY DEF nx, Without, Restrict, Spends
    <1>7. as = [n \in {n \in DOMAIN q.mapAssetToHash : q.mapAssetToHash[n] \notin S} |-> q.mapAssetToHash[n]]
      BY DEF as, RestrictValues, Restrict
    <1>8. re = [n \in {n \in DOMAIN q.mapReissuedAssets : q.mapReissuedAssets[n] \notin S} |->
                                 q.mapReissuedAssets[n]]
      BY DEF re, RestrictValues, Restrict
    <1>9. links = [k \in InPool(q) \ S |-> [parents |-> Parents(q)[k] \ S, children |-> Children(q)[k] \ S]]
      <2>1. DOMAIN q.mapLinks = InPool(q)
        BY DEF WellFormed
      <2>2. ASSUME NEW k \in InPool(q) \ S
            PROVE  /\ q.mapLinks[k].parents \ {x \in S : k \in q.mapLinks[x].children} = Parents(q)[k] \ S
                   /\ q.mapLinks[k].children \ {x \in S : k \in q.mapLinks[x].parents} = Children(q)[k] \ S
        <3>1. /\ q.mapLinks[k].parents = Parents(q)[k] /\ q.mapLinks[k].children = Children(q)[k]
              /\ \A x \in S : q.mapLinks[x].children = Children(q)[x] /\ q.mapLinks[x].parents = Parents(q)[x]
          BY DEF Parents, Children
        <3>2. \A x \in S : (k \in Children(q)[x] <=> x \in Parents(q)[k]) /\ (k \in Parents(q)[x] <=> x \in Children(q)[k])
          BY PoolGraph DEF Opposite
        <3>3. QED
          BY <3>1, <3>2
      <2>3. QED
        BY <2>1, <2>2 DEF links
    <1>10. ASSUME NEW k \in InPool(q) \ S
           PROVE  up(k) = AncestorsLost(q, S, flag, k) /\ down(k) = DescendantsLost(q, S, k)
      <2>1. ASSUME NEW x \in S
            PROVE  /\ CalculateDescendants(q, {x}) = Reach(InPool(q), Children(q), {x})
                   /\ CalculateAncestors(q, {x}) = Reach(InPool(q), Parents(q), {x})
        <3>1. {x} \in SUBSET InPool(q)
          OBVIOUS
        <3>2. QED
          BY <3>1, DescendantsAre, AncestorsAre
      <2>2. QED
        BY <2>1 DEF AncestorsLost, DescendantsLost
    <1>11. ASSUME NEW k \in InPool(q) \ S
           PROVE  tx[k] = [delta |-> q.mapTx[k].delta,
                     nAnc |-> q.mapTx[k].nAnc - Cardinality(AncestorsLost(q, S, flag, k)),
                     feeAnc |-> q.mapTx[k].feeAnc - FeesOf(q, AncestorsLost(q, S, flag, k)),
                     nDesc |-> q.mapTx[k].nDesc - Cardinality(DescendantsLost(q, S, k)),
                     feeDesc |-> q.mapTx[k].feeDesc - FeesOf(q, DescendantsLost(q, S, k))]
      <2> DEFINE e == q.mapTx[k]
                 ca == Cardinality(AncestorsLost(q, S, flag, k))
                 fa == FeesOf(q, AncestorsLost(q, S, flag, k))
                 cd == Cardinality(DescendantsLost(q, S, k))
                 fd == FeesOf(q, DescendantsLost(q, S, k))
      <2>1. e \in Entry
        BY DEF WellFormed
      <2>2. ca \in Nat /\ fa \in Nat /\ cd \in Nat /\ fd \in Nat
        BY LostAreIn
      <2>3. tx[k] = MoreAncestors(MoreDescendants(e, -cd, -fd), -ca, -fa)
        BY <1>10 DEF tx
      <2> HIDE DEF e, ca, fa, cd, fd
      <2>4. QED
        <3>1. tx[k] = [delta |-> e.delta, nAnc |-> e.nAnc - ca, feeAnc |-> e.feeAnc - fa,
                       nDesc |-> e.nDesc - cd, feeDesc |-> e.feeDesc - fd]
          BY <2>1, <2>2, <2>3 DEF MoreAncestors, MoreDescendants, Entry
        <3>2. QED
          BY <3>1 DEF e, ca, fa, cd, fd
    <1>12. tx = [k \in InPool(q) \ S |-> [delta |-> q.mapTx[k].delta,
          nAnc |-> q.mapTx[k].nAnc - Cardinality(AncestorsLost(q, S, flag, k)),
          feeAnc |-> q.mapTx[k].feeAnc - FeesOf(q, AncestorsLost(q, S, flag, k)),
          nDesc |-> q.mapTx[k].nDesc - Cardinality(DescendantsLost(q, S, k)),
          feeDesc |-> q.mapTx[k].feeDesc - FeesOf(q, DescendantsLost(q, S, k))]]
      <2>1. tx = [k \in InPool(q) \ S |-> tx[k]]
        BY DEF tx
      <2>2. QED
        BY <2>1, <1>11
    <1> HIDE DEF r
    <1>13. /\ r.mapTx = tx /\ r.mapLinks = links /\ r.mapNextTx = nx /\ r.mapAssetToHash = as
           /\ r.mapReissuedAssets = re /\ InPool(r) = InPool(q) \ S
      BY <1>5 DEF InPool, tx
    <1>14. Removal(q, S, flag, r)
      BY <1>5, <1>6, <1>7, <1>8, <1>9, <1>12, <1>13 DEF Removal
    <1>15. QED
      BY <1>14 DEF r

(* Both ways RemoveStaged is called.                                       *)
LEMMA RemovedStaged ==
    ASSUME NEW q, WellFormed(q), NEW S \in SUBSET InPool(q)
    PROVE  Removal(q, S, Below, RemoveStaged(q, S, FALSE)) /\ Removal(q, S, Alone, RemoveStaged(q, S, TRUE))
    <1>1. Removal(q, S, Below, RemoveStaged(q, S, Below)) /\ Removal(q, S, Alone, RemoveStaged(q, S, Alone))
      BY RemovedIs
    <1>2. RemoveStaged(q, S, Below) = RemoveStaged(q, S, FALSE) /\ RemoveStaged(q, S, Alone) = RemoveStaged(q, S, TRUE)
      BY Zenon DEF Below, Alone
    <1>3. QED
      BY <1>1, <1>2, Zenon

(* What a removal keeps, whatever is removed.                              *)
LEMMA RemovalLinks ==
    ASSUME NEW q, NEW S, NEW flag, NEW r, Removal(q, S, flag, r)
    PROVE  /\ WellFormed(q) /\ S \in SUBSET InPool(q) /\ InPool(r) = InPool(q) \ S
           /\ \A k \in InPool(r) : Parents(r)[k] = Parents(q)[k] \ S /\ Children(r)[k] = Children(q)[k] \ S
           /\ r.mapDeltas = q.mapDeltas /\ \A k \in InPool(r) : r.mapTx[k].delta = q.mapTx[k].delta
    BY DEF Removal, Parents, Children

(* A removal leaves a well formed pool.                                    *)
LEMMA RemovalWellFormed ==
    ASSUME NEW q, NEW S, NEW flag, NEW r, Removal(q, S, flag, r)
    PROVE  WellFormed(r)
    <1>0. WellFormed(q) /\ S \in SUBSET InPool(q)
      BY DEF Removal
    <1>1. /\ InPool(r) = InPool(q) \ S /\ r.mapDeltas = q.mapDeltas
          /\ \A k \in InPool(r) : Parents(r)[k] = Parents(q)[k] \ S /\ Children(r)[k] = Children(q)[k] \ S
      BY RemovalLinks
    <1>2. r = [mapTx |-> r.mapTx, mapLinks |-> r.mapLinks, mapNextTx |-> r.mapNextTx,
               mapDeltas |-> r.mapDeltas, mapAssetToHash |-> r.mapAssetToHash,
               mapReissuedAssets |-> r.mapReissuedAssets]
      BY <1>1, Zenon DEF Removal
    <1>3. InPool(r) \subseteq Tx
      BY <1>0, <1>1 DEF WellFormed
    <1>4. r.mapTx \in [InPool(r) -> Entry]
      <2>1. ASSUME NEW k \in InPool(q) \ S
            PROVE  [delta |-> q.mapTx[k].delta,
                    nAnc |-> q.mapTx[k].nAnc - Cardinality(AncestorsLost(q, S, flag, k)),
                    feeAnc |-> q.mapTx[k].feeAnc - FeesOf(q, AncestorsLost(q, S, flag, k)),
                    nDesc |-> q.mapTx[k].nDesc - Cardinality(DescendantsLost(q, S, k)),
                    feeDesc |-> q.mapTx[k].feeDesc - FeesOf(q, DescendantsLost(q, S, k))] \in Entry
        <3>1. q.mapTx[k] \in Entry
          BY <1>0 DEF WellFormed
        <3>2. /\ Cardinality(AncestorsLost(q, S, flag, k)) \in Nat /\ FeesOf(q, AncestorsLost(q, S, flag, k)) \in Nat
              /\ Cardinality(DescendantsLost(q, S, k)) \in Nat /\ FeesOf(q, DescendantsLost(q, S, k)) \in Nat
          BY <1>0, LostAreIn
        <3>3. QED
          BY <1>0, <3>1, <3>2 DEF Entry
      <2>2. QED
        BY <1>1, <2>1 DEF Removal
    <1>5. r.mapLinks \in [InPool(r) -> [parents : SUBSET InPool(r), children : SUBSET InPool(r)]]
      <2>1. ASSUME NEW k \in InPool(q) \ S
            PROVE  Parents(q)[k] \ S \in SUBSET InPool(r) /\ Children(q)[k] \ S \in SUBSET InPool(r)
        BY <1>0, <1>1, PoolGraph
      <2>2. QED
        BY <1>1, <2>1 DEF Removal
    <1>6. IsMap(r.mapNextTx) /\ IsMap(r.mapAssetToHash) /\ IsMap(r.mapReissuedAssets)
      <2>1. IsMap(r.mapNextTx)
        BY DEF Removal, IsMap
      <2>2. IsMap(r.mapAssetToHash)
        BY DEF Removal, IsMap
      <2>3. IsMap(r.mapReissuedAssets)
        BY DEF Removal, IsMap
      <2>4. QED
        BY <1>0, <2>1, <2>2, <2>3
    <1>7. IsMap(r.mapDeltas) /\ IsFiniteSet(DOMAIN r.mapDeltas) /\ \A t \in DOMAIN r.mapDeltas : r.mapDeltas[t] \in Nat
      BY <1>0, <1>1 DEF WellFormed
    <1>8. \A t, u \in InPool(r) : u \in Children(r)[t] <=> t \in Parents(r)[u]
      BY <1>0, <1>1 DEF WellFormed
    <1>9. QED
      BY <1>0, <1>2, <1>3, <1>4, <1>5, <1>6, <1>7, <1>8 DEF WellFormed

(* The links that stay are those of the inputs.                            *)
LEMMA RemovalLinked ==
    ASSUME NEW q, NEW S, NEW flag, NEW r, Removal(q, S, flag, r), NEW H, NEW M, Linked(q, H, M)
    PROVE  Linked(r, H, M)
    <1>0. WellFormed(q) /\ S \in SUBSET InPool(q)
      BY DEF Removal
    <1>1. /\ InPool(r) = InPool(q) \ S
          /\ \A k \in InPool(r) : Parents(r)[k] = Parents(q)[k] \ S
      BY RemovalLinks
    <1>2. QED
      BY <1>0, <1>1 DEF Linked

(* mapNextTx forgets exactly the inputs of what goes.                      *)
LEMMA RemovalSpends ==
    ASSUME NEW q, NEW S, NEW flag, NEW r, Removal(q, S, flag, r), SpendsKnown(q)
    PROVE  SpendsKnown(r)
    <1>0. WellFormed(q) /\ S \in SUBSET InPool(q)
      BY DEF Removal
    <1>1. /\ InPool(r) = InPool(q) \ S
          /\ r.mapNextTx = [o \in DOMAIN q.mapNextTx \ UNION {Spends(t) : t \in S} |-> q.mapNextTx[o]]
      BY DEF Removal
    <1>2. ASSUME NEW t \in InPool(q) \ S, NEW o \in Spends(t) PROVE o \notin UNION {Spends(u) : u \in S}
      BY <1>0 DEF SpendsKnown
    <1>3. DOMAIN q.mapNextTx \ UNION {Spends(t) : t \in S} = UNION {Spends(t) : t \in InPool(q) \ S}
      BY <1>0, <1>2 DEF SpendsKnown
    <1>4. ASSUME NEW t \in InPool(q) \ S, NEW o \in Spends(t) PROVE r.mapNextTx[o] = t
      BY <1>0, <1>1, <1>2 DEF SpendsKnown
    <1>5. QED
      BY <1>0, <1>1, <1>3, <1>4 DEF SpendsKnown

(* The claims that stay are those of what stays.                           *)
LEMMA RemovalClaims ==
    ASSUME NEW q, NEW S, NEW flag, NEW r, Removal(q, S, flag, r), NEW X, Claimed(q, X)
    PROVE  Claimed(r, X)
    <1>0. WellFormed(q) /\ S \in SUBSET InPool(q)
      BY DEF Removal
    <1>1. InPool(r) = InPool(q) \ S
      BY DEF Removal
    <1>2. r.mapAssetToHash = [n \in {n \in DOMAIN q.mapAssetToHash : q.mapAssetToHash[n] \notin S} |-> q.mapAssetToHash[n]]
      BY DEF Removal
    <1>3. r.mapReissuedAssets = [n \in {n \in DOMAIN q.mapReissuedAssets : q.mapReissuedAssets[n] \notin S} |->
                                 q.mapReissuedAssets[n]]
      BY DEF Removal
    <1>4. \A t \in InPool(r) \ X : Issue[t] # None =>
             Issue[t] \in DOMAIN r.mapAssetToHash /\ r.mapAssetToHash[Issue[t]] = t
      BY <1>0, <1>1, <1>2 DEF Claimed
    <1>5. \A n \in DOMAIN r.mapAssetToHash :
             n # None /\ r.mapAssetToHash[n] \in InPool(r) /\ Issue[r.mapAssetToHash[n]] = n
      BY <1>0, <1>1, <1>2 DEF Claimed
    <1>6. \A t \in InPool(r) \ X : Reissue[t] # None =>
             Reissue[t] \in DOMAIN r.mapReissuedAssets /\ r.mapReissuedAssets[Reissue[t]] = t
      BY <1>0, <1>1, <1>3 DEF Claimed
    <1>7. QED
      BY <1>0, <1>4, <1>5, <1>6 DEF Claimed

(* What stays has its inputs, if the parents that go are awaited.          *)
LEMMA RemovalSupplied ==
    ASSUME NEW q, NEW S, NEW flag, NEW r, Removal(q, S, flag, r), NEW C, NEW W, Supplied(q, C, W),
           \A k \in InPool(q) \ S : Sources(k) \cap S \subseteq W
    PROVE  Supplied(r, C, W)
    <1>0. WellFormed(q) /\ S \in SUBSET InPool(q)
      BY DEF Removal
    <1>1. InPool(r) = InPool(q) \ S
      BY DEF Removal
    <1>2. ASSUME NEW k \in InPool(q) \ S, NEW o \in Spends(k)
          PROVE  o[1] \in InPool(r) \cup W \/ Coin(C, o)
      <2>1. o[1] \in Sources(k)
        BY <1>0 DEF Sources, Spends
      <2>2. o[1] \in InPool(q) \cup W \/ Coin(C, o)
        BY <1>0 DEF Supplied
      <2>3. QED
        BY <1>0, <1>1, <2>1, <2>2
    <1>3. QED
      BY <1>0, <1>1, <1>2 DEF Supplied

(* The totals after a removal, when what is lost was counted and what is   *)
(* left is still there.                                                    *)
LEMMA RemovalCounts ==
    ASSUME NEW q, NEW S, NEW flag, NEW r, Removal(q, S, flag, r), NEW k \in InPool(r),
           NEW up \in SUBSET InPool(q), NEW down \in SUBSET InPool(q), Counts(q, k, up, down),
           AncestorsLost(q, S, flag, k) \subseteq up, up \ AncestorsLost(q, S, flag, k) \subseteq InPool(r),
           DescendantsLost(q, S, k) \subseteq down, down \ DescendantsLost(q, S, k) \subseteq InPool(r)
    PROVE  Counts(r, k, up \ AncestorsLost(q, S, flag, k), down \ DescendantsLost(q, S, k))
    <1> DEFINE al == AncestorsLost(q, S, flag, k)
               dl == DescendantsLost(q, S, k)
               up2 == up \ al
               down2 == down \ dl
    <1>0. WellFormed(q) /\ S \in SUBSET InPool(q)
      BY DEF Removal
    <1>1. WellFormed(r) /\ \A t \in InPool(r) : r.mapTx[t].delta = q.mapTx[t].delta
      BY RemovalWellFormed, RemovalLinks
    <1>2. k \in InPool(q) \ S
      BY RemovalLinks
    <1>3. r.mapTx[k] = [delta |-> q.mapTx[k].delta, nAnc |-> q.mapTx[k].nAnc - Cardinality(al),
          feeAnc |-> q.mapTx[k].feeAnc - FeesOf(q, al), nDesc |-> q.mapTx[k].nDesc - Cardinality(dl),
          feeDesc |-> q.mapTx[k].feeDesc - FeesOf(q, dl)]
      BY <1>2 DEF Removal
    <1> HIDE DEF al, dl
    <1>4. /\ FeesOf(q, up2) = FeesOf(q, up) - FeesOf(q, al)
          /\ Cardinality(up2) = Cardinality(up) - Cardinality(al)
      <2>1. al \in SUBSET up
        BY DEF al
      <2>2. QED
        BY <1>0, <2>1, FeesWithout
    <1>5. /\ FeesOf(q, down2) = FeesOf(q, down) - FeesOf(q, dl)
          /\ Cardinality(down2) = Cardinality(down) - Cardinality(dl)
      <2>1. dl \in SUBSET down
        BY DEF dl
      <2>2. QED
        BY <1>0, <2>1, FeesWithout
    <1>6. FeesOf(r, up2) = FeesOf(q, up2) /\ FeesOf(r, down2) = FeesOf(q, down2)
      <2>1. up2 \in SUBSET InPool(q) /\ up2 \subseteq InPool(r)
        BY DEF al
      <2>2. down2 \in SUBSET InPool(q) /\ down2 \subseteq InPool(r)
        BY DEF dl
      <2> HIDE DEF up2, down2
      <2>3. FeesOf(r, up2) = FeesOf(q, up2)
        BY <1>0, <1>1, <2>1, FeesSame
      <2>4. FeesOf(r, down2) = FeesOf(q, down2)
        BY <1>0, <1>1, <2>2, FeesSame
      <2>5. QED
        BY <2>3, <2>4
    <1>7. Delta(r, k) = Delta(q, k)
      BY RemovalLinks DEF Delta
    <1> HIDE DEF up2, down2
    <1>8. Counts(r, k, up2, down2)
      BY <1>3, <1>4, <1>5, <1>6, <1>7 DEF Counts
    <1>9. QED
      BY <1>8 DEF up2, down2, al, dl

(* When nothing leads out of what is removed to a child that stays.        *)
LEMMA RemovalBelow ==
    ASSUME NEW q, NEW S, NEW r, Removal(q, S, Below, r), \A x \in S : Children(q)[x] \subseteq S
    PROVE  \A k \in InPool(r) : Up(r, k) = Up(q, k) /\ Down(r, k) = Down(q, k) \ S
    <1> DEFINE V == InPool(q)
               U == InPool(r)
    <1>0. WellFormed(q) /\ WellFormed(r) /\ S \in SUBSET InPool(q)
      BY RemovalWellFormed, RemovalLinks
    <1>1. /\ Opposite(V, Children(q), Parents(q))
          /\ Parents(q) \in [V -> SUBSET V] /\ Children(q) \in [V -> SUBSET V]
          /\ Parents(r) \in [U -> SUBSET U] /\ Children(r) \in [U -> SUBSET U]
      BY <1>0, PoolGraph
    <1>2. U = V \ S /\ \A x \in U : Parents(r)[x] = Parents(q)[x] \ S /\ Children(r)[x] = Children(q)[x] \ S
      BY RemovalLinks
    <1> HIDE DEF V, U
    <1>3. Inside(V, Children(q), Parents(q), U, Children(r), Parents(r))
      <2>1. \A x \in V \ U : Children(q)[x] \cap U = {}
        BY <1>0, <1>1, <1>2 DEF V
      <2>2. \A x \in U : Children(r)[x] = Children(q)[x] \cap U
        BY <1>1, <1>2
      <2>3. \A x \in U : Parents(r)[x] = Parents(q)[x] \cap U
        BY <1>1, <1>2
      <2>4. U \in SUBSET V
        BY <1>2
      <2>5. QED
        BY <1>1, <2>1, <2>2, <2>3, <2>4 DEF Inside
    <1>4. ASSUME NEW k \in U PROVE Up(r, k) = Up(q, k) /\ Down(r, k) = Down(q, k) \ S
      <2>1. /\ Reach(U, Children(r), {k}) = Reach(V, Children(q), {k}) \cap U
            /\ Reach(U, Parents(r), {k}) = Reach(V, Parents(q), {k})
        BY <1>3, ReachWithin
      <2>2. Reach(V, Children(q), {k}) \subseteq V
        BY <1>1, <1>2, ReachOne
      <2>3. QED
        BY <1>2, <2>1, <2>2 DEF Up, Down, U, V
    <1>5. QED
      BY <1>4 DEF U

(* Removing what is closed below keeps the totals exact.                   *)
LEMMA RemovalBelowCounted ==
    ASSUME NEW q, NEW S, NEW r, Removal(q, S, Below, r), \A x \in S : Children(q)[x] \subseteq S, Counted(q)
    PROVE  Counted(r)
    <1>0. WellFormed(q) /\ WellFormed(r) /\ S \in SUBSET InPool(q)
      BY RemovalWellFormed, RemovalLinks
    <1>1. ASSUME NEW k \in InPool(r) PROVE Counts(r, k, Up(r, k), Down(r, k))
      <2>1. k \in InPool(q) /\ k \notin S /\ InPool(r) = InPool(q) \ S
        BY RemovalLinks
      <2>2. Up(r, k) = Up(q, k) /\ Down(r, k) = Down(q, k) \ S
        BY RemovalBelow
      <2>3. Up(q, k) \in SUBSET InPool(q) /\ Down(q, k) \in SUBSET InPool(q) /\ Up(r, k) \subseteq InPool(r)
        BY <1>0, <2>1, PoolGraph, ReachOne DEF Up, Down
      <2>4. AncestorsLost(q, S, Below, k) = {}
        BY DEF AncestorsLost, Below
      <2>5. DescendantsLost(q, S, k) = Down(q, k) \cap S
        <3>1. \A x \in InPool(q) : k \in Reach(InPool(q), Parents(q), {x}) <=> x \in Reach(InPool(q), Children(q), {k})
          BY <1>0, <2>1, PoolGraph, ReachDual
        <3>2. QED
          BY <1>0, <3>1 DEF DescendantsLost, Down
      <2>6. Counts(q, k, Up(q, k), Down(q, k))
        BY <2>1 DEF Counted
      <2> DEFINE up == Up(q, k)
                 down == Down(q, k)
      <2>7. /\ AncestorsLost(q, S, Below, k) \subseteq up /\ up \ AncestorsLost(q, S, Below, k) \subseteq InPool(r)
            /\ DescendantsLost(q, S, k) \subseteq down /\ down \ DescendantsLost(q, S, k) \subseteq InPool(r)
        BY <2>1, <2>2, <2>3, <2>4, <2>5
      <2>8. up \ AncestorsLost(q, S, Below, k) = Up(r, k) /\ down \ DescendantsLost(q, S, k) = Down(r, k)
        BY <2>2, <2>4, <2>5
      <2> HIDE DEF up, down
      <2>9. Counts(r, k, up \ AncestorsLost(q, S, Below, k), down \ DescendantsLost(q, S, k))
        <3>1. up \in SUBSET InPool(q) /\ down \in SUBSET InPool(q) /\ Counts(q, k, up, down)
          BY <2>3, <2>6 DEF up, down
        <3>2. QED
          BY <2>7, <3>1, RemovalCounts
      <2>10. QED
        BY <2>8, <2>9
    <1>2. QED
      BY <1>1 DEF Counted

-----------------------------------------------------------------------------
(* A pool with less in it.                                                 *)
Part(f, g) == DOMAIN f \subseteq DOMAIN g /\ \A x \in DOMAIN f : f[x] = g[x]
Less(r, q) ==
    /\ InPool(r) \subseteq InPool(q) /\ Part(r.mapNextTx, q.mapNextTx)
    /\ Part(r.mapAssetToHash, q.mapAssetToHash) /\ Part(r.mapReissuedAssets, q.mapReissuedAssets)
    /\ r.mapDeltas = q.mapDeltas

(* A removal only takes away.                                              *)
LEMMA RemovalLess ==
    ASSUME NEW q, NEW S, NEW flag, NEW r, Removal(q, S, flag, r)
    PROVE  Less(r, q)
    <1>1. Part(r.mapNextTx, q.mapNextTx)
      BY DEF Removal, Part
    <1>2. Part(r.mapAssetToHash, q.mapAssetToHash)
      BY DEF Removal, Part
    <1>3. Part(r.mapReissuedAssets, q.mapReissuedAssets)
      BY DEF Removal, Part
    <1>4. InPool(r) \subseteq InPool(q) /\ r.mapDeltas = q.mapDeltas
      BY RemovalLinks
    <1>5. QED
      BY <1>1, <1>2, <1>3, <1>4 DEF Less

(* Two removals only take away.                                            *)
LEMMA LessTrans ==
    ASSUME NEW p, NEW q, NEW r, Less(q, p), Less(r, q)
    PROVE  Less(r, p)
    BY DEF Less, Part

(* As does none.                                                           *)
LEMMA LessSame == ASSUME NEW q PROVE Less(q, q)
    BY DEF Less, Part

(* Sound without what its children go with.                                *)
LEMMA SoundRemoval ==
    ASSUME NEW q, NEW H, NEW M, NEW C, NEW W, NEW X, Sound(q, H, M, C, W, X),
           NEW S, NEW r, Removal(q, S, Below, r),
           \A x \in S : Children(q)[x] \subseteq S, S \cap M = {}
    PROVE  Sound(r, H, M, C, W, X) /\ Less(r, q) /\ InPool(r) = InPool(q) \ S
    <1>1. WellFormed(q) /\ S \in SUBSET InPool(q) /\ InPool(r) = InPool(q) \ S
      BY RemovalLinks
    <1>2. WellFormed(r) /\ SpendsKnown(r) /\ Linked(r, H, M) /\ Claimed(r, X)
      BY RemovalWellFormed, RemovalSpends, RemovalLinked, RemovalClaims DEF Sound
    <1>3. Counted(r)
      BY RemovalBelowCounted DEF Sound
    <1>4. ASSUME NEW k \in InPool(q) \ S, NEW s \in Sources(k) \cap S PROVE FALSE
      <2>1. s \in InPool(q) /\ s \notin M
        BY <1>1
      <2>2. s \in Parents(q)[k]
        BY <2>1 DEF Sound, Linked
      <2>3. k \in Children(q)[s]
        BY <1>1, <2>1, <2>2, PoolGraph DEF Opposite
      <2>4. QED
        BY <2>3
    <1>5. Supplied(r, C, W)
      <2>1. \A k \in InPool(q) \ S : Sources(k) \cap S \subseteq W
        BY <1>4
      <2>2. QED
        BY <2>1, RemovalSupplied DEF Sound
    <1>6. InPool(r) \cap C = {} /\ Free(r, C)
      BY <1>1 DEF Sound, Free
    <1>7. QED
      BY <1>1, <1>2, <1>3, <1>5, <1>6, RemovalLess DEF Sound

(* Sound without some transactions and all that is below them.             *)
LEMMA SoundBelow ==
    ASSUME NEW q, NEW H, NEW M, NEW C, NEW W, NEW X, Sound(q, H, M, C, W, X), M \subseteq H,
           NEW F \in SUBSET InPool(q), F \cap H = {}
    PROVE  LET S == CalculateDescendants(q, F)
               r == RemoveStaged(q, S, FALSE)
           IN  /\ Sound(r, H, M, C, W, X) /\ Less(r, q) /\ InPool(r) = InPool(q) \ S
               /\ F \subseteq S /\ S \subseteq InPool(q) /\ S \cap H = {}
    <1> DEFINE S == CalculateDescendants(q, F)
               r == RemoveStaged(q, S, FALSE)
    <1>1. WellFormed(q)
      BY DEF Sound
    <1>2. S = Reach(InPool(q), Children(q), F)
      BY <1>1, DescendantsAre
    <1> HIDE DEF S
    <1>3. Children(q) \in [InPool(q) -> SUBSET InPool(q)]
      BY <1>1, PoolGraph
    <1>4. F \subseteq S /\ S \subseteq InPool(q) /\ \A x \in S : Children(q)[x] \subseteq S
      BY <1>2, <1>3, ReachIs
    <1>5. S \cap H = {}
      <2> DEFINE T == InPool(q) \ H
      <2>1. ASSUME NEW x \in InPool(q) \cap T, NEW y \in Children(q)[x] PROVE y \in T
        <3>1. y \in InPool(q) /\ x \in Parents(q)[y]
          BY <1>1, <1>3, PoolGraph DEF Opposite
        <3>2. QED
          BY <3>1 DEF Sound, Linked
      <2>2. F \subseteq T
        OBVIOUS
      <2> HIDE DEF T
      <2>3. S \subseteq T
        BY <1>2, <1>3, <2>1, <2>2, ReachLeast
      <2>4. QED
        BY <2>3 DEF T
    <1>6. Removal(q, S, Below, r)
      BY <1>1, <1>4, RemovedStaged
    <1> HIDE DEF r
    <1>7. S \cap M = {}
      BY <1>5
    <1>8. Sound(r, H, M, C, W, X) /\ Less(r, q) /\ InPool(r) = InPool(q) \ S
      BY <1>4, <1>6, <1>7, SoundRemoval
    <1>9. QED
      BY <1>4, <1>5, <1>8 DEF r, S

(* removeRecursive.                                                        *)
LEMMA SoundRecursive ==
    ASSUME NEW q, NEW H, NEW M, NEW C, NEW W, NEW X, Sound(q, H, M, C, W, X), M \subseteq H, NEW t,
           t \notin H, \A u \in H : t \notin Sources(u)
    PROVE  LET r == removeRecursive(q, t)
           IN  /\ Sound(r, H, M, C, W, X) /\ Less(r, q) /\ H \cap InPool(q) \subseteq InPool(r)
               /\ t \notin InPool(r) /\ (t \notin InPool(q) => \A u \in InPool(r) : t \notin Sources(u))
    <1> DEFINE spenders == {q.mapNextTx[o] : o \in {o \in DOMAIN q.mapNextTx : o[1] = t}}
               F == IF t \in InPool(q) THEN {t} ELSE spenders
               S == CalculateDescendants(q, F)
               r == RemoveStaged(q, S, FALSE)
    <1>1. removeRecursive(q, t) = r
      BY DEF removeRecursive
    <1>2. spenders = {u \in InPool(q) : t \in Sources(u)}
      <2>1. ASSUME NEW o \in DOMAIN q.mapNextTx, o[1] = t
            PROVE  q.mapNextTx[o] \in InPool(q) /\ t \in Sources(q.mapNextTx[o])
        <3>1. PICK u \in InPool(q) : o \in Spends(u)
          BY DEF Sound, SpendsKnown
        <3>2. q.mapNextTx[o] = u
          BY <3>1 DEF Sound, SpendsKnown
        <3>3. QED
          BY <2>1, <3>1, <3>2 DEF Sources, Spends
      <2>2. ASSUME NEW u \in InPool(q), t \in Sources(u) PROVE u \in spenders
        <3>1. PICK o \in Spends(u) : o[1] = t
          BY <2>2 DEF Sources, Spends
        <3>2. o \in DOMAIN q.mapNextTx /\ q.mapNextTx[o] = u
          BY <3>1 DEF Sound, SpendsKnown
        <3>3. QED
          BY <3>1, <3>2
      <2>3. QED
        BY <2>1, <2>2
    <1> HIDE DEF spenders
    <1>3. F \in SUBSET InPool(q) /\ F \cap H = {}
      BY <1>2
    <1> HIDE DEF F
    <1>4. /\ Sound(r, H, M, C, W, X) /\ Less(r, q) /\ InPool(r) = InPool(q) \ S
          /\ F \subseteq S /\ S \subseteq InPool(q) /\ S \cap H = {}
      BY <1>3, SoundBelow
    <1> HIDE DEF r, S
    <1>5. t \notin InPool(r)
      BY <1>4 DEF F
    <1>6. t \notin InPool(q) => \A u \in InPool(r) : t \notin Sources(u)
      BY <1>2, <1>4 DEF F
    <1>7. H \cap InPool(q) \subseteq InPool(r)
      BY <1>4
    <1>8. QED
      BY <1>1, <1>4, <1>5, <1>6, <1>7, Zenon

-----------------------------------------------------------------------------
(* addUnchecked.                                                           *)
Above(q, t) == Reach(InPool(q), Parents(q), Sources(t) \cap InPool(q))
Addition(q, t, r) ==
    /\ WellFormed(q) /\ t \in Tx /\ t \notin InPool(q)
    /\ r = [mapTx |-> r.mapTx, mapLinks |-> r.mapLinks, mapNextTx |-> r.mapNextTx,
            mapDeltas |-> q.mapDeltas, mapAssetToHash |-> q.mapAssetToHash,
            mapReissuedAssets |-> q.mapReissuedAssets]
    /\ InPool(r) = InPool(q) \cup {t}
    /\ r.mapTx = [k \in InPool(r) |->
          IF k = t THEN [delta |-> Delta(q, t), nAnc |-> 1 + Cardinality(Above(q, t)),
                         feeAnc |-> Fee[t] + Delta(q, t) + FeesOf(q, Above(q, t)),
                         nDesc |-> 1, feeDesc |-> Fee[t] + Delta(q, t)]
          ELSE IF k \in Above(q, t)
          THEN [delta |-> q.mapTx[k].delta, nAnc |-> q.mapTx[k].nAnc, feeAnc |-> q.mapTx[k].feeAnc,
                nDesc |-> q.mapTx[k].nDesc + 1, feeDesc |-> q.mapTx[k].feeDesc + Fee[t] + Delta(q, t)]
          ELSE q.mapTx[k]]
    /\ r.mapLinks = [k \in InPool(r) |->
          IF k = t THEN [parents |-> Sources(t) \cap InPool(q), children |-> {}]
          ELSE [parents |-> Parents(q)[k],
                children |-> IF k \in Sources(t) THEN Children(q)[k] \cup {t} ELSE Children(q)[k]]]
    /\ r.mapNextTx = [o \in DOMAIN q.mapNextTx \cup Spends(t) |->
                         IF o \in DOMAIN q.mapNextTx THEN q.mapNextTx[o] ELSE t]

(* A delta is a natural number.                                            *)
LEMMA DeltaNat ==
    ASSUME NEW q, WellFormed(q), NEW t
    PROVE  Delta(q, t) \in Nat
    BY DEF WellFormed, Delta

(* addUnchecked does what Addition says.                                   *)
LEMMA AddedIs ==
    ASSUME NEW q, WellFormed(q), NEW t \in Tx, t \notin InPool(q)
    PROVE  Addition(q, t, addUnchecked(q, t))
    <1> DEFINE parents == Sources(t) \cap InPool(q)
               A == SetAncestors(q, t)
               fee == Fee[t] + Delta(q, t)
               entry == [delta |-> Delta(q, t), nDesc |-> 1, feeDesc |-> fee,
                         nAnc |-> 1 + Cardinality(A), feeAnc |-> fee + FeesOf(q, A)]
               tx == Put([k \in DOMAIN q.mapTx |->
                            IF k \in A THEN MoreDescendants(q.mapTx[k], 1, fee) ELSE q.mapTx[k]], t, entry)
               links == Put([k \in DOMAIN q.mapLinks |->
                            IF k \in parents THEN [q.mapLinks[k] EXCEPT !.children = @ \cup {t}] ELSE q.mapLinks[k]],
                            t, [parents |-> parents, children |-> {}])
               nx == Insert(q.mapNextTx, ToSet(vin[t]), t)
               r == addUnchecked(q, t)
    <1>0. q = [mapTx |-> q.mapTx, mapLinks |-> q.mapLinks, mapNextTx |-> q.mapNextTx,
               mapDeltas |-> q.mapDeltas, mapAssetToHash |-> q.mapAssetToHash,
               mapReissuedAssets |-> q.mapReissuedAssets]
      BY DEF WellFormed
    <1>1. A = Above(q, t) /\ A \in SUBSET InPool(q)
      <2>1. parents \in SUBSET InPool(q) /\ Parents(q) \in [InPool(q) -> SUBSET InPool(q)]
        BY PoolGraph
      <2>2. QED
        BY <2>1, AncestorsAre, ReachIs DEF SetAncestors, Above
    <1>2. r = [q EXCEPT !.mapTx = tx, !.mapLinks = links, !.mapNextTx = nx]
      BY Zenon DEF addUnchecked
    <1> HIDE DEF r, tx, links, nx, A
    <1>3. r = [mapTx |-> tx, mapLinks |-> links, mapNextTx |-> nx, mapDeltas |-> q.mapDeltas,
               mapAssetToHash |-> q.mapAssetToHash, mapReissuedAssets |-> q.mapReissuedAssets]
      BY <1>0, <1>2
    <1>4. r.mapTx = tx /\ r.mapLinks = links /\ r.mapNextTx = nx
      BY <1>3
    <1>5. DOMAIN tx = InPool(q) \cup {t}
      BY DEF tx, Put, InPool
    <1>6. InPool(r) = InPool(q) \cup {t}
      BY <1>4, <1>5 DEF InPool
    <1>7. /\ Fee[t] \in Nat /\ Delta(q, t) \in Nat /\ FeesOf(q, A) \in Nat
      BY <1>1, TxAssumption, DeltaNat, FeesAre
    <1>8. tx = [k \in InPool(r) |->
          IF k = t THEN [delta |-> Delta(q, t), nAnc |-> 1 + Cardinality(Above(q, t)),
                         feeAnc |-> Fee[t] + Delta(q, t) + FeesOf(q, Above(q, t)),
                         nDesc |-> 1, feeDesc |-> Fee[t] + Delta(q, t)]
          ELSE IF k \in Above(q, t)
          THEN [delta |-> q.mapTx[k].delta, nAnc |-> q.mapTx[k].nAnc, feeAnc |-> q.mapTx[k].feeAnc,
                nDesc |-> q.mapTx[k].nDesc + 1, feeDesc |-> q.mapTx[k].feeDesc + Fee[t] + Delta(q, t)]
          ELSE q.mapTx[k]]
      <2>1. entry = [delta |-> Delta(q, t), nAnc |-> 1 + Cardinality(Above(q, t)),
                         feeAnc |-> Fee[t] + Delta(q, t) + FeesOf(q, Above(q, t)),
                         nDesc |-> 1, feeDesc |-> Fee[t] + Delta(q, t)]
        BY <1>1
      <2>2. ASSUME NEW k \in InPool(q), k \in A
            PROVE  MoreDescendants(q.mapTx[k], 1, fee) =
               [delta |-> q.mapTx[k].delta, nAnc |-> q.mapTx[k].nAnc, feeAnc |-> q.mapTx[k].feeAnc,
                nDesc |-> q.mapTx[k].nDesc + 1, feeDesc |-> q.mapTx[k].feeDesc + Fee[t] + Delta(q, t)]
        <3> DEFINE e == q.mapTx[k]
        <3>1. e \in Entry
          BY DEF WellFormed
        <3> HIDE DEF e
        <3>2. e.feeDesc + fee = e.feeDesc + Fee[t] + Delta(q, t)
          BY <3>1, <1>7 DEF Entry
        <3>f. fee \in Nat
          BY <1>7
        <3> HIDE DEF fee
        <3>3. MoreDescendants(e, 1, fee) = [delta |-> e.delta, nAnc |-> e.nAnc, feeAnc |-> e.feeAnc,
                nDesc |-> e.nDesc + 1, feeDesc |-> e.feeDesc + fee]
          <4> DEFINE m == MoreDescendants(e, 1, fee)
          <4>1. m = [e EXCEPT !.nDesc = @ + 1, !.feeDesc = @ + fee]
            BY DEF MoreDescendants
          <4> HIDE DEF m
          <4>2. m = [delta |-> e.delta, nAnc |-> e.nAnc, feeAnc |-> e.feeAnc,
                     nDesc |-> e.nDesc + 1, feeDesc |-> e.feeDesc + fee]
            BY <3>1, <3>f, <4>1 DEF Entry
          <4>3. QED
            BY <4>2 DEF m
        <3>4. QED
          BY <3>2, <3>3 DEF e
      <2> HIDE DEF entry
      <2>3. tx = [k \in InPool(r) |-> IF k = t THEN entry
                    ELSE IF k \in A THEN MoreDescendants(q.mapTx[k], 1, fee) ELSE q.mapTx[k]]
        BY <1>6 DEF tx, Put, InPool
      <2>4. QED
        BY <1>1, <2>1, <2>2, <2>3, <1>6
    <1>9. links = [k \in InPool(r) |->
          IF k = t THEN [parents |-> Sources(t) \cap InPool(q), children |-> {}]
          ELSE [parents |-> Parents(q)[k],
                children |-> IF k \in Sources(t) THEN Children(q)[k] \cup {t} ELSE Children(q)[k]]]
      <2>1. DOMAIN q.mapLinks = InPool(q)
        BY DEF WellFormed
      <2>2. ASSUME NEW k \in InPool(q)
            PROVE  (IF k \in parents THEN [q.mapLinks[k] EXCEPT !.children = @ \cup {t}] ELSE q.mapLinks[k]) =
                   [parents |-> Parents(q)[k],
                    children |-> IF k \in Sources(t) THEN Children(q)[k] \cup {t} ELSE Children(q)[k]]
        <3> DEFINE e == q.mapLinks[k]
        <3>1. e \in [parents : SUBSET InPool(q), children : SUBSET InPool(q)]
          BY DEF WellFormed
        <3>2. e.parents = Parents(q)[k] /\ e.children = Children(q)[k]
          BY DEF Parents, Children
        <3> HIDE DEF e
        <3>3. e = [parents |-> Parents(q)[k], children |-> Children(q)[k]]
          BY <3>1, <3>2
        <3>4. [e EXCEPT !.children = @ \cup {t}] = [parents |-> Parents(q)[k], children |-> Children(q)[k] \cup {t}]
          BY <3>3
        <3>5. QED
          BY <3>3, <3>4 DEF e
      <2>3. links = [k \in InPool(r) |-> IF k = t THEN [parents |-> parents, children |-> {}]
                       ELSE IF k \in parents THEN [q.mapLinks[k] EXCEPT !.children = @ \cup {t}] ELSE q.mapLinks[k]]
        BY <1>6, <2>1 DEF links, Put
      <2>4. QED
        BY <2>2, <2>3, <1>6
    <1>10. nx = [o \in DOMAIN q.mapNextTx \cup Spends(t) |->
                         IF o \in DOMAIN q.mapNextTx THEN q.mapNextTx[o] ELSE t]
      BY DEF nx, Insert, Spends
    <1>11. Addition(q, t, r)
      BY <1>3, <1>4, <1>6, <1>8, <1>9, <1>10 DEF Addition
    <1>12. QED
      BY <1>11 DEF r

(* The links of the new pool.                                              *)
LEMMA AdditionLinks ==
    ASSUME NEW q, NEW t, NEW r, Addition(q, t, r)
    PROVE  /\ WellFormed(q) /\ t \in Tx /\ t \notin InPool(q) /\ InPool(r) = InPool(q) \cup {t}
           /\ \A k \in InPool(q) : /\ Parents(r)[k] = Parents(q)[k]
                                   /\ Children(r)[k] = IF k \in Sources(t) THEN Children(q)[k] \cup {t} ELSE Children(q)[k]
           /\ Parents(r)[t] = Sources(t) \cap InPool(q) /\ Children(r)[t] = {}
    BY DEF Addition, Parents, Children

(* An addition leaves a well formed pool, with the fees it had.            *)
LEMMA AdditionWellFormed ==
    ASSUME NEW q, NEW t, NEW r, Addition(q, t, r)
    PROVE  /\ WellFormed(r) /\ \A k \in InPool(q) : r.mapTx[k].delta = q.mapTx[k].delta
           /\ ModifiedFee(r, t) = Fee[t] + Delta(q, t) /\ \A k : Delta(r, k) = Delta(q, k)
    <1>1. /\ WellFormed(q) /\ t \in Tx /\ t \notin InPool(q) /\ InPool(r) = InPool(q) \cup {t}
          /\ \A k \in InPool(q) : /\ Parents(r)[k] = Parents(q)[k]
                                  /\ Children(r)[k] = IF k \in Sources(t) THEN Children(q)[k] \cup {t} ELSE Children(q)[k]
          /\ Parents(r)[t] = Sources(t) \cap InPool(q) /\ Children(r)[t] = {}
      BY AdditionLinks
    <1>2. /\ r.mapDeltas = q.mapDeltas /\ r.mapAssetToHash = q.mapAssetToHash
          /\ r.mapReissuedAssets = q.mapReissuedAssets
      BY DEF Addition
    <1>3. r = [mapTx |-> r.mapTx, mapLinks |-> r.mapLinks, mapNextTx |-> r.mapNextTx,
               mapDeltas |-> r.mapDeltas, mapAssetToHash |-> r.mapAssetToHash,
               mapReissuedAssets |-> r.mapReissuedAssets]
      BY <1>2, Zenon DEF Addition
    <1>4. Fee[t] \in Nat /\ Delta(q, t) \in Nat /\ FeesOf(q, Above(q, t)) \in Nat
          /\ Cardinality(Above(q, t)) \in Nat
      <2>1. Above(q, t) \in SUBSET InPool(q)
        BY <1>1, PoolGraph, ReachIs DEF Above
      <2>2. FeesOf(q, Above(q, t)) \in Nat /\ IsFiniteSet(Above(q, t))
        BY <1>1, <2>1, FeesAre
      <2>3. QED
        BY <1>1, <2>2, TxAssumption, DeltaNat, FS_CardinalityType
    <1>5. ASSUME NEW k \in InPool(q) PROVE r.mapTx[k] \in Entry /\ r.mapTx[k].delta = q.mapTx[k].delta
      <2> DEFINE e == q.mapTx[k]
      <2>1. e \in Entry
        BY <1>1 DEF WellFormed
      <2>2. r.mapTx[k] = IF k \in Above(q, t)
                THEN [delta |-> e.delta, nAnc |-> e.nAnc, feeAnc |-> e.feeAnc,
                      nDesc |-> e.nDesc + 1, feeDesc |-> e.feeDesc + Fee[t] + Delta(q, t)]
                ELSE e
        BY <1>1 DEF Addition
      <2> HIDE DEF e
      <2>3. r.mapTx[k] \in Entry /\ r.mapTx[k].delta = e.delta
        BY <1>4, <2>1, <2>2 DEF Entry
      <2>4. QED
        BY <2>3 DEF e
    <1>6. r.mapTx[t] \in Entry /\ r.mapTx[t].delta = Delta(q, t)
      <2>1. r.mapTx[t] = [delta |-> Delta(q, t), nAnc |-> 1 + Cardinality(Above(q, t)),
                         feeAnc |-> Fee[t] + Delta(q, t) + FeesOf(q, Above(q, t)),
                         nDesc |-> 1, feeDesc |-> Fee[t] + Delta(q, t)]
        BY <1>1 DEF Addition
      <2>2. QED
        BY <1>4, <2>1 DEF Entry
    <1>7. r.mapTx \in [InPool(r) -> Entry]
      <2>1. r.mapTx = [k \in InPool(r) |-> r.mapTx[k]]
        BY DEF Addition
      <2>2. QED
        BY <1>1, <1>5, <1>6, <2>1
    <1>8. r.mapLinks \in [InPool(r) -> [parents : SUBSET InPool(r), children : SUBSET InPool(r)]]
      <2>1. \A k \in InPool(q) : Parents(q)[k] \subseteq InPool(q) /\ Children(q)[k] \subseteq InPool(q)
        BY <1>1, PoolGraph
      <2>2. QED
        BY <1>1, <2>1 DEF Addition
    <1>9. IsMap(r.mapNextTx)
      BY DEF Addition, IsMap
    <1>10. \A x, y \in InPool(r) : y \in Children(r)[x] <=> x \in Parents(r)[y]
      <2>1. /\ \A k \in InPool(q) : Parents(q)[k] \subseteq InPool(q) /\ Children(q)[k] \subseteq InPool(q)
            /\ \A x, y \in InPool(q) : y \in Children(q)[x] <=> x \in Parents(q)[y]
        BY <1>1, PoolGraph DEF Opposite
      <2>2. ASSUME NEW x \in InPool(q), NEW y \in InPool(q) PROVE y \in Children(r)[x] <=> x \in Parents(r)[y]
        <3>1. y # t
          BY <1>1
        <3>2. y \in Children(r)[x] <=> y \in Children(q)[x]
          BY <1>1, <3>1
        <3>3. QED
          BY <1>1, <2>1, <3>2
      <2>3. ASSUME NEW x \in InPool(q) PROVE t \in Children(r)[x] <=> x \in Parents(r)[t]
        BY <1>1, <2>1
      <2>4. ASSUME NEW y \in InPool(q) PROVE y \in Children(r)[t] <=> t \in Parents(r)[y]
        BY <1>1, <2>1
      <2>5. t \in Children(r)[t] <=> t \in Parents(r)[t]
        BY <1>1
      <2>6. QED
        BY <1>1, <2>2, <2>3, <2>4, <2>5
    <1>11. WellFormed(r)
      BY <1>1, <1>2, <1>3, <1>7, <1>8, <1>9, <1>10 DEF WellFormed
    <1>12. ModifiedFee(r, t) = Fee[t] + Delta(q, t) /\ \A k : Delta(r, k) = Delta(q, k)
      BY <1>2, <1>6 DEF ModifiedFee, Delta
    <1>13. QED
      BY <1>5, <1>11, <1>12

(* What is reached once the transaction is in.                             *)
LEMMA AdditionReach ==
    ASSUME NEW q, NEW t, NEW r, Addition(q, t, r)
    PROVE  /\ Up(r, t) = {t} \cup Above(q, t) /\ Down(r, t) = {t} /\ Above(q, t) \subseteq InPool(q)
           /\ \A k \in InPool(q) : /\ Up(r, k) = Up(q, k)
                                   /\ Down(r, k) = IF k \in Above(q, t) THEN Down(q, k) \cup {t} ELSE Down(q, k)
    <1> DEFINE V == InPool(q)
               W == InPool(r)
               P == Sources(t) \cap InPool(q)
    <1>1. /\ WellFormed(q) /\ t \in Tx /\ t \notin V /\ W = V \cup {t}
          /\ \A k \in V : /\ Parents(r)[k] = Parents(q)[k]
                          /\ Children(r)[k] = IF k \in Sources(t) THEN Children(q)[k] \cup {t} ELSE Children(q)[k]
          /\ Parents(r)[t] = P /\ Children(r)[t] = {}
      BY AdditionLinks
    <1>2. WellFormed(r)
      BY AdditionWellFormed
    <1>3. /\ Opposite(V, Children(q), Parents(q)) /\ Parents(q) \in [V -> SUBSET V]
          /\ Parents(r) \in [W -> SUBSET W] /\ Children(r) \in [W -> SUBSET W]
      BY <1>1, <1>2, PoolGraph
    <1>4. P \in SUBSET V /\ \A k \in V : k \in P <=> k \in Sources(t)
      OBVIOUS
    <1> HIDE DEF V, W, P
    <1>5. Extended(V, Children(q), Parents(q), t, P, W, Children(r), Parents(r))
      <2>1. V \subseteq W /\ t \in W /\ \A x \in W : x \in V \/ x = t
        BY <1>1
      <2>2. \A x \in V : Children(r)[x] = IF x \in P THEN Children(q)[x] \cup {t} ELSE Children(q)[x]
        BY <1>1, <1>4
      <2>3. QED
        BY <1>1, <1>3, <1>4, <2>1, <2>2 DEF Extended
    <1>6. /\ Reach(W, Children(r), {t}) = {t}
          /\ Reach(W, Parents(r), {t}) = {t} \cup Reach(V, Parents(q), P)
          /\ \A k \in V : Reach(W, Parents(r), {k}) = Reach(V, Parents(q), {k})
          /\ \A k \in V : Reach(W, Children(r), {k}) =
                 IF k \in Reach(V, Parents(q), P) THEN Reach(V, Children(q), {k}) \cup {t} ELSE Reach(V, Children(q), {k})
      <2>1. ExtendedReach(V, Children(q), Parents(q), t, P, W, Children(r), Parents(r))
        BY <1>5, ReachWith
      <2>2. QED
        BY <2>1 DEF ExtendedReach
    <1>7. Above(q, t) = Reach(V, Parents(q), P) /\ Above(q, t) \subseteq V
      BY <1>3, <1>4, ReachIs DEF Above, V, P
    <1>8. QED
      BY <1>6, <1>7 DEF Up, Down, V, W

(* addUnchecked counts the newcomer at all its ancestors and them at it.   *)
LEMMA AdditionCounted ==
    ASSUME NEW q, NEW t, NEW r, Addition(q, t, r), Counted(q)
    PROVE  Counted(r)
    <1>1. /\ WellFormed(q) /\ t \in Tx /\ t \notin InPool(q) /\ InPool(r) = InPool(q) \cup {t}
      BY AdditionLinks
    <1>2. /\ WellFormed(r) /\ \A k \in InPool(q) : r.mapTx[k].delta = q.mapTx[k].delta
          /\ ModifiedFee(r, t) = Fee[t] + Delta(q, t) /\ \A k : Delta(r, k) = Delta(q, k)
      BY AdditionWellFormed
    <1>3. /\ Up(r, t) = {t} \cup Above(q, t) /\ Down(r, t) = {t} /\ Above(q, t) \subseteq InPool(q)
          /\ \A k \in InPool(q) : /\ Up(r, k) = Up(q, k)
                                  /\ Down(r, k) = IF k \in Above(q, t) THEN Down(q, k) \cup {t} ELSE Down(q, k)
      BY AdditionReach
    <1> DEFINE fee == Fee[t] + Delta(q, t)
    <1>4. fee \in Nat
      BY <1>1, TxAssumption, DeltaNat
    <1>5. ASSUME NEW S \in SUBSET InPool(q)
          PROVE  /\ FeesOf(r, S) = FeesOf(q, S) /\ FeesOf(q, S) \in Nat /\ Cardinality(S) \in Nat
                 /\ FeesOf(r, S \cup {t}) = FeesOf(q, S) + fee /\ Cardinality(S \cup {t}) = Cardinality(S) + 1
      <2>1. FeesOf(r, S) = FeesOf(q, S)
        BY <1>1, <1>2, FeesSame
      <2>2. S \in SUBSET InPool(r) /\ t \in InPool(r) /\ t \notin S
        BY <1>1
      <2>3. /\ FeesOf(r, S \cup {t}) = FeesOf(r, S) + ModifiedFee(r, t)
            /\ Cardinality(S \cup {t}) = Cardinality(S) + 1
            /\ FeesOf(r, S) \in Nat /\ Cardinality(S) \in Nat
        BY <1>2, <2>2, FeesWith
      <2>4. QED
        BY <1>2, <2>1, <2>3
    <1> HIDE DEF fee
    <1>6. Counts(r, t, Up(r, t), Down(r, t))
      <2>1. r.mapTx[t] = [delta |-> Delta(q, t), nAnc |-> 1 + Cardinality(Above(q, t)),
                         feeAnc |-> fee + FeesOf(q, Above(q, t)), nDesc |-> 1, feeDesc |-> fee]
        BY <1>1 DEF Addition, fee
      <2>2. Up(r, t) = Above(q, t) \cup {t} /\ Down(r, t) = {} \cup {t}
        BY <1>3
      <2>3. /\ FeesOf(r, Up(r, t)) = FeesOf(q, Above(q, t)) + fee
            /\ Cardinality(Up(r, t)) = Cardinality(Above(q, t)) + 1
            /\ FeesOf(q, Above(q, t)) \in Nat /\ Cardinality(Above(q, t)) \in Nat
        BY <1>3, <1>5, <2>2
      <2>4. FeesOf(r, Down(r, t)) = fee /\ Cardinality(Down(r, t)) = 1
        <3>1. FeesOf(r, {} \cup {t}) = FeesOf(q, {}) + fee /\ Cardinality({} \cup {t}) = Cardinality({}) + 1
          <4>1. {} \in SUBSET InPool(q)
            OBVIOUS
          <4> DEFINE S == {}
          <4> HIDE DEF S
          <4>2. S \in SUBSET InPool(q)
            BY <4>1 DEF S
          <4>3. FeesOf(r, S \cup {t}) = FeesOf(q, S) + fee /\ Cardinality(S \cup {t}) = Cardinality(S) + 1
            BY <1>5, <4>2
          <4>4. QED
            BY <4>3 DEF S
        <3>2. FeesOf(q, {}) = 0 /\ Cardinality({}) = 0
          BY <1>1, FeesNone
        <3>3. QED
          BY <1>4, <2>2, <3>1, <3>2
      <2>5. QED
        BY <1>2, <1>4, <2>1, <2>3, <2>4 DEF Counts
    <1>7. ASSUME NEW k \in InPool(q) PROVE Counts(r, k, Up(r, k), Down(r, k))
      <2> DEFINE e == q.mapTx[k]
      <2>1. r.mapTx[k] = IF k \in Above(q, t)
                THEN [delta |-> e.delta, nAnc |-> e.nAnc, feeAnc |-> e.feeAnc,
                      nDesc |-> e.nDesc + 1, feeDesc |-> e.feeDesc + Fee[t] + Delta(q, t)]
                ELSE e
        BY <1>1 DEF Addition
      <2>2. Counts(q, k, Up(q, k), Down(q, k)) /\ e \in Entry
        BY <1>1 DEF Counted, WellFormed
      <2>3. e.feeDesc + Fee[t] + Delta(q, t) = e.feeDesc + fee
        BY <1>1, <2>2, TxAssumption, DeltaNat DEF fee, Entry
      <2> HIDE DEF e
      <2>4. Up(q, k) \in SUBSET InPool(q) /\ Down(q, k) \in SUBSET InPool(q)
        BY <1>1, PoolGraph, ReachOne DEF Up, Down
      <2>5. FeesOf(r, Up(q, k)) = FeesOf(q, Up(q, k)) /\ FeesOf(r, Down(q, k)) = FeesOf(q, Down(q, k))
            /\ FeesOf(r, Down(q, k) \cup {t}) = FeesOf(q, Down(q, k)) + fee
            /\ Cardinality(Down(q, k) \cup {t}) = Cardinality(Down(q, k)) + 1
        BY <1>5, <2>4
      <2>6. Up(r, k) = Up(q, k) /\ Delta(r, k) = Delta(q, k)
        BY <1>2, <1>3
      <2>7. CASE k \in Above(q, t)
        <3>1. Down(r, k) = Down(q, k) \cup {t}
          BY <1>3, <2>7
        <3>2. r.mapTx[k] = [delta |-> e.delta, nAnc |-> e.nAnc, feeAnc |-> e.feeAnc,
                            nDesc |-> e.nDesc + 1, feeDesc |-> e.feeDesc + fee]
          BY <2>1, <2>3, <2>7
        <3>3. QED
          BY <2>2, <2>5, <2>6, <3>1, <3>2 DEF Counts, e
      <2>8. CASE k \notin Above(q, t)
        <3>1. Down(r, k) = Down(q, k) /\ r.mapTx[k] = e
          BY <1>3, <2>1, <2>8
        <3>2. QED
          BY <2>2, <2>5, <2>6, <3>1 DEF Counts, e
      <2>9. QED
        BY <2>7, <2>8
    <1>8. QED
      BY <1>1, <1>6, <1>7 DEF Counted

(* A sound pool is sound with one more, that conflicts with nothing.  L    *)
(* says whether it is one of those whose children are still to be linked.  *)
Ready(q, H, M, C, W, X, t, L, W2) ==
    /\ Sound(q, H, M, C, W, X) /\ t \in Tx /\ t \notin InPool(q) /\ (L = {} \/ L = {t})
    /\ Spends(t) \cap DOMAIN q.mapNextTx = {} /\ t \notin Sources(t) /\ t \notin C
    /\ L = {} => H = {} /\ M = {} /\ \A u \in InPool(q) : t \notin Sources(u)
    /\ L = {t} => H = M /\ Sources(t) \cap InPool(q) \subseteq H /\ \A u \in H : t \notin Sources(u)
    /\ t \notin H /\ W \subseteq W2 \cup {t}
    /\ \A o \in Spends(t) : o[1] \in InPool(q) \cup W2 \/ Coin(C, o)
    /\ Issue[t] # None => Issue[t] \notin Names(C)

Grown(q, H, M, C, X, t, L, W2, r) ==
    /\ Sound(r, H \cup L, M \cup L, C, W2, X \cup {t}) /\ InPool(r) = InPool(q) \cup {t}
    /\ r.mapAssetToHash = q.mapAssetToHash /\ r.mapReissuedAssets = q.mapReissuedAssets

(* addUnchecked keeps a pool sound, but for the claims of the newcomer.    *)
LEMMA SoundAdd ==
    ASSUME NEW q, NEW H, NEW M, NEW C, NEW W, NEW X, NEW t, NEW L, NEW W2, Ready(q, H, M, C, W, X, t, L, W2)
    PROVE  Grown(q, H, M, C, X, t, L, W2, addUnchecked(q, t))
    <1> USE DEF Ready
    <1> DEFINE r == addUnchecked(q, t)
    <1>0. WellFormed(q) /\ SpendsKnown(q) /\ Linked(q, H, M) /\ Counted(q) /\ Supplied(q, C, W)
          /\ InPool(q) \cap C = {} /\ Claimed(q, X) /\ Free(q, C)
      BY DEF Sound
    <1>1. Addition(q, t, r)
      BY <1>0, AddedIs
    <1> HIDE DEF r
    <1>2. /\ InPool(r) = InPool(q) \cup {t} /\ Parents(r)[t] = Sources(t) \cap InPool(q)
          /\ \A k \in InPool(q) : Parents(r)[k] = Parents(q)[k]
      <2>1. /\ WellFormed(q) /\ t \in Tx /\ t \notin InPool(q) /\ InPool(r) = InPool(q) \cup {t}
            /\ \A k \in InPool(q) : /\ Parents(r)[k] = Parents(q)[k]
                   /\ Children(r)[k] = IF k \in Sources(t) THEN Children(q)[k] \cup {t} ELSE Children(q)[k]
            /\ Parents(r)[t] = Sources(t) \cap InPool(q) /\ Children(r)[t] = {}
        BY <1>1, AdditionLinks
      <2>2. QED
        BY <2>1
    <1>3. WellFormed(r)
      BY <1>1, AdditionWellFormed
    <1>4. Counted(r)
      BY <1>0, <1>1, AdditionCounted
    <1>5. SpendsKnown(r)
      <2>1. r.mapNextTx = [o \in DOMAIN q.mapNextTx \cup Spends(t) |->
                         IF o \in DOMAIN q.mapNextTx THEN q.mapNextTx[o] ELSE t]
        BY <1>1 DEF Addition
      <2>2. DOMAIN r.mapNextTx = UNION {Spends(k) : k \in InPool(r)}
        BY <1>0, <1>2, <2>1 DEF SpendsKnown
      <2>3. ASSUME NEW k \in InPool(q), NEW o \in Spends(k) PROVE r.mapNextTx[o] = k
        BY <1>0, <2>1 DEF SpendsKnown
      <2>4. ASSUME NEW o \in Spends(t) PROVE r.mapNextTx[o] = t
        BY <2>1
      <2>5. QED
        BY <1>2, <2>2, <2>3, <2>4 DEF SpendsKnown
    <1>6. Linked(r, H \cup L, M \cup L)
      <2>1. CASE L = {}
        <3>1. ASSUME NEW k \in InPool(r) PROVE Parents(r)[k] = Sources(k) \cap InPool(r)
          <4>1. CASE k = t
            BY <1>2, <4>1
          <4>2. CASE k # t
            <5>1. k \in InPool(q) /\ Parents(r)[k] = Parents(q)[k] /\ t \notin Sources(k)
              BY <1>2, <2>1, <4>2
            <5>2. Parents(q)[k] = Sources(k) \cap InPool(q)
              BY <1>0, <2>1, <5>1 DEF Linked
            <5>3. QED
              BY <1>2, <5>1, <5>2
          <4>3. QED
            BY <4>1, <4>2
        <3>2. QED
          BY <2>1, <3>1 DEF Linked
      <2>2. CASE L = {t}
        <3>1. ASSUME NEW k \in InPool(q), k \in H
              PROVE  Parents(r)[k] = Sources(k) \cap InPool(r) /\ Parents(r)[k] \subseteq H
          <4>1. Parents(q)[k] = Sources(k) \cap InPool(q) /\ Parents(q)[k] \subseteq H
            BY <1>0, <3>1 DEF Linked
          <4>2. t \notin Sources(k)
            BY <2>2, <3>1
          <4>3. QED
            BY <1>2, <4>1, <4>2
        <3>2. ASSUME NEW k \in InPool(q), k \notin H
              PROVE  Parents(r)[k] = (Sources(k) \cap InPool(r)) \ (M \cup {t})
          <4>1. Parents(q)[k] = (Sources(k) \cap InPool(q)) \ M
            BY <1>0, <3>2 DEF Linked
          <4>2. QED
            BY <1>2, <4>1
        <3>3. Parents(r)[t] = Sources(t) \cap InPool(r) /\ Parents(r)[t] \subseteq H
          BY <1>2, <2>2
        <3>4. QED
          BY <1>2, <2>2, <3>1, <3>2, <3>3 DEF Linked
      <2>3. QED
        BY <2>1, <2>2
    <1>7. Supplied(r, C, W2)
      <2>1. ASSUME NEW k \in InPool(q), NEW o \in Spends(k) PROVE o[1] \in InPool(r) \cup W2 \/ Coin(C, o)
        <3>1. o[1] \in InPool(q) \cup W \/ Coin(C, o)
          BY <1>0 DEF Supplied
        <3>2. QED
          BY <1>2, <3>1
      <2>2. ASSUME NEW o \in Spends(t) PROVE o[1] \in InPool(r) \cup W2 \/ Coin(C, o)
        BY <1>2
      <2>3. QED
        BY <1>2, <2>1, <2>2 DEF Supplied
    <1>8. r.mapAssetToHash = q.mapAssetToHash /\ r.mapReissuedAssets = q.mapReissuedAssets
      BY <1>1 DEF Addition
    <1>9. Claimed(r, X \cup {t})
      <2>1. InPool(r) \ (X \cup {t}) \subseteq InPool(q) \ X
        BY <1>2
      <2>2. InPool(q) \subseteq InPool(r)
        BY <1>2
      <2>3. QED
        BY <1>0, <1>8, <2>1, <2>2 DEF Claimed
    <1>10. InPool(r) \cap C = {} /\ Free(r, C)
      BY <1>0, <1>2 DEF Free
    <1>11. QED
      BY <1>2, <1>3, <1>4, <1>5, <1>6, <1>7, <1>8, <1>9, <1>10 DEF Sound, Grown, r

-----------------------------------------------------------------------------
(* Evicting.                                                               *)
LEMMA TrimmedIs ==
    ASSUME NEW p
    PROVE  \E h : /\ h[0] = {p} /\ \A i \in 1..Cardinality(Tx) : h[i] = UNION {TrimOnce(r) : r \in h[i - 1]}
                  /\ TrimToSize(p) = h[Cardinality(Tx)] /\ Cardinality(Tx) \in Nat
    <1> DEFINE n == Cardinality(Tx)
               k == <<"trim">>
               after == CHOOSE w : w = [i \in 0..n |->
                            IF i = 0 THEN {p} ELSE UNION {TrimOnce(r) : r \in w[i - 1]}]
    <1>1. n \in Nat
      BY TxAssumption, FS_CardinalityType
    <1>2. PICK h : h = [i \in 0..n |-> h[i]] /\ Steps(h, n, k, p, {p})
      <2> HIDE DEF n, k
      <2>1. QED
        BY <1>1, StepsExist
    <1>3. \E w : w = [i \in 0..n |-> IF i = 0 THEN {p} ELSE UNION {TrimOnce(r) : r \in w[i - 1]}]
      <2> HIDE DEF n
      <2>1. ASSUME NEW i \in 0..n
            PROVE  h[i] = IF i = 0 THEN {p} ELSE UNION {TrimOnce(r) : r \in h[i - 1]}
        <3>1. CASE i = 0
          BY <1>2, <3>1 DEF Steps
        <3>2. CASE i # 0
          <4>1. h[i] = Turn(k, h[i - 1], p[i])
            <5> HIDE DEF k
            <5>1. i \in 1..n
              BY <1>1, <3>2
            <5>2. QED
              BY <1>2, <5>1, Zenon DEF Steps
          <4>2. QED
            BY <3>2, <4>1 DEF Turn
        <3>3. QED
          BY <3>1, <3>2
      <2>2. h = [i \in 0..n |-> IF i = 0 THEN {p} ELSE UNION {TrimOnce(r) : r \in h[i - 1]}]
        BY <1>2, <2>1
      <2>3. QED
        BY <2>2
    <1>4. after = [i \in 0..n |-> IF i = 0 THEN {p} ELSE UNION {TrimOnce(r) : r \in after[i - 1]}]
      BY <1>3, Zenon
    <1>5. TrimToSize(p) = after[n]
      BY DEF TrimToSize, TrimOnce
    <1> HIDE DEF after
    <1>6. ASSUME NEW i \in 1..n PROVE after[i] = UNION {TrimOnce(r) : r \in after[i - 1]}
      <2>1. i \in 0..n /\ i # 0
        BY <1>1
      <2>2. QED
        BY <1>4, <2>1
    <1>7. after[0] = {p}
      BY <1>1, <1>4
    <1>8. QED
      BY <1>1, <1>5, <1>6, <1>7

(* TrimToSize keeps the pool sound.                                        *)
LEMMA SoundTrim ==
    ASSUME NEW p, NEW C, NEW W, NEW X, Sound(p, {}, {}, C, W, X), NEW r \in TrimToSize(p)
    PROVE  Sound(r, {}, {}, C, W, X) /\ Less(r, p)
    <1> DEFINE n == Cardinality(Tx)
               Fit(z) == Sound(z, {}, {}, C, W, X) /\ Less(z, p)
    <1>1. PICK h : /\ h[0] = {p} /\ \A i \in 1..n : h[i] = UNION {TrimOnce(z) : z \in h[i - 1]}
                   /\ TrimToSize(p) = h[n] /\ n \in Nat
      BY TrimmedIs
    <1> DEFINE T == {i \in 0..n : \A z \in h[i] : Fit(z)}
    <1>2. ASSUME NEW z, Fit(z), NEW y \in TrimOnce(z) PROVE Fit(y)
      <2>1. CASE y = z
        BY <1>2, <2>1
      <2>2. CASE \E t \in Cheapest(z) : y = RemoveStaged(z, CalculateDescendants(z, {t}), FALSE)
        <3>1. PICK t \in Cheapest(z) : y = RemoveStaged(z, CalculateDescendants(z, {t}), FALSE)
          BY <2>2
        <3>2. {t} \in SUBSET InPool(z)
          BY DEF Cheapest
        <3> DEFINE F == {t}
        <3>3. y = RemoveStaged(z, CalculateDescendants(z, F), FALSE) /\ F \in SUBSET InPool(z)
          BY <3>1, <3>2
        <3> HIDE DEF F
        <3>4. Sound(y, {}, {}, C, W, X) /\ Less(y, z)
          <4> DEFINE H == {}
          <4>1. F \cap H = {} /\ H \subseteq H /\ Sound(z, H, H, C, W, X)
            BY <1>2
          <4> HIDE DEF H
          <4>2. Sound(y, H, H, C, W, X) /\ Less(y, z)
            BY <3>3, <4>1, SoundBelow
          <4>3. QED
            BY <4>2 DEF H
        <3>5. QED
          BY <1>2, <3>4, LessTrans
      <2>3. QED
        BY <2>1, <2>2 DEF TrimOnce
    <1> HIDE DEF n, Fit
    <1>3. 0 \in T
      <2>1. Fit(p)
        BY LessSame DEF Fit
      <2>2. QED
        BY <1>1, <2>1
    <1>4. ASSUME NEW i \in 1..n, i - 1 \in T PROVE i \in T
      <2>1. i \in 0..n /\ h[i] = UNION {TrimOnce(z) : z \in h[i - 1]}
        BY <1>1
      <2>2. QED
        BY <1>2, <1>4, <2>1
    <1>5. n \in T
      <2> HIDE DEF T
      <2>1. 0..n \subseteq T
        BY <1>1, <1>3, <1>4, UpTo
      <2>2. QED
        BY <1>1, <2>1
    <1>6. QED
      BY <1>1, <1>5 DEF Fit, n

(* LimitMempoolSize, expiry first, keeps the pool sound.                   *)
LEMMA SoundLimit ==
    ASSUME NEW p, NEW C, NEW W, NEW X, Sound(p, {}, {}, C, W, X), NEW old, NEW r \in LimitMempoolSize(p, old)
    PROVE  Sound(r, {}, {}, C, W, X) /\ Less(r, p)
    <1> DEFINE F == old \cap InPool(p)
               z == RemoveStaged(p, CalculateDescendants(p, F), FALSE)
    <1>1. r \in TrimToSize(z)
      BY DEF LimitMempoolSize, Expire
    <1>2. F \in SUBSET InPool(p)
      OBVIOUS
    <1> HIDE DEF F
    <1>3. Sound(z, {}, {}, C, W, X) /\ Less(z, p)
      <2> DEFINE H == {}
      <2>1. F \cap H = {} /\ H \subseteq H /\ Sound(p, H, H, C, W, X)
        OBVIOUS
      <2> HIDE DEF H
      <2>2. Sound(z, H, H, C, W, X) /\ Less(z, p)
        BY <1>2, <2>1, SoundBelow
      <2>3. QED
        BY <2>2 DEF H
    <1> HIDE DEF z
    <1>4. Sound(r, {}, {}, C, W, X) /\ Less(r, z)
      BY <1>1, <1>3, SoundTrim
    <1>5. QED
      BY <1>3, <1>4, LessTrans

-----------------------------------------------------------------------------
(* Accepting a transaction.  What it would claim is free, or its own.      *)
Open(q, t) ==
    /\ Issue[t] # None => Issue[t] \notin DOMAIN q.mapAssetToHash
    /\ Reissue[t] # None /\ Reissue[t] \in DOMAIN q.mapReissuedAssets => q.mapReissuedAssets[Reissue[t]] = t

(* What it conflicts with is none of its ancestors.                        *)
Replaceable(q, t) == Conflicts(q, t) \cap SetAncestors(q, t) = {}

Admitted(q, ch, t) ==
    /\ t \in Standard /\ LockHeight[t] <= Len(ch) + 1 /\ t \notin InPool(q)
    /\ \A o \in Spends(t) : o[1] \in InPool(q) \/ Coin(ChainTx(ch), o)
    /\ Issue[t] # None => Issue[t] \notin Names(ChainTx(ch))
    /\ Open(q, t)
    /\ Replaceable(q, t)

(* With the limits or without, Acceptable checks at least this.            *)
LEMMA AdmittedIs ==
    ASSUME NEW q, NEW ch, NEW t
    PROVE  /\ Acceptable(q, ch, t, TRUE) => Admitted(q, ch, t)
           /\ Acceptable(q, ch, t, FALSE) => Admitted(q, ch, t)
    <1> DEFINE Common == /\ t \in Standard /\ LockHeight[t] <= Len(ch) + 1 /\ t \notin InPool(q)
                         /\ \A o \in ToSet(vin[t]) : o[1] \in InPool(q) \/ HaveCoin(ch, o)
                         /\ CheckTxAssets(q, ch, t, TRUE) /\ MayReplace(q, t)
    <1>1. Acceptable(q, ch, t, TRUE) => Common
      BY Zenon DEF Acceptable
    <1>2. Acceptable(q, ch, t, FALSE) => Common
      BY Zenon DEF Acceptable
    <1>3. ASSUME Common PROVE Admitted(q, ch, t)
      <2>1. \A o \in Spends(t) : o[1] \in InPool(q) \/ Coin(ChainTx(ch), o)
        BY <1>3 DEF HaveCoin, Coin, Spends
      <2>2. (Issue[t] # None => Issue[t] \notin Names(ChainTx(ch))) /\ Open(q, t)
        BY <1>3 DEF CheckTxAssets, Open, Names, Issued
      <2>3. Replaceable(q, t)
        BY <1>3 DEF MayReplace, Replaceable
      <2>4. QED
        BY <1>3, <2>1, <2>2, <2>3 DEF Admitted
    <1> HIDE DEF Common
    <1>4. QED
      BY <1>1, <1>2, <1>3

(* What is admitted is not in the chain, does not spend itself, and nothing*)
(* that is supplied spends it.                                             *)
LEMMA AdmittedApart ==
    ASSUME NEW q, NEW ch, NEW t, Admitted(q, ch, t), NEW W, Supplied(q, ChainTx(ch), W),
           InPool(q) \subseteq Tx, InPool(q) \cap ChainTx(ch) = {}, Rooted(ChainTx(ch))
    PROVE  /\ t \in Tx /\ t \notin ChainTx(ch) /\ t \notin Sources(t)
           /\ t \notin W => \A u \in InPool(q) : t \notin Sources(u)
    <1> DEFINE C == ChainTx(ch)
    <1>1. t \in Tx /\ t \notin Coinbase /\ Base \notin Tx
      BY TxAssumption DEF Admitted
    <1>2. PICK e : e \in Spends(t)
      <2>1. vin[t] # <<>> /\ vin[t] \in Seq(Outpoint)
        BY <1>1, TxAssumption
      <2>2. 1 \in DOMAIN vin[t]
        BY <2>1
      <2>3. QED
        BY <2>2 DEF Spends, ToSet
    <1> HIDE DEF C
    <1>3. \A o \in Spends(t) : o[1] \in InPool(q) \/ Coin(C, o)
      BY DEF Admitted, C
    <1>4. t \notin C
      <2>1. SUFFICES ASSUME t \in C PROVE FALSE
        OBVIOUS
      <2>2. e[1] \in InPool(q)
        BY <1>2, <1>3, <2>1 DEF Coin
      <2>3. e[1] \in C \cup {Base}
        <3>1. e[1] \in Sources(t)
          BY <1>2 DEF Sources, Spends
        <3>2. QED
          BY <2>1, <3>1 DEF Rooted, C
      <2>4. QED
        BY <1>1, <2>2, <2>3 DEF C
    <1>5. t \notin Sources(t)
      <2>1. SUFFICES ASSUME NEW o \in Spends(t), o[1] = t PROVE FALSE
        BY DEF Sources, Spends
      <2>2. Coin(C, o)
        BY <1>3, <2>1 DEF Admitted
      <2>3. QED
        BY <1>1, <1>4, <2>1, <2>2 DEF Coin
    <1>6. ASSUME t \notin W, NEW u \in InPool(q), t \in Sources(u) PROVE FALSE
      <2>1. PICK o \in Spends(u) : o[1] = t
        BY <1>6 DEF Sources, Spends
      <2>2. Coin(C, o)
        BY <1>6, <2>1 DEF Supplied, Admitted, C
      <2>3. QED
        BY <1>1, <1>4, <2>1, <2>2 DEF Coin
    <1>7. QED
      BY <1>1, <1>4, <1>5, <1>6 DEF C

(* What conflicts goes with all that is below it, none of t's own parents. *)
LEMMA ConflictsGo ==
    ASSUME NEW q, WellFormed(q), SpendsKnown(q), NEW t, Replaceable(q, t)
    PROVE  /\ Conflicts(q, t) = {u \in InPool(q) : Spends(u) \cap Spends(t) # {}}
           /\ CalculateDescendants(q, Conflicts(q, t)) \cap Sources(t) = {}
    <1> DEFINE F == Conflicts(q, t)
               P == Sources(t) \cap InPool(q)
               V == InPool(q)
    <1>1. F = {u \in InPool(q) : Spends(u) \cap Spends(t) # {}}
      <2>1. ASSUME NEW u \in F PROVE u \in InPool(q) /\ Spends(u) \cap Spends(t) # {}
        <3>1. PICK o \in Spends(t) \cap DOMAIN q.mapNextTx : u = q.mapNextTx[o]
          BY DEF Conflicts, Spends
        <3>2. PICK v \in InPool(q) : o \in Spends(v)
          BY <3>1 DEF SpendsKnown
        <3>3. v = u
          BY <3>1, <3>2 DEF SpendsKnown
        <3>4. QED
          BY <3>1, <3>2, <3>3
      <2>2. ASSUME NEW u \in InPool(q), NEW o \in Spends(u) \cap Spends(t) PROVE u \in F
        <3>1. o \in DOMAIN q.mapNextTx /\ q.mapNextTx[o] = u
          BY DEF SpendsKnown
        <3>2. QED
          BY <3>1 DEF Conflicts, Spends
      <2> HIDE DEF F
      <2>3. QED
        BY <2>1, <2>2
    <1> HIDE DEF F, P, V
    <1>2. F \in SUBSET V /\ P \in SUBSET V
      BY <1>1 DEF P, V
    <1>3. Opposite(V, Children(q), Parents(q)) /\ Children(q) \in [V -> SUBSET V] /\ Parents(q) \in [V -> SUBSET V]
      BY PoolGraph DEF V
    <1>4. CalculateDescendants(q, F) = Reach(V, Children(q), F) /\ SetAncestors(q, t) = Reach(V, Parents(q), P)
      BY <1>2, DescendantsAre, AncestorsAre DEF V, P, SetAncestors
    <1>5. ASSUME NEW d, d \in CalculateDescendants(q, F), d \in Sources(t) PROVE FALSE
      <2>1. d \in Reach(V, Children(q), F) /\ F \subseteq V /\ P \subseteq V
        BY <1>2, <1>4, <1>5
      <2>2. From(V, Children(q), Parents(q), F, d)
        <3>1. Among(V, Children(q), Parents(q), F, d)
          BY <1>3, <2>1 DEF Among
        <3>2. QED
          BY <3>1, ReachedFrom
      <2>3. d \in V /\ \E c \in F : c \in Reach(V, Parents(q), {d})
        BY <2>2 DEF From
      <2> PICK c \in F : c \in Reach(V, Parents(q), {d})
        BY <2>3
      <2>4. d \in P /\ Opposite(V, Parents(q), Children(q))
        BY <1>5, <2>3, PoolGraph DEF P, V
      <2>5. c \in Reach(V, Parents(q), P)
        BY <2>1, <2>3, <2>4, ReachInto
      <2>6. QED
        BY <1>4, <2>3, <2>5 DEF F, Replaceable
    <1>6. QED
      BY <1>1, <1>5 DEF F

(* Stored: the conflicts are gone and the transaction is in.               *)
Storable(q, H, C, W, X, t, L, W2) ==
    /\ Sound(q, H, H, C, W, X) /\ t \in Tx /\ t \notin InPool(q) /\ (L = {} \/ L = {t})
    /\ Replaceable(q, t) /\ Conflicts(q, t) \cap H = {} /\ t \notin Sources(t) /\ t \notin C /\ t \notin H
    /\ W \subseteq W2 \cup {t} /\ H \subseteq InPool(q)
    /\ L = {} => H = {} /\ \A u \in InPool(q) : t \notin Sources(u)
    /\ L = {t} => Sources(t) \cap InPool(q) \subseteq H /\ \A u \in H : t \notin Sources(u)
    /\ \A o \in Spends(t) : o[1] \in InPool(q) \/ Coin(C, o)
    /\ Issue[t] # None => Issue[t] \notin Names(C)

Storing(q, H, C, X, t, L, W2, r) ==
    /\ Sound(r, H \cup L, H \cup L, C, W2, X \cup {t}) /\ t \in InPool(r)
    /\ InPool(r) \subseteq InPool(q) \cup {t} /\ H \subseteq InPool(r)
    /\ Part(r.mapAssetToHash, q.mapAssetToHash) /\ Part(r.mapReissuedAssets, q.mapReissuedAssets)

(* Replacing the conflicts and adding the newcomer keeps the pool sound.   *)
LEMMA SoundStored ==
    ASSUME NEW q, NEW H, NEW C, NEW W, NEW X, NEW t, NEW L, NEW W2, Storable(q, H, C, W, X, t, L, W2)
    PROVE  Storing(q, H, C, X, t, L, W2, Stored(q, t))
    <1> USE DEF Storable
    <1> DEFINE F == Conflicts(q, t)
               S == CalculateDescendants(q, F)
               z == RemoveStaged(q, S, FALSE)
               r == addUnchecked(z, t)
    <1>1. Stored(q, t) = r
      BY DEF Stored
    <1>2. WellFormed(q) /\ SpendsKnown(q)
      BY DEF Sound
    <1>3. F = {u \in InPool(q) : Spends(u) \cap Spends(t) # {}} /\ S \cap Sources(t) = {}
      BY <1>2, ConflictsGo
    <1>4. F \in SUBSET InPool(q) /\ F \cap H = {}
      BY <1>3
    <1> HIDE DEF F
    <1>5. /\ Sound(z, H, H, C, W, X) /\ Less(z, q) /\ InPool(z) = InPool(q) \ S
          /\ F \subseteq S /\ S \subseteq InPool(q) /\ S \cap H = {}
      BY <1>4, SoundBelow
    <1> HIDE DEF z, S
    <1>6. Spends(t) \cap DOMAIN z.mapNextTx = {}
      <2>1. SUFFICES ASSUME NEW o \in Spends(t), o \in DOMAIN z.mapNextTx PROVE FALSE
        OBVIOUS
      <2>2. PICK u \in InPool(z) : o \in Spends(u)
        BY <1>5, <2>1 DEF Sound, SpendsKnown
      <2>3. u \in F
        BY <1>3, <1>5, <2>2
      <2>4. QED
        BY <1>5, <2>2, <2>3
    <1>7. Sources(t) \cap InPool(z) = Sources(t) \cap InPool(q)
      BY <1>3, <1>5
    <1>8. L = {} => H = {} /\ \A u \in InPool(z) : t \notin Sources(u)
      BY <1>5
    <1>9. L = {t} => Sources(t) \cap InPool(z) \subseteq H /\ \A u \in H : t \notin Sources(u)
      BY <1>7
    <1>10. \A o \in Spends(t) : o[1] \in InPool(z) \cup W2 \/ Coin(C, o)
      <2>1. ASSUME NEW o \in Spends(t) PROVE o[1] \in Sources(t)
        BY DEF Sources, Spends
      <2>2. QED
        BY <1>7, <2>1
    <1>11. t \notin InPool(z)
      BY <1>5
    <1>12. Ready(z, H, H, C, W, X, t, L, W2)
      BY <1>5, <1>6, <1>8, <1>9, <1>10, <1>11 DEF Ready
    <1>16. /\ Sound(r, H \cup L, H \cup L, C, W2, X \cup {t}) /\ InPool(r) = InPool(z) \cup {t}
           /\ r.mapAssetToHash = z.mapAssetToHash /\ r.mapReissuedAssets = z.mapReissuedAssets
      <2>1. Grown(z, H, H, C, X, t, L, W2, r)
        BY <1>12, SoundAdd
      <2> HIDE DEF r
      <2>2. QED
        BY <2>1 DEF Grown
    <1> HIDE DEF r
    <1>13. Part(r.mapAssetToHash, q.mapAssetToHash) /\ Part(r.mapReissuedAssets, q.mapReissuedAssets)
      BY <1>5, <1>16 DEF Less
    <1>14. InPool(r) \subseteq InPool(q) \cup {t} /\ H \subseteq InPool(r) /\ t \in InPool(r)
      BY <1>5, <1>16
    <1>15. QED
      BY <1>1, <1>16, <1>13, <1>14, Zenon DEF Storing

(* What the asset maps say does not matter to the rest.                    *)
Remapped(q, r) ==
    /\ r.mapTx = q.mapTx /\ r.mapLinks = q.mapLinks /\ r.mapNextTx = q.mapNextTx
    /\ \A t \in InPool(q) : Delta(r, t) = Delta(q, t)

(* The totals do not depend on the maps of names.                          *)
LEMMA RemappedCounted ==
    ASSUME NEW q, NEW r, Remapped(q, r), WellFormed(q), WellFormed(r), Counted(q)
    PROVE  Counted(r) /\ InPool(r) = InPool(q)
    <1>1. InPool(r) = InPool(q) /\ Parents(r) = Parents(q) /\ Children(r) = Children(q)
      BY DEF Remapped, InPool, Parents, Children
    <1>2. ASSUME NEW S \in SUBSET InPool(q) PROVE FeesOf(r, S) = FeesOf(q, S)
      <2>1. S \subseteq InPool(r) /\ \A t \in S : r.mapTx[t].delta = q.mapTx[t].delta
        BY <1>1 DEF Remapped
      <2>2. QED
        BY <2>1, FeesSame
    <1>3. ASSUME NEW t \in InPool(r) PROVE Counts(r, t, Up(r, t), Down(r, t))
      <2>1. Up(r, t) = Up(q, t) /\ Down(r, t) = Down(q, t)
        BY <1>1 DEF Up, Down
      <2>5. Up(q, t) \in SUBSET InPool(q) /\ Down(q, t) \in SUBSET InPool(q)
        BY <1>1 DEF Up, Down, Reach
      <2>2. Counts(q, t, Up(q, t), Down(q, t))
        BY <1>1 DEF Counted
      <2>3. Delta(r, t) = Delta(q, t) /\ r.mapTx[t] = q.mapTx[t]
        BY <1>1 DEF Remapped
      <2>4. QED
        BY <1>2, <2>1, <2>2, <2>3, <2>5 DEF Counts
    <1>4. QED
      BY <1>1, <1>3 DEF Counted

(* Nor does anything else but the claims.                                  *)
LEMMA RemappedSound ==
    ASSUME NEW q, NEW H, NEW M, NEW C, NEW W, NEW X, Sound(q, H, M, C, W, X),
           NEW r, Remapped(q, r), WellFormed(r), NEW X2, Claimed(r, X2)
    PROVE  Sound(r, H, M, C, W, X2)
    <1>1. Counted(r) /\ InPool(r) = InPool(q)
      BY RemappedCounted DEF Sound
    <1>2. Parents(r) = Parents(q) /\ r.mapNextTx = q.mapNextTx
      BY DEF Remapped, InPool, Parents
    <1>3. SpendsKnown(r) /\ Linked(r, H, M) /\ Supplied(r, C, W) /\ Free(r, C)
      <2>1. SpendsKnown(r)
        BY <1>1, <1>2 DEF Sound, SpendsKnown
      <2>2. Linked(r, H, M)
        BY <1>1, <1>2 DEF Sound, Linked
      <2>3. Supplied(r, C, W) /\ Free(r, C)
        BY <1>1 DEF Sound, Supplied, Free
      <2>4. QED
        BY <2>1, <2>2, <2>3
    <1>4. QED
      BY <1>1, <1>3 DEF Sound

(* The asset maps, once the transaction is in to stay.                     *)
LEMMA SoundTracked ==
    ASSUME NEW p, NEW H, NEW M, NEW C, NEW W, NEW t, Sound(p, H, M, C, W, {t}), Open(p, t)
    PROVE  Sound(Tracked(p, t), H, M, C, W, {}) /\ InPool(Tracked(p, t)) = InPool(p)
    <1>0. WellFormed(p) /\ Claimed(p, {t})
      BY DEF Sound
    <1>1. CASE t \notin InPool(p)
      <2>1. Tracked(p, t) = p
        BY <1>1 DEF Tracked
      <2>2. Claimed(p, {})
        BY <1>0, <1>1 DEF Claimed
      <2>3. Sound(p, H, M, C, W, {})
        BY <2>2 DEF Sound
      <2>4. QED
        BY <2>1, <2>3
    <1>2. CASE t \in InPool(p)
      <2> DEFINE re == IF Reissue[t] # None THEN Insert(p.mapReissuedAssets, {Reissue[t]}, t) ELSE p.mapReissuedAssets
                 as == IF Issue[t] # None THEN Put(p.mapAssetToHash, Issue[t], t) ELSE p.mapAssetToHash
                 r == Tracked(p, t)
      <2>1. r = [p EXCEPT !.mapReissuedAssets = re, !.mapAssetToHash = as]
        BY <1>2 DEF Tracked
      <2> HIDE DEF re, as, r
      <2>2. r = [mapTx |-> p.mapTx, mapLinks |-> p.mapLinks, mapNextTx |-> p.mapNextTx,
                 mapDeltas |-> p.mapDeltas, mapAssetToHash |-> as, mapReissuedAssets |-> re]
        BY <1>0, <2>1 DEF WellFormed
      <2>3. /\ r.mapTx = p.mapTx /\ r.mapLinks = p.mapLinks /\ r.mapNextTx = p.mapNextTx
            /\ r.mapDeltas = p.mapDeltas /\ r.mapAssetToHash = as /\ r.mapReissuedAssets = re
        BY <2>2
      <2>4. Remapped(p, r) /\ InPool(r) = InPool(p) /\ Parents(r) = Parents(p) /\ Children(r) = Children(p)
        BY <2>3 DEF Remapped, Delta, InPool, Parents, Children
      <2>5. IsMap(as) /\ IsMap(re)
        BY <1>0 DEF IsMap, as, re, Insert, Put, WellFormed
      <2>6. WellFormed(r)
        <3>1. r = [mapTx |-> r.mapTx, mapLinks |-> r.mapLinks, mapNextTx |-> r.mapNextTx,
                 mapDeltas |-> r.mapDeltas, mapAssetToHash |-> r.mapAssetToHash, mapReissuedAssets |-> r.mapReissuedAssets]
          BY <2>2, <2>3
        <3>2. QED
          BY <1>0, <2>3, <2>4, <2>5, <3>1 DEF WellFormed
      <2>7. Claimed(r, {})
        <3>1. ASSUME NEW u \in InPool(p), Issue[u] # None PROVE Issue[u] \in DOMAIN as /\ as[Issue[u]] = u
          <4>1. CASE u = t
            BY <3>1, <4>1 DEF as, Put
          <4>2. CASE u # t
            BY <1>0, <3>1, <4>2 DEF as, Put, Claimed, Open
          <4>3. QED
            BY <4>1, <4>2
        <3>2. ASSUME NEW n \in DOMAIN as PROVE n # None /\ as[n] \in InPool(p) /\ Issue[as[n]] = n
          BY <1>0, <1>2 DEF as, Put, Claimed
        <3>3. ASSUME NEW u \in InPool(p), Reissue[u] # None PROVE Reissue[u] \in DOMAIN re /\ re[Reissue[u]] = u
          <4>1. CASE u = t
            BY <3>3, <4>1 DEF re, Insert, Open
          <4>2. CASE u # t
            BY <1>0, <3>3, <4>2 DEF re, Insert, Claimed
          <4>3. QED
            BY <4>1, <4>2
        <3>4. QED
          BY <2>3, <2>4, <3>1, <3>2, <3>3 DEF Claimed
      <2>8. Sound(r, H, M, C, W, {})
        <3> DEFINE X == {t}
                   X2 == {}
        <3>1. Sound(p, H, M, C, W, X) /\ Claimed(r, X2)
          BY <2>7
        <3> HIDE DEF X, X2
        <3>2. Sound(r, H, M, C, W, X2)
          BY <2>4, <2>6, <3>1, RemappedSound
        <3>3. QED
          BY <3>2 DEF X2
      <2>9. QED
        BY <2>4, <2>8 DEF r
    <1>3. QED
      BY <1>1, <1>2

(* What is free stays free in less.                                        *)
LEMMA OpenLess ==
    ASSUME NEW p, NEW q, NEW t, Open(q, t), Part(p.mapAssetToHash, q.mapAssetToHash),
           Part(p.mapReissuedAssets, q.mapReissuedAssets)
    PROVE  Open(p, t)
    BY DEF Open, Part

-----------------------------------------------------------------------------
(* Accepting and evicting, outside a reorganisation.                       *)
Ripe(q, ch) == \A t \in InPool(q) : LockHeight[t] <= Len(ch) + 1

(* What AcceptToMemoryPoolWorker makes of an idle pool.                    *)
LEMMA AcceptedSound ==
    ASSUME NEW q, NEW ch, NEW t, Sound(q, {}, {}, ChainTx(ch), {}, {}), Rooted(ChainTx(ch)), Ripe(q, ch),
           Admitted(q, ch, t), NEW old, NEW p \in LimitMempoolSize(Stored(q, t), old)
    PROVE  Sound(Tracked(p, t), {}, {}, ChainTx(ch), {}, {}) /\ Ripe(Tracked(p, t), ch)
    <1> DEFINE E == {}
               C == ChainTx(ch)
               X == {t}
               z == Stored(q, t)
    <1>1. Sound(q, E, E, C, E, E) /\ WellFormed(q) /\ Supplied(q, C, E) /\ InPool(q) \subseteq Tx /\ InPool(q) \cap C = {}
      BY DEF Sound, WellFormed
    <1>2. /\ t \in Tx /\ t \notin C /\ t \notin Sources(t)
          /\ t \notin E => \A u \in InPool(q) : t \notin Sources(u)
      <2> HIDE DEF E
      <2>1. QED
        BY <1>1, AdmittedApart
    <1>3. /\ Sound(z, E, E, C, E, X) /\ InPool(z) \subseteq InPool(q) \cup {t}
          /\ Part(z.mapAssetToHash, q.mapAssetToHash) /\ Part(z.mapReissuedAssets, q.mapReissuedAssets)
      <2>1. /\ t \notin InPool(q) /\ Replaceable(q, t) /\ (Issue[t] # None => Issue[t] \notin Names(C))
            /\ \A o \in Spends(t) : o[1] \in InPool(q) \/ Coin(C, o)
        BY DEF Admitted
      <2>2. /\ Conflicts(q, t) \cap E = {} /\ E \cup E = E /\ E \cup {t} = X /\ E \subseteq E \cup {t} /\ t \notin E
            /\ E \subseteq InPool(q) /\ (E = {t} => FALSE) /\ E = {}
        OBVIOUS
      <2> HIDE DEF E, z
      <2>3. Storable(q, E, C, E, E, t, E, E)
        BY <1>1, <1>2, <2>1, <2>2 DEF Storable
      <2>4. Storing(q, E, C, E, t, E, E, z)
        BY <2>3, SoundStored DEF z
      <2>5. QED
        BY <2>2, <2>4 DEF Storing
    <1> HIDE DEF z, X
    <1>4. Sound(p, {}, {}, C, E, X) /\ Less(p, z)
      <2>1. Sound(z, {}, {}, C, E, X)
        BY <1>3
      <2> HIDE DEF E
      <2>2. QED
        BY <2>1, SoundLimit DEF z
    <1>5. Open(p, t)
      <2>1. Open(q, t)
        BY DEF Admitted
      <2>2. Open(z, t)
        BY <1>3, <2>1, OpenLess
      <2>3. QED
        BY <1>4, <2>2, OpenLess DEF Less
    <1>6. Sound(Tracked(p, t), {}, {}, C, {}, {}) /\ InPool(Tracked(p, t)) = InPool(p)
      <2> HIDE DEF E
      <2>1. Sound(p, E, E, C, E, {t})
        BY <1>4 DEF X, E
      <2>2. Sound(Tracked(p, t), E, E, C, E, {}) /\ InPool(Tracked(p, t)) = InPool(p)
        BY <1>5, <2>1, SoundTracked
      <2>3. QED
        BY <2>2 DEF E
    <1>7. InPool(Tracked(p, t)) \subseteq InPool(q) \cup {t}
      BY <1>3, <1>4, <1>6 DEF Less
    <1>8. Ripe(Tracked(p, t), ch)
      BY <1>7 DEF Ripe, Admitted
    <1>9. QED
      BY <1>6, <1>8

(* Nothing of the chain spends what comes later.                           *)
LEMMA ChainRooted ==
    ASSUME ChainSound
    PROVE  Rooted(ChainTx(chain)) /\ ChainTx(chain) \subseteq Tx
    <1>1. ASSUME NEW t \in ChainTx(chain), NEW s \in Sources(t), s # Base PROVE s \in ChainTx(chain)
      <2>1. PICK i \in DOMAIN chain : t \in ToSet(chain[i])
        BY DEF ChainTx
      <2>2. PICK j \in 1..i : s \in ToSet(chain[j])
        BY <1>1, <2>1 DEF ChainSound
      <2>3. j \in DOMAIN chain
        BY <2>1 DEF ChainSound
      <2>4. QED
        BY <2>2, <2>3 DEF ChainTx
    <1>2. ChainTx(chain) \subseteq Tx
      <2>1. ASSUME NEW i \in DOMAIN chain PROVE ToSet(chain[i]) \subseteq Tx
        <3>1. chain[i] \in Seq(Tx)
          BY TxAssumption DEF ChainSound
        <3>2. QED
          BY <3>1 DEF ToSet
      <2>2. QED
        BY <2>1 DEF ChainTx
    <1>3. QED
      BY <1>1, <1>2 DEF Rooted

(* Outside a reorganisation nothing is queued or waits to be linked.       *)
Idle(p) == Sound(p, {}, {}, ChainTx(chain), {}, {}) /\ Ripe(p, chain)

(* An idle pool is sound with nothing outstanding.                         *)
LEMMA IdleIs ==
    ASSUME IInv, phase = "idle"
    PROVE  Idle(pool) /\ disconnectpool = <<>> /\ vHashUpdate = <<>> /\ Again = {} /\ Queued = {}
    <1>1. disconnectpool = <<>> /\ vHashUpdate = <<>>
      BY DEF IInv, QueueSound, AgainSound
    <1>2. Again = {} /\ Queued = {}
      BY <1>1 DEF Again, Queued, ToSet
    <1>3. QED
      BY <1>1, <1>2 DEF IInv, PoolSound, Idle, Ripe

(* What only changes the pool, and the file, then.                         *)
LEMMA IdleKept ==
    ASSUME IInv, phase = "idle", UNCHANGED <<chain, phase, disconnectpool, vHashUpdate>>,
           Idle(pool'), FileSound'
    PROVE  IInv'
    <1>1. disconnectpool = <<>> /\ vHashUpdate = <<>> /\ Again = {} /\ Queued = {}
      BY IdleIs
    <1>2. Again' = {} /\ Queued' = {} /\ disconnectpool' = <<>> /\ vHashUpdate' = <<>>
      BY <1>1 DEF Again, Queued
    <1>3. ChainSound' /\ phase' = "idle"
      BY DEF IInv, ChainSound
    <1>4. QueueSound'
      BY <1>1, <1>2, <1>3 DEF IInv, QueueSound, Apart
    <1>5. AgainSound'
      BY <1>1, <1>2 DEF IInv, AgainSound
    <1>6. PoolSound'
      BY <1>2 DEF PoolSound, Idle, Ripe
    <1>7. QED
      BY <1>3, <1>4, <1>5, <1>6 DEF IInv

(* AcceptToMemoryPool keeps the invariant.                                 *)
LEMMA StepAccept ==
    ASSUME IInv, NEW t \in Tx, AcceptToMemoryPool(t)
    PROVE  IInv'
    <1>1. phase = "idle" /\ Acceptable(pool, chain, t, FALSE)
          /\ UNCHANGED <<chain, phase, disconnectpool, vHashUpdate, file, restarts>>
      BY Zenon DEF AcceptToMemoryPool
    <1>2. PICK old \in SUBSET InPool(pool) : \E p \in LimitMempoolSize(Stored(pool, t), old) : pool' = Tracked(p, t)
      BY Zenon DEF AcceptToMemoryPool
    <1>3. PICK p \in LimitMempoolSize(Stored(pool, t), old) : pool' = Tracked(p, t)
      BY <1>2
    <1>4. Admitted(pool, chain, t)
      BY <1>1, AdmittedIs, Zenon
    <1>5. Idle(pool) /\ Rooted(ChainTx(chain))
      BY <1>1, IdleIs, ChainRooted DEF IInv
    <1>6. Idle(pool')
      BY <1>3, <1>4, <1>5, AcceptedSound DEF Idle
    <1>7. FileSound'
      BY <1>1 DEF IInv, FileSound
    <1>8. QED
      BY <1>1, <1>6, <1>7, IdleKept

-----------------------------------------------------------------------------
(* Prioritising.  The fee of t and the totals that count it go up by d.    *)
Repriced(q, t, d, r) ==
    /\ WellFormed(q) /\ t \in InPool(q) /\ d \in Nat /\ Delta(q, t) = q.mapTx[t].delta
    /\ r.mapLinks = q.mapLinks /\ r.mapNextTx = q.mapNextTx
    /\ r.mapAssetToHash = q.mapAssetToHash /\ r.mapReissuedAssets = q.mapReissuedAssets
    /\ r.mapDeltas = Put(q.mapDeltas, t, Delta(q, t) + d)
    /\ r.mapTx = [k \in InPool(q) |->
          [delta |-> IF k = t THEN q.mapTx[t].delta + d ELSE q.mapTx[k].delta,
           nAnc |-> q.mapTx[k].nAnc, nDesc |-> q.mapTx[k].nDesc,
           feeAnc |-> IF k \in Down(q, t) THEN q.mapTx[k].feeAnc + d ELSE q.mapTx[k].feeAnc,
           feeDesc |-> IF k \in Up(q, t) THEN q.mapTx[k].feeDesc + d ELSE q.mapTx[k].feeDesc]]
    /\ r = [mapTx |-> r.mapTx, mapLinks |-> r.mapLinks, mapNextTx |-> r.mapNextTx,
            mapDeltas |-> r.mapDeltas, mapAssetToHash |-> r.mapAssetToHash,
            mapReissuedAssets |-> r.mapReissuedAssets]

(* An entry whose fees change alone.                                       *)
LEMMA MoreBoth ==
    ASSUME NEW e \in Entry, NEW a \in Int, NEW b \in Int, NEW c \in Int, NEW f \in Int
    PROVE  MoreAncestors(MoreDescendants(e, a, b), c, f) =
              [delta |-> e.delta, nAnc |-> e.nAnc + c, feeAnc |-> e.feeAnc + f, nDesc |-> e.nDesc + a, feeDesc |-> e.feeDesc + b]
    <1> DEFINE g == MoreDescendants(e, a, b)
               h == MoreAncestors(g, c, f)
    <1>0. g = [e EXCEPT !.nDesc = @ + a, !.feeDesc = @ + b] /\ h = [g EXCEPT !.nAnc = @ + c, !.feeAnc = @ + f]
      BY DEF MoreDescendants, MoreAncestors
    <1> HIDE DEF g, h
    <1>1. g = [delta |-> e.delta, nAnc |-> e.nAnc, feeAnc |-> e.feeAnc, nDesc |-> e.nDesc + a, feeDesc |-> e.feeDesc + b]
      BY <1>0 DEF Entry
    <1>2. g \in Entry
      BY <1>1 DEF Entry
    <1>3. h = [delta |-> g.delta, nAnc |-> g.nAnc + c, feeAnc |-> g.feeAnc + f, nDesc |-> g.nDesc, feeDesc |-> g.feeDesc]
      BY <1>0, <1>2 DEF Entry
    <1>4. h = [delta |-> e.delta, nAnc |-> e.nAnc + c, feeAnc |-> e.feeAnc + f, nDesc |-> e.nDesc + a, feeDesc |-> e.feeDesc + b]
      BY <1>1, <1>3
    <1>5. QED
      BY <1>4 DEF g, h

(* The two updates when only fees change.                                  *)
LEMMA MoreFees ==
    ASSUME NEW e \in Entry, NEW up \in Nat, NEW dn \in Nat
    PROVE  MoreAncestors(MoreDescendants(e, 0, up), 0, dn) =
              [delta |-> e.delta, nAnc |-> e.nAnc, feeAnc |-> e.feeAnc + dn, nDesc |-> e.nDesc, feeDesc |-> e.feeDesc + up]
    <1> DEFINE z == 0
    <1>1. z \in Int /\ up \in Int /\ dn \in Int /\ e.nAnc + z = e.nAnc /\ e.nDesc + z = e.nDesc
      BY DEF Entry
    <1> HIDE DEF z
    <1>2. MoreAncestors(MoreDescendants(e, z, up), z, dn) =
              [delta |-> e.delta, nAnc |-> e.nAnc + z, feeAnc |-> e.feeAnc + dn, nDesc |-> e.nDesc + z, feeDesc |-> e.feeDesc + up]
      BY <1>1, MoreBoth
    <1>3. QED
      BY <1>1, <1>2 DEF z

(* PrioritiseTransaction does what Repriced says.                          *)
LEMMA RepricedIs ==
    ASSUME NEW q, WellFormed(q), NEW t \in InPool(q), Delta(q, t) = q.mapTx[t].delta, NEW d \in Nat
    PROVE  Repriced(q, t, d, PrioritiseTransaction(q, t, d))
    <1> DEFINE above == CalculateAncestors(q, {t}) \ {t}
               below == CalculateDescendants(q, {t}) \ {t}
               s == [q EXCEPT !.mapDeltas = Put(q.mapDeltas, t, Delta(q, t) + d)]
               more == Delta(s, t) - q.mapTx[t].delta
               entry(k) == IF k = t THEN [MoreAncestors(MoreDescendants(q.mapTx[t], 0, more), 0, more)
                                             EXCEPT !.delta = Delta(s, t)]
                           ELSE q.mapTx[k]
               tx == [k \in InPool(q) |->
                        MoreAncestors(MoreDescendants(entry(k), 0, IF k \in above THEN d ELSE 0),
                                      0, IF k \in below THEN d ELSE 0)]
               r == PrioritiseTransaction(q, t, d)
    <1>1. r = [s EXCEPT !.mapTx = tx]
      BY DEF PrioritiseTransaction
    <1>2. q = [mapTx |-> q.mapTx, mapLinks |-> q.mapLinks, mapNextTx |-> q.mapNextTx,
               mapDeltas |-> q.mapDeltas, mapAssetToHash |-> q.mapAssetToHash,
               mapReissuedAssets |-> q.mapReissuedAssets]
      BY DEF WellFormed
    <1> DEFINE ds == Put(q.mapDeltas, t, Delta(q, t) + d)
    <1>3. s = [q EXCEPT !.mapDeltas = ds]
      OBVIOUS
    <1>4. Delta(s, t) = Delta(q, t) + d /\ Delta(q, t) \in Nat
      <2>1. s.mapDeltas = ds
        <3> HIDE DEF ds, s
        <3>1. QED
          BY <1>2, <1>3
      <2>2. t \in DOMAIN ds /\ ds[t] = Delta(q, t) + d
        BY DEF Put
      <2> HIDE DEF ds, s
      <2>3. QED
        BY <2>1, <2>2, DeltaNat DEF Delta
    <1> HIDE DEF ds
    <1>5. s = [mapTx |-> q.mapTx, mapLinks |-> q.mapLinks, mapNextTx |-> q.mapNextTx, mapDeltas |-> ds,
               mapAssetToHash |-> q.mapAssetToHash, mapReissuedAssets |-> q.mapReissuedAssets]
      <2> HIDE DEF s
      <2>1. QED
        BY <1>2, <1>3
    <1> HIDE DEF tx, s
    <1>6. r = [mapTx |-> tx, mapLinks |-> q.mapLinks, mapNextTx |-> q.mapNextTx, mapDeltas |-> ds,
               mapAssetToHash |-> q.mapAssetToHash, mapReissuedAssets |-> q.mapReissuedAssets]
      BY <1>1, <1>5
    <1>7. {t} \in SUBSET InPool(q)
      OBVIOUS
    <1>8. above = Up(q, t) \ {t} /\ below = Down(q, t) \ {t} /\ t \in Up(q, t) /\ t \in Down(q, t)
      <2>1. CalculateAncestors(q, {t}) = Up(q, t) /\ CalculateDescendants(q, {t}) = Down(q, t)
        BY <1>7, AncestorsAre, DescendantsAre DEF Up, Down
      <2>2. t \in Up(q, t) /\ t \in Down(q, t)
        BY PoolGraph, ReachOne DEF Up, Down
      <2>3. QED
        BY <2>1, <2>2
    <1> HIDE DEF above, below
    <1>9. ASSUME NEW k \in InPool(q)
          PROVE  tx[k] = [delta |-> IF k = t THEN q.mapTx[t].delta + d ELSE q.mapTx[k].delta,
                    nAnc |-> q.mapTx[k].nAnc, nDesc |-> q.mapTx[k].nDesc,
                    feeAnc |-> IF k \in Down(q, t) THEN q.mapTx[k].feeAnc + d ELSE q.mapTx[k].feeAnc,
                    feeDesc |-> IF k \in Up(q, t) THEN q.mapTx[k].feeDesc + d ELSE q.mapTx[k].feeDesc]
      <2> DEFINE e == q.mapTx[k]
      <2>1. e \in Entry /\ q.mapTx[t] \in Entry
        BY DEF WellFormed
      <2>2. tx[k] = MoreAncestors(MoreDescendants(entry(k), 0, IF k \in above THEN d ELSE 0),
                                  0, IF k \in below THEN d ELSE 0)
        BY DEF tx
      <2>3. CASE k = t
        <3> DEFINE a == MoreAncestors(MoreDescendants(e, 0, d), 0, d)
                   b == [a EXCEPT !.delta = Delta(s, t)]
        <3>1. more = d /\ Delta(s, t) = e.delta + d
          BY <1>4, <2>3
        <3> HIDE DEF more
        <3>2. tx[k] = MoreAncestors(MoreDescendants(b, 0, 0), 0, 0)
          BY <1>8, <2>2, <2>3, <3>1
        <3>3. a = [delta |-> e.delta, nAnc |-> e.nAnc, feeAnc |-> e.feeAnc + d, nDesc |-> e.nDesc, feeDesc |-> e.feeDesc + d]
          <4> HIDE DEF e
          <4>1. e \in Entry
            BY <2>1
          <4>2. QED
            BY <4>1, MoreFees
        <3> HIDE DEF a
        <3>4. b = [delta |-> e.delta + d, nAnc |-> e.nAnc, feeAnc |-> e.feeAnc + d, nDesc |-> e.nDesc, feeDesc |-> e.feeDesc + d]
          <4> HIDE DEF e
          <4>1. QED
            BY <3>1, <3>3
        <3> HIDE DEF b
        <3>7. b \in Entry
          BY <2>1, <3>4 DEF Entry
        <3>5. tx[k] = b
          <4>1. MoreAncestors(MoreDescendants(b, 0, 0), 0, 0) =
                   [delta |-> b.delta, nAnc |-> b.nAnc, feeAnc |-> b.feeAnc + 0, nDesc |-> b.nDesc, feeDesc |-> b.feeDesc + 0]
            BY <3>7, MoreFees
          <4>2. b.feeAnc + 0 = b.feeAnc /\ b.feeDesc + 0 = b.feeDesc
            BY <3>7 DEF Entry
          <4>3. b = [delta |-> b.delta, nAnc |-> b.nAnc, feeAnc |-> b.feeAnc, nDesc |-> b.nDesc, feeDesc |-> b.feeDesc]
            BY <3>7 DEF Entry
          <4>4. QED
            BY <3>2, <4>1, <4>2, <4>3
        <3>6. QED
          BY <1>8, <2>3, <3>4, <3>5
      <2>4. CASE k # t
        <3> DEFINE up == IF k \in above THEN d ELSE 0
                   dn == IF k \in below THEN d ELSE 0
        <3>1. tx[k] = MoreAncestors(MoreDescendants(e, 0, up), 0, dn)
          BY <2>2, <2>4
        <3>2. up \in Nat /\ dn \in Nat
          OBVIOUS
        <3>3. tx[k] = [delta |-> e.delta, nAnc |-> e.nAnc, feeAnc |-> e.feeAnc + dn, nDesc |-> e.nDesc, feeDesc |-> e.feeDesc + up]
          <4> HIDE DEF e, up, dn
          <4>1. e \in Entry
            BY <2>1
          <4>2. QED
            BY <3>1, <3>2, <4>1, MoreFees
        <3>4. /\ e.feeAnc + dn = IF k \in Down(q, t) THEN q.mapTx[k].feeAnc + d ELSE q.mapTx[k].feeAnc
              /\ e.feeDesc + up = IF k \in Up(q, t) THEN q.mapTx[k].feeDesc + d ELSE q.mapTx[k].feeDesc
          BY <1>8, <2>1, <2>4 DEF Entry
        <3> HIDE DEF up, dn
        <3>5. QED
          BY <2>4, <3>3, <3>4
      <2>5. QED
        BY <2>3, <2>4
    <1>10. tx = [k \in InPool(q) |-> tx[k]]
      BY DEF tx
    <1>11. tx = [k \in InPool(q) |->
          [delta |-> IF k = t THEN q.mapTx[t].delta + d ELSE q.mapTx[k].delta,
           nAnc |-> q.mapTx[k].nAnc, nDesc |-> q.mapTx[k].nDesc,
           feeAnc |-> IF k \in Down(q, t) THEN q.mapTx[k].feeAnc + d ELSE q.mapTx[k].feeAnc,
           feeDesc |-> IF k \in Up(q, t) THEN q.mapTx[k].feeDesc + d ELSE q.mapTx[k].feeDesc]]
      BY <1>9, <1>10
    <1> HIDE DEF r
    <1>12. /\ r.mapTx = tx /\ r.mapLinks = q.mapLinks /\ r.mapNextTx = q.mapNextTx /\ r.mapDeltas = ds
           /\ r.mapAssetToHash = q.mapAssetToHash /\ r.mapReissuedAssets = q.mapReissuedAssets
      BY <1>6
    <1>13. Repriced(q, t, d, r)
      BY <1>6, <1>11, <1>12 DEF Repriced, ds
    <1>14. QED
      BY <1>13 DEF r

(* The maps of deltas.                                                     *)
LEMMA PutDelta ==
    ASSUME NEW q, WellFormed(q), NEW t, NEW d \in Nat, NEW m, m = Put(q.mapDeltas, t, Delta(q, t) + d)
    PROVE  IsMap(m) /\ IsFiniteSet(DOMAIN m) /\ \A u \in DOMAIN m : m[u] \in Nat
    <1>1. Delta(q, t) + d \in Nat
      BY DeltaNat
    <1>2. IsMap(m) /\ \A u \in DOMAIN m : m[u] \in Nat
      BY <1>1 DEF Put, IsMap, WellFormed
    <1>3. DOMAIN m = DOMAIN q.mapDeltas \cup {t} /\ IsFiniteSet(DOMAIN q.mapDeltas)
      BY DEF Put, WellFormed
    <1>4. IsFiniteSet(DOMAIN m)
      BY <1>3, FS_AddElement
    <1>5. QED
      BY <1>2, <1>4

(* It leaves the links alone.                                              *)
LEMMA RepricedWellFormed ==
    ASSUME NEW q, NEW t, NEW d, NEW r, Repriced(q, t, d, r)
    PROVE  /\ WellFormed(r) /\ InPool(r) = InPool(q) /\ Parents(r) = Parents(q) /\ Children(r) = Children(q)
           /\ \A k \in InPool(q) : Delta(r, k) = IF k = t THEN Delta(q, t) + d ELSE Delta(q, k)
    <1>1. InPool(r) = InPool(q)
      BY DEF Repriced, InPool
    <1>2. Parents(r) = Parents(q) /\ Children(r) = Children(q)
      BY <1>1 DEF Repriced, Parents, Children
    <1>3. IsMap(r.mapDeltas) /\ IsFiniteSet(DOMAIN r.mapDeltas) /\ \A u \in DOMAIN r.mapDeltas : r.mapDeltas[u] \in Nat
      <2>1. WellFormed(q) /\ d \in Nat /\ r.mapDeltas = Put(q.mapDeltas, t, Delta(q, t) + d)
        BY DEF Repriced
      <2>2. QED
        BY <2>1, PutDelta
    <1>4. r.mapTx \in [InPool(r) -> Entry]
      <2>1. ASSUME NEW k \in InPool(q)
            PROVE  [delta |-> IF k = t THEN q.mapTx[t].delta + d ELSE q.mapTx[k].delta,
                    nAnc |-> q.mapTx[k].nAnc, nDesc |-> q.mapTx[k].nDesc,
                    feeAnc |-> IF k \in Down(q, t) THEN q.mapTx[k].feeAnc + d ELSE q.mapTx[k].feeAnc,
                    feeDesc |-> IF k \in Up(q, t) THEN q.mapTx[k].feeDesc + d ELSE q.mapTx[k].feeDesc] \in Entry
        BY DEF Repriced, WellFormed, Entry
      <2>2. QED
        BY <1>1, <2>1 DEF Repriced
    <1>5. WellFormed(r)
      BY <1>1, <1>2, <1>3, <1>4 DEF Repriced, WellFormed
    <1>6. ASSUME NEW k \in InPool(q) PROVE Delta(r, k) = IF k = t THEN Delta(q, t) + d ELSE Delta(q, k)
      BY DEF Repriced, Delta, Put
    <1>7. QED
      BY <1>1, <1>2, <1>5, <1>6

(* The fees of a set go up by d if t is in it.                             *)
LEMMA RepricedFees ==
    ASSUME NEW q, NEW t, NEW d, NEW r, Repriced(q, t, d, r), NEW S \in SUBSET InPool(q)
    PROVE  FeesOf(r, S) = IF t \in S THEN FeesOf(q, S) + d ELSE FeesOf(q, S)
    <1>1. WellFormed(q) /\ WellFormed(r) /\ InPool(r) = InPool(q) /\ t \in InPool(q) /\ d \in Nat
      BY RepricedWellFormed DEF Repriced
    <1>2. /\ IsFiniteSet(S) /\ FeesOf(q, S) = SumOn(FeeMap(q), S) /\ FeesOf(q, S) \in Nat
          /\ \A k \in InPool(q) : FeeMap(q)[k] = ModifiedFee(q, k) /\ ModifiedFee(q, k) \in Nat
      BY <1>1, FeesAre
    <1>3. /\ IsFiniteSet(S) /\ FeesOf(r, S) = SumOn(FeeMap(r), S) /\ FeesOf(r, S) \in Nat
          /\ \A k \in InPool(r) : FeeMap(r)[k] = ModifiedFee(r, k) /\ ModifiedFee(r, k) \in Nat
      BY <1>1, FeesAre
    <1>4. ASSUME NEW k \in InPool(q)
          PROVE  ModifiedFee(r, k) = IF k = t THEN ModifiedFee(q, t) + d ELSE ModifiedFee(q, k)
      <2>1. r.mapTx[k].delta = IF k = t THEN q.mapTx[t].delta + d ELSE q.mapTx[k].delta
        BY DEF Repriced
      <2>2. q.mapTx[t].delta \in Nat /\ Fee[t] \in Nat
        BY <1>1, TxAssumption DEF WellFormed, Entry
      <2>3. QED
        BY <1>1, <2>1, <2>2 DEF ModifiedFee
    <1>5. CASE t \notin S
      <2>1. \A x \in S : FeeMap(q)[x] = FeeMap(r)[x]
        BY <1>1, <1>2, <1>3, <1>4, <1>5
      <2>2. QED
        BY <1>2, <1>3, <1>5, <2>1, SumSame
    <1>6. CASE t \in S
      <2> DEFINE f == FeeMap(q)
                 h == FeeMap(r)
      <2>1. /\ \A x \in S : f[x] \in Nat /\ h[x] \in Nat
            /\ \A x \in S \ {t} : h[x] = f[x]
            /\ h[t] = f[t] + d
        BY <1>1, <1>2, <1>3, <1>4
      <2> HIDE DEF f, h
      <2>2. SumOn(h, S) = SumOn(f, S) - f[t] + h[t]
        BY <1>2, <1>6, <2>1, SumChange
      <2>3. SumOn(f, S) \in Nat /\ f[t] \in Nat
        BY <1>2, <1>6, <2>1 DEF f
      <2>4. QED
        BY <1>1, <1>2, <1>3, <1>6, <2>1, <2>2, <2>3 DEF f, h
    <1>7. QED
      BY <1>5, <1>6

(* PrioritiseTransaction adds to the totals of exactly those that count t. *)
LEMMA RepricedCounted ==
    ASSUME NEW q, NEW t, NEW d, NEW r, Repriced(q, t, d, r), Counted(q)
    PROVE  Counted(r)
    <1>1. /\ WellFormed(r) /\ InPool(r) = InPool(q) /\ Parents(r) = Parents(q) /\ Children(r) = Children(q)
          /\ \A k \in InPool(q) : Delta(r, k) = IF k = t THEN Delta(q, t) + d ELSE Delta(q, k)
      BY RepricedWellFormed
    <1>2. WellFormed(q) /\ t \in InPool(q) /\ Delta(q, t) = q.mapTx[t].delta
      BY DEF Repriced
    <1>3. ASSUME NEW k \in InPool(q) PROVE Counts(r, k, Up(r, k), Down(r, k))
      <2>1. Up(r, k) = Up(q, k) /\ Down(r, k) = Down(q, k)
        BY <1>1 DEF Up, Down
      <2>2. Up(q, k) \in SUBSET InPool(q) /\ Down(q, k) \in SUBSET InPool(q)
        BY DEF Up, Down, Reach
      <2>3. Counts(q, k, Up(q, k), Down(q, k))
        BY DEF Counted
      <2>4. /\ FeesOf(r, Up(q, k)) = IF t \in Up(q, k) THEN FeesOf(q, Up(q, k)) + d ELSE FeesOf(q, Up(q, k))
            /\ FeesOf(r, Down(q, k)) = IF t \in Down(q, k) THEN FeesOf(q, Down(q, k)) + d ELSE FeesOf(q, Down(q, k))
        BY <2>2, RepricedFees
      <2>5. (t \in Up(q, k) <=> k \in Down(q, t)) /\ (t \in Down(q, k) <=> k \in Up(q, t))
        <3> DEFINE V == InPool(q)
                   next == Children(q)
                   prev == Parents(q)
        <3>1. Opposite(V, next, prev)
          BY <1>2, PoolGraph
        <3> HIDE DEF V, next, prev
        <3>2. \A a, b \in V : b \in Reach(V, next, {a}) <=> a \in Reach(V, prev, {b})
          BY <3>1, ReachDual
        <3>3. k \in V /\ t \in V
          BY <1>2 DEF V
        <3>4. (k \in Reach(V, next, {t}) <=> t \in Reach(V, prev, {k})) /\ (t \in Reach(V, next, {k}) <=> k \in Reach(V, prev, {t}))
          BY <3>2, <3>3
        <3>5. QED
          BY <3>4 DEF V, next, prev, Up, Down
      <2>6. /\ r.mapTx[k].delta = IF k = t THEN q.mapTx[t].delta + d ELSE q.mapTx[k].delta
            /\ r.mapTx[k].nAnc = q.mapTx[k].nAnc /\ r.mapTx[k].nDesc = q.mapTx[k].nDesc
            /\ r.mapTx[k].feeAnc = IF k \in Down(q, t) THEN q.mapTx[k].feeAnc + d ELSE q.mapTx[k].feeAnc
            /\ r.mapTx[k].feeDesc = IF k \in Up(q, t) THEN q.mapTx[k].feeDesc + d ELSE q.mapTx[k].feeDesc
        BY DEF Repriced
      <2>7. r.mapTx[k].delta = Delta(r, k)
        BY <1>1, <1>2, <2>3, <2>6 DEF Counts
      <2>8. QED
        BY <2>1, <2>3, <2>4, <2>5, <2>6, <2>7 DEF Counts
    <1>4. QED
      BY <1>1, <1>3 DEF Counted

(* A sound pool stays sound.                                               *)
LEMMA SoundPrioritise ==
    ASSUME NEW q, NEW H, NEW M, NEW C, NEW W, NEW X, Sound(q, H, M, C, W, X), NEW t, NEW d \in Nat
    PROVE  LET r == PrioritiseTransaction(q, t, d)
           IN  Sound(r, H, M, C, W, X) /\ InPool(r) = InPool(q)
    <1> DEFINE r == PrioritiseTransaction(q, t, d)
    <1>0. WellFormed(q) /\ Counted(q) /\ Claimed(q, X)
      BY DEF Sound
    <1>1. CASE t \in InPool(q)
      <2>1. Repriced(q, t, d, r)
        <3>1. Delta(q, t) = q.mapTx[t].delta
          BY <1>0, <1>1 DEF Counted, Counts
        <3>2. QED
          BY <1>0, <1>1, <3>1, RepricedIs
      <2> HIDE DEF r
      <2>2. /\ WellFormed(r) /\ InPool(r) = InPool(q) /\ Parents(r) = Parents(q) /\ Children(r) = Children(q)
            /\ \A k \in InPool(q) : Delta(r, k) = IF k = t THEN Delta(q, t) + d ELSE Delta(q, k)
        BY <2>1, RepricedWellFormed
      <2>3. Counted(r)
        BY <1>0, <2>1, RepricedCounted
      <2>4. r.mapNextTx = q.mapNextTx /\ r.mapAssetToHash = q.mapAssetToHash /\ r.mapReissuedAssets = q.mapReissuedAssets
        BY <2>1 DEF Repriced
      <2>5. SpendsKnown(r) /\ Linked(r, H, M)
        BY <2>2, <2>4 DEF Sound, SpendsKnown, Linked
      <2>6. Supplied(r, C, W) /\ Free(r, C) /\ Claimed(r, X)
        BY <2>2, <2>4 DEF Sound, Supplied, Free, Claimed
      <2>7. QED
        BY <2>2, <2>3, <2>5, <2>6 DEF Sound, r
    <1>2. CASE t \notin InPool(q)
      <2> DEFINE ds == Put(q.mapDeltas, t, Delta(q, t) + d)
      <2>1. r = [q EXCEPT !.mapDeltas = ds]
        BY <1>2 DEF PrioritiseTransaction
      <2>2. IsMap(ds) /\ IsFiniteSet(DOMAIN ds) /\ \A u \in DOMAIN ds : ds[u] \in Nat
        BY <1>0, PutDelta
      <2>3. \A u \in InPool(q) : (u \in DOMAIN ds <=> u \in DOMAIN q.mapDeltas) /\ (u \in DOMAIN ds => ds[u] = q.mapDeltas[u])
        BY <1>2 DEF Put
      <2> HIDE DEF ds, r
      <2>4. r = [mapTx |-> q.mapTx, mapLinks |-> q.mapLinks, mapNextTx |-> q.mapNextTx,
                 mapDeltas |-> ds, mapAssetToHash |-> q.mapAssetToHash, mapReissuedAssets |-> q.mapReissuedAssets]
        BY <1>0, <2>1 DEF WellFormed
      <2>5. /\ r.mapTx = q.mapTx /\ r.mapLinks = q.mapLinks /\ r.mapNextTx = q.mapNextTx
            /\ r.mapDeltas = ds /\ r.mapAssetToHash = q.mapAssetToHash /\ r.mapReissuedAssets = q.mapReissuedAssets
        BY <2>4
      <2>6. InPool(r) = InPool(q) /\ Parents(r) = Parents(q) /\ Children(r) = Children(q)
        BY <2>5 DEF InPool, Parents, Children
      <2>7. Remapped(q, r)
        BY <2>3, <2>5 DEF Remapped, Delta
      <2>8. WellFormed(r)
        <3>1. r = [mapTx |-> r.mapTx, mapLinks |-> r.mapLinks, mapNextTx |-> r.mapNextTx,
                 mapDeltas |-> r.mapDeltas, mapAssetToHash |-> r.mapAssetToHash, mapReissuedAssets |-> r.mapReissuedAssets]
          BY <2>4, <2>5
        <3>2. QED
          BY <1>0, <2>2, <2>5, <2>6, <3>1 DEF WellFormed
      <2>9. Claimed(r, X)
        BY <1>0, <2>5, <2>6 DEF Claimed
      <2>10. Sound(r, H, M, C, W, X)
        BY <2>7, <2>8, <2>9, RemappedSound
      <2>11. QED
        BY <2>6, <2>10 DEF r
    <1>3. QED
      BY <1>1, <1>2

-----------------------------------------------------------------------------
(* Steps that change the pool's fees, and the file.                        *)
LEMMA SubsetsUp ==
    ASSUME NEW U, IsFiniteSet(U), NEW ch, \A s \in SUBSET U : s # {} => ch[s] \in s,
           NEW T, {} \in T, \A s \in SUBSET U : s # {} /\ s \ {ch[s]} \in T => s \in T
    PROVE  SUBSET U \subseteq T
    <1> DEFINE Bad == {s \in SUBSET U : s \notin T}
    <1>1. SUFFICES ASSUME Bad # {} PROVE FALSE
      OBVIOUS
    <1>2. PICK s \in Bad : \A r \in Bad : r \subseteq s => r = s
      <2>1. Bad \in SUBSET (SUBSET U)
        OBVIOUS
      <2> HIDE DEF Bad
      <2>2. QED
        BY <1>1, <2>1, MinimalSubset
    <1>3. s # {} /\ ch[s] \in s
      OBVIOUS
    <1>4. s \ {ch[s]} \in T
      BY <1>2, <1>3
    <1>5. QED
      BY <1>3, <1>4

(* The fold of PrioritiseTransaction over the deltas of a file.            *)
Loading(p, m) == FoldSet(LAMBDA t, q : PrioritiseTransaction(q, t, m[t]), p, DOMAIN m)

Chosen(U) == [s \in SUBSET U |-> CHOOSE x \in s : TRUE]
Loads(g, p, m) ==
    /\ g[{}] = p /\ Loading(p, m) = g[DOMAIN m]
    /\ \A s \in SUBSET DOMAIN m : s # {} =>
          LET x == Chosen(DOMAIN m)[s] IN g[s] = PrioritiseTransaction(g[s \ {x}], x, m[x])

(* What is chosen is in the set.                                           *)
LEMMA ChosenIn ==
    ASSUME NEW U
    PROVE  /\ \A s \in SUBSET U : s # {} => Chosen(U)[s] \in s
           /\ \A s \in SUBSET U : Chosen(U)[s] = CHOOSE x \in s : TRUE
    BY DEF Chosen

(* The loop over mapDeltas, in the order it is chosen.                     *)
LEMMA LoadingIs ==
    ASSUME NEW p, NEW m, IsFiniteSet(DOMAIN m)
    PROVE  \E g : Loads(g, p, m)
    <1> DEFINE U == DOMAIN m
               k == <<"prioritise", m>>
               f == [x \in U |-> x]
               iter == CHOOSE g : g = [s \in SUBSET U |-> IF s = {} THEN p
                         ELSE PrioritiseTransaction(g[s \ {CHOOSE x \in s : TRUE}], CHOOSE x \in s : TRUE, m[CHOOSE x \in s : TRUE])]
    <1>1. PICK g : Turns(g, U, Chosen(U), k, f, p)
      <2> HIDE DEF k, f
      <2>1. \A s \in SUBSET U : s # {} => Chosen(U)[s] \in s
        BY ChosenIn
      <2>2. QED
        BY <2>1, TurnsExist
    <1>2. ASSUME NEW s \in SUBSET U, s # {}, NEW x, x = CHOOSE y \in s : TRUE
          PROVE  x \in s /\ x = Chosen(U)[s] /\ g[s] = PrioritiseTransaction(g[s \ {x}], x, m[x])
      <2>1. x \in s /\ x = Chosen(U)[s]
        BY <1>2, ChosenIn
      <2>2. g[s] = Turn(k, g[s \ {Chosen(U)[s]}], f[Chosen(U)[s]])
        <3> HIDE DEF k, f
        <3>1. QED
          BY <1>1, <1>2 DEF Turns
      <2>3. f[x] = x
        BY <2>1
      <2>4. g[s] = Turn(k, g[s \ {x}], x)
        BY <2>1, <2>2, <2>3, Zenon
      <2>5. QED
        BY <2>1, <2>4 DEF Turn
    <1>3. g = [s \in SUBSET U |-> IF s = {} THEN p
                 ELSE PrioritiseTransaction(g[s \ {CHOOSE x \in s : TRUE}], CHOOSE x \in s : TRUE, m[CHOOSE x \in s : TRUE])]
      <2>1. g = [s \in SUBSET U |-> g[s]] /\ g[{}] = p
        <3> HIDE DEF k, f
        <3>1. QED
          BY <1>1 DEF Turns
      <2>2. QED
        BY <1>2, <2>1
    <1>4. iter = [s \in SUBSET U |-> IF s = {} THEN p
                 ELSE PrioritiseTransaction(iter[s \ {CHOOSE x \in s : TRUE}], CHOOSE x \in s : TRUE, m[CHOOSE x \in s : TRUE])]
      BY <1>3, Zenon
    <1>5. Loading(p, m) = iter[U]
      BY DEF Loading, FoldSet, MapThenFoldSet
    <1> HIDE DEF iter
    <1>6. iter[{}] = p
      BY <1>4
    <1>7. ASSUME NEW s \in SUBSET U, s # {}
          PROVE  LET x == Chosen(U)[s] IN iter[s] = PrioritiseTransaction(iter[s \ {x}], x, m[x])
      <2>1. Chosen(U)[s] = CHOOSE x \in s : TRUE
        BY ChosenIn
      <2>2. iter[s] = PrioritiseTransaction(iter[s \ {CHOOSE x \in s : TRUE}], CHOOSE x \in s : TRUE, m[CHOOSE x \in s : TRUE])
        BY <1>4, <1>7
      <2>3. QED
        BY <2>1, <2>2
    <1>8. Loads(iter, p, m)
      BY <1>5, <1>6, <1>7 DEF Loads
    <1>9. QED
      BY <1>8, Zenon

(* Prioritising one after the other keeps the pool sound.                  *)
LEMMA SoundLoading ==
    ASSUME NEW q, NEW H, NEW M, NEW C, NEW W, NEW X, Sound(q, H, M, C, W, X),
           NEW m, IsFiniteSet(DOMAIN m), \A t \in DOMAIN m : m[t] \in Nat
    PROVE  Sound(Loading(q, m), H, M, C, W, X) /\ InPool(Loading(q, m)) = InPool(q)
    <1> DEFINE U == DOMAIN m
               ch == Chosen(U)
               Fit(z) == Sound(z, H, M, C, W, X) /\ InPool(z) = InPool(q)
    <1>0. PICK g : Loads(g, q, m)
      <2> HIDE DEF Fit
      <2>1. QED
        BY LoadingIs, Zenon
    <1>1. /\ g[{}] = q /\ Loading(q, m) = g[U]
          /\ \A s \in SUBSET U : s # {} => g[s] = PrioritiseTransaction(g[s \ {ch[s]}], ch[s], m[ch[s]])
      BY <1>0 DEF Loads
    <1> DEFINE T == {s \in SUBSET U : Fit(g[s])}
    <1>2. ASSUME NEW z, Fit(z), NEW t, NEW d \in Nat PROVE Fit(PrioritiseTransaction(z, t, d))
      BY <1>2, SoundPrioritise
    <1>3. \A s \in SUBSET U : s # {} => ch[s] \in s
      BY ChosenIn
    <1>4. {} \in T
      BY <1>1
    <1> HIDE DEF Fit, ch
    <1>5. ASSUME NEW s \in SUBSET U, s # {}, s \ {ch[s]} \in T PROVE s \in T
      <2>1. ch[s] \in s /\ m[ch[s]] \in Nat
        BY <1>3, <1>5
      <2>2. g[s] = PrioritiseTransaction(g[s \ {ch[s]}], ch[s], m[ch[s]])
        BY <1>1, <1>5
      <2>3. QED
        BY <1>2, <1>5, <2>1, <2>2
    <1>6. U \in T
      <2> HIDE DEF T, U
      <2>1. SUBSET U \subseteq T
        BY <1>3, <1>4, <1>5, SubsetsUp DEF U
      <2>2. QED
        BY <2>1
    <1>7. QED
      BY <1>1, <1>6 DEF Fit

(* What changes neither the chain nor what is in the pool.                 *)
LEMMA PoolKept ==
    ASSUME IInv, UNCHANGED <<chain, phase, disconnectpool, vHashUpdate>>, InPool(pool') = InPool(pool),
           Sound(pool', Again, Again, ChainTx(chain), Queued, {}), FileSound'
    PROVE  IInv'
    <1>1. Again' = Again /\ Queued' = Queued /\ phase' = phase /\ chain' = chain
      BY DEF Again, Queued
    <1>2. ChainSound'
      BY <1>1 DEF IInv, ChainSound
    <1>3. QueueSound'
      BY <1>1 DEF IInv, QueueSound, Apart
    <1>4. AgainSound'
      BY <1>1 DEF IInv, AgainSound
    <1>5. PoolSound'
      BY <1>1 DEF IInv, PoolSound
    <1>6. QED
      BY <1>1, <1>2, <1>3, <1>4, <1>5 DEF IInv

(* prioritisetransaction keeps the invariant.                              *)
LEMMA StepPrioritise ==
    ASSUME IInv, NEW t, Prioritise(t)
    PROVE  IInv'
    <1>1. /\ pool' = PrioritiseTransaction(pool, t, 1)
          /\ UNCHANGED <<chain, phase, disconnectpool, vHashUpdate>> /\ file' = file
      BY DEF Prioritise
    <1>2. Sound(pool, Again, Again, ChainTx(chain), Queued, {})
      BY DEF IInv, PoolSound
    <1>3. Sound(pool', Again, Again, ChainTx(chain), Queued, {}) /\ InPool(pool') = InPool(pool)
      <2> DEFINE X == {}
                 d == 1
                 r == PrioritiseTransaction(pool, t, d)
      <2>1. Sound(pool, Again, Again, ChainTx(chain), Queued, X) /\ d \in Nat /\ pool' = r
        BY <1>1, <1>2
      <2> HIDE DEF X, d
      <2>2. Sound(r, Again, Again, ChainTx(chain), Queued, X) /\ InPool(r) = InPool(pool)
        BY <2>1, SoundPrioritise
      <2>3. QED
        BY <2>1, <2>2 DEF X
    <1>4. FileSound'
      BY <1>1 DEF IInv, FileSound
    <1>5. QED
      BY <1>1, <1>3, <1>4, PoolKept

(* A delta that LoadMempool restores keeps the invariant, during a         *)
(* reorganisation too.                                                     *)
LEMMA StepLoadDelta ==
    ASSUME IInv, LoadDelta
    PROVE  IInv'
    <1> DEFINE t == Head(file.txs)
               d == file.deltas[t]
               r == PrioritiseTransaction(pool, t, d)
    <1>1. /\ t \in DOMAIN file.deltas /\ pool' = r /\ file' = [file EXCEPT !.deltas = Without(@, {t})]
          /\ UNCHANGED <<chain, phase, disconnectpool, vHashUpdate>>
      BY DEF LoadDelta
    <1>2. d \in Nat /\ FileSound
      BY <1>1 DEF IInv, FileSound
    <1>3. Sound(pool', Again, Again, ChainTx(chain), Queued, {}) /\ InPool(pool') = InPool(pool)
      <2> DEFINE X == {}
      <2>1. Sound(pool, Again, Again, ChainTx(chain), Queued, X)
        BY DEF IInv, PoolSound
      <2> HIDE DEF X, t, d
      <2>2. Sound(r, Again, Again, ChainTx(chain), Queued, X) /\ InPool(r) = InPool(pool)
        BY <1>2, <2>1, SoundPrioritise
      <2>3. QED
        BY <1>1, <2>2 DEF X
    <1>4. FileSound'
      <2> HIDE DEF t
      <2> DEFINE ds == Without(file.deltas, {t})
      <2>1. file' = [file EXCEPT !.deltas = ds] /\ file = [txs |-> file.txs, deltas |-> file.deltas]
        BY <1>1, <1>2 DEF FileSound
      <2>2. IsMap(ds) /\ \A u \in DOMAIN ds : ds[u] \in Nat
        BY <1>2 DEF Without, Restrict, IsMap, FileSound
      <2>3. IsFiniteSet(DOMAIN ds)
        <3>1. DOMAIN ds \subseteq DOMAIN file.deltas /\ IsFiniteSet(DOMAIN file.deltas)
          BY <1>2 DEF Without, Restrict, FileSound
        <3>2. QED
          BY <3>1, FS_Subset
      <2> HIDE DEF ds
      <2>4. file' = [txs |-> file.txs, deltas |-> ds]
        BY <2>1
      <2>5. QED
        BY <1>2, <2>2, <2>3, <2>4 DEF FileSound
    <1>5. QED
      BY <1>1, <1>3, <1>4, PoolKept

(* The deltas left over keep it as well.                                   *)
LEMMA StepLoadDeltas ==
    ASSUME IInv, LoadDeltas
    PROVE  IInv'
    <1> DEFINE m == file.deltas
    <1>1. /\ pool' = Loading(pool, m) /\ file' = Loaded
          /\ UNCHANGED <<chain, phase, disconnectpool, vHashUpdate>>
      BY DEF LoadDeltas, Loading
    <1>2. IsFiniteSet(DOMAIN m) /\ \A t \in DOMAIN m : m[t] \in Nat
      BY DEF IInv, FileSound
    <1> HIDE DEF m
    <1>3. Sound(pool', Again, Again, ChainTx(chain), Queued, {}) /\ InPool(pool') = InPool(pool)
      <2> DEFINE X == {}
      <2>1. Sound(pool, Again, Again, ChainTx(chain), Queued, X)
        BY DEF IInv, PoolSound
      <2> HIDE DEF X
      <2>2. Sound(Loading(pool, m), Again, Again, ChainTx(chain), Queued, X) /\ InPool(Loading(pool, m)) = InPool(pool)
        BY <1>2, <2>1, SoundLoading
      <2>3. QED
        BY <1>1, <2>2 DEF X
    <1>4. FileSound'
      BY <1>1, FS_EmptySet DEF FileSound, Loaded, IsMap
    <1>5. QED
      BY <1>1, <1>3, <1>4, PoolKept

(* A transaction that LoadMempool submits keeps the invariant.             *)
LEMMA StepLoadTx ==
    ASSUME IInv, LoadTx
    PROVE  IInv'
    <1> DEFINE t == Head(file.txs)
    <1>1. /\ phase = "idle" /\ file.txs # <<>> /\ file' = [file EXCEPT !.txs = Tail(@)]
          /\ UNCHANGED <<chain, phase, disconnectpool, vHashUpdate>>
          /\ \/ pool' = pool
             \/ /\ Acceptable(pool, chain, t, FALSE)
                /\ \E old \in SUBSET InPool(pool) :
                      \E p \in LimitMempoolSize(Stored(pool, t), old) : pool' = Tracked(p, t)
      BY DEF LoadTx
    <1>2. Idle(pool) /\ Rooted(ChainTx(chain)) /\ FileSound
      BY <1>1, IdleIs, ChainRooted DEF IInv
    <1>3. FileSound'
      <2> DEFINE tl == Tail(file.txs)
      <2>1. file' = [file EXCEPT !.txs = tl] /\ file = [txs |-> file.txs, deltas |-> file.deltas]
        BY <1>1, <1>2 DEF FileSound
      <2>2. tl \in Seq(Tx)
        BY <1>1, <1>2 DEF FileSound
      <2> HIDE DEF tl
      <2>3. file' = [txs |-> tl, deltas |-> file.deltas]
        BY <2>1
      <2>4. QED
        BY <1>2, <2>2, <2>3 DEF FileSound
    <1>4. Idle(pool')
      <2>1. CASE pool' = pool
        BY <1>2, <2>1
      <2>2. CASE /\ Acceptable(pool, chain, t, FALSE)
                 /\ \E old \in SUBSET InPool(pool) :
                       \E p \in LimitMempoolSize(Stored(pool, t), old) : pool' = Tracked(p, t)
        <3> HIDE DEF t
        <3>1. PICK old \in SUBSET InPool(pool) : \E p \in LimitMempoolSize(Stored(pool, t), old) : pool' = Tracked(p, t)
          BY <2>2
        <3>2. PICK p \in LimitMempoolSize(Stored(pool, t), old) : pool' = Tracked(p, t)
          BY <3>1
        <3>3. Admitted(pool, chain, t)
          BY <2>2, AdmittedIs, Zenon
        <3>4. QED
          BY <1>2, <3>2, <3>3, AcceptedSound DEF Idle
      <2>3. QED
        BY <1>1, <2>1, <2>2
    <1>5. QED
      BY <1>1, <1>3, <1>4, IdleKept

-----------------------------------------------------------------------------
(* The pool of a node that starts.                                         *)
LEMMA SoundEmpty ==
    ASSUME NEW m, IsMap(m), NEW C
    PROVE  Sound([EmptyPool EXCEPT !.mapReissuedAssets = m], {}, {}, C, {}, {})
    <1> DEFINE r == [EmptyPool EXCEPT !.mapReissuedAssets = m]
               e == <<>>
    <1>0. DOMAIN e = {}
      OBVIOUS
    <1>1. r = [mapTx |-> e, mapLinks |-> e, mapNextTx |-> e, mapDeltas |-> e, mapAssetToHash |-> e,
               mapReissuedAssets |-> m]
      BY DEF EmptyPool
    <1>2. IsMap(e) /\ \A S : e \in [{} -> S]
      BY DEF IsMap
    <1> HIDE DEF e, r
    <1>3. /\ r.mapTx = e /\ r.mapLinks = e /\ r.mapNextTx = e /\ r.mapDeltas = e /\ r.mapAssetToHash = e
          /\ r.mapReissuedAssets = m /\ InPool(r) = {}
      BY <1>0, <1>1 DEF InPool
    <1>4. WellFormed(r)
      <2>1. r.mapTx \in [InPool(r) -> Entry]
            /\ r.mapLinks \in [InPool(r) -> [parents : SUBSET InPool(r), children : SUBSET InPool(r)]]
        BY <1>2, <1>3
      <2>2. IsFiniteSet(DOMAIN r.mapDeltas) /\ \A t \in DOMAIN r.mapDeltas : r.mapDeltas[t] \in Nat
        BY <1>0, <1>3, FS_EmptySet
      <2>3. \A t, u \in InPool(r) : u \in Children(r)[t] <=> t \in Parents(r)[u]
        BY <1>3
      <2>4. r = [mapTx |-> r.mapTx, mapLinks |-> r.mapLinks, mapNextTx |-> r.mapNextTx,
                 mapDeltas |-> r.mapDeltas, mapAssetToHash |-> r.mapAssetToHash,
                 mapReissuedAssets |-> r.mapReissuedAssets]
        BY <1>1, <1>3
      <2>5. IsMap(r.mapNextTx) /\ IsMap(r.mapDeltas) /\ IsMap(r.mapAssetToHash) /\ IsMap(r.mapReissuedAssets)
        BY <1>2, <1>3
      <2>6. QED
        BY <1>3, <2>1, <2>2, <2>3, <2>4, <2>5 DEF WellFormed
    <1>5. SpendsKnown(r)
      BY <1>0, <1>3 DEF SpendsKnown
    <1>6. Claimed(r, {})
      BY <1>0, <1>3 DEF Claimed
    <1>7. Linked(r, {}, {}) /\ Counted(r) /\ Supplied(r, C, {}) /\ InPool(r) \cap C = {} /\ Free(r, C)
      BY <1>3 DEF Linked, Counted, Supplied, Free
    <1>8. QED
      BY <1>4, <1>5, <1>6, <1>7 DEF Sound, r

(* The invariant holds initially.                                          *)
LEMMA StartsSound ==
    ASSUME Init
    PROVE  IInv
    <1>1. /\ chain = <<>> /\ pool = EmptyPool /\ phase = "idle"
          /\ disconnectpool = <<>> /\ vHashUpdate = <<>> /\ file = Loaded
      BY DEF Init
    <1>2. ChainTx(chain) = {} /\ Queued = {} /\ Again = {}
      BY <1>1 DEF ChainTx, Queued, Again, ToSet
    <1>3. ChainSound
      <2>1. chain \in Seq(Block) /\ DOMAIN chain = {}
        BY <1>1
      <2>2. QED
        BY <1>2, <2>1 DEF ChainSound, Apart
    <1>4. QueueSound
      <2>1. disconnectpool \in Seq(Tx) /\ DOMAIN disconnectpool = {}
        BY <1>1
      <2>2. QED
        BY <1>1, <1>2, <2>1 DEF QueueSound, Apart, IsInjective
    <1>5. AgainSound
      <2>1. vHashUpdate \in Seq(Tx) /\ DOMAIN vHashUpdate = {}
        BY <1>1
      <2>2. QED
        BY <1>1, <1>2, <2>1 DEF AgainSound, IsInjective
    <1>6. PoolSound
      <2> DEFINE m == EmptyPool.mapReissuedAssets
      <2>1. IsMap(m)
        BY DEF EmptyPool, IsMap
      <2>2. [EmptyPool EXCEPT !.mapReissuedAssets = m] = EmptyPool
        BY DEF EmptyPool
      <2> HIDE DEF m
      <2>3. Sound(pool, {}, {}, ChainTx(chain), {}, {})
        BY <1>1, <2>1, <2>2, SoundEmpty
      <2>4. InPool(pool) = {}
        BY <1>1 DEF InPool, EmptyPool
      <2>5. QED
        BY <1>2, <2>3, <2>4 DEF PoolSound
    <1>7. FileSound
      <2>1. file = [txs |-> <<>>, deltas |-> <<>>] /\ file.txs = <<>> /\ file.deltas = <<>>
        BY <1>1 DEF Loaded
      <2>2. QED
        BY <2>1, FS_EmptySet DEF FileSound, IsMap
    <1>8. QED
      BY <1>1, <1>3, <1>4, <1>5, <1>6, <1>7 DEF IInv

(* A restart keeps the invariant: the pool is empty and the file is what   *)
(* was saved.                                                              *)
LEMMA StepRestart ==
    ASSUME IInv, Restart
    PROVE  IInv'
    <1>1. /\ phase = "idle" /\ pool' = [EmptyPool EXCEPT !.mapReissuedAssets = pool.mapReissuedAssets]
          /\ UNCHANGED <<chain, phase, disconnectpool, vHashUpdate>>
      BY DEF Restart
    <1>2. PICK order \in DumpOrders(pool) : file' = [txs |-> order, deltas |-> pool.mapDeltas]
      BY DEF Restart
    <1>3. WellFormed(pool)
      BY DEF IInv, PoolSound, Sound
    <1>4. order \in Seq(Tx)
      <2>1. order \in SetToSeqs(InPool(pool)) /\ InPool(pool) \subseteq Tx
        BY <1>2, <1>3 DEF DumpOrders, WellFormed
      <2>2. order \in [1..Cardinality(InPool(pool)) -> InPool(pool)]
        BY <2>1 DEF SetToSeqs
      <2>3. Cardinality(InPool(pool)) \in Nat
        BY <1>3, PoolGraph, FS_CardinalityType
      <2>4. QED
        BY <2>1, <2>2, <2>3
    <1>5. FileSound'
      <2> DEFINE ds == pool.mapDeltas
      <2>1. IsMap(ds) /\ IsFiniteSet(DOMAIN ds) /\ \A t \in DOMAIN ds : ds[t] \in Nat
        BY <1>3 DEF WellFormed
      <2> HIDE DEF ds
      <2>2. file' = [txs |-> order, deltas |-> ds]
        BY <1>2 DEF ds
      <2>3. QED
        BY <1>4, <2>1, <2>2 DEF FileSound
    <1>6. Idle(pool')
      <2>1. IsMap(pool.mapReissuedAssets)
        BY <1>3 DEF WellFormed
      <2>2. Sound(pool', {}, {}, ChainTx(chain), {}, {})
        BY <1>1, <2>1, SoundEmpty
      <2>3. InPool(pool') = {}
        BY <1>1 DEF InPool, EmptyPool
      <2>4. QED
        BY <2>2, <2>3 DEF Idle, Ripe
    <1>7. QED
      BY <1>1, <1>5, <1>6, IdleKept

-----------------------------------------------------------------------------
(* The folds take one turn for each element.                               *)
ConflictFold(base, seq, a) == FoldLeft(LAMBDA q, o : RemoveConflict(q, a, o), base, seq)

(* removeConflicts takes its turns one after the other.                    *)
LEMMA ConflictTurns ==
    ASSUME NEW base, NEW seq, NEW n \in Nat, DOMAIN seq = 1..n, NEW a
    PROVE  \E h : Steps(h, n, <<"conflicts", a>>, seq, base) /\ h[n] = ConflictFold(base, seq, a)
    <1> DEFINE k == <<"conflicts", a>>
               iter == CHOOSE w : w = [s \in SUBSET DOMAIN seq |-> IF s = {} THEN base
                         ELSE RemoveConflict(w[s \ {Max(s)}], a, seq[Max(s)])]
    <1>1. PICK g : Turns(g, 1..n, Greatest(n), k, seq, base)
      <2> HIDE DEF k
      <2>1. QED
        BY MaxUpTo, TurnsExist
    <1>2. ASSUME NEW s \in SUBSET DOMAIN seq, s # {}
          PROVE  /\ Max(s) = Greatest(n)[s]
                 /\ g[s] = RemoveConflict(g[s \ {Max(s)}], a, seq[Max(s)])
      <2>1. Max(s) = Greatest(n)[s]
        BY <1>2 DEF Greatest
      <2>2. g[s] = Turn(k, g[s \ {Greatest(n)[s]}], seq[Greatest(n)[s]])
        <3> HIDE DEF k
        <3>1. QED
          BY <1>1, <1>2 DEF Turns
      <2>3. g[s] = Turn(k, g[s \ {Max(s)}], seq[Max(s)])
        BY <2>1, <2>2, Zenon
      <2>4. QED
        BY <2>1, <2>3 DEF Turn
    <1>3. g = [s \in SUBSET DOMAIN seq |-> IF s = {} THEN base
                 ELSE RemoveConflict(g[s \ {Max(s)}], a, seq[Max(s)])]
      <2>1. g = [s \in SUBSET DOMAIN seq |-> g[s]] /\ g[{}] = base
        <3> HIDE DEF k
        <3>1. QED
          BY <1>1 DEF Turns
      <2>2. QED
        BY <1>2, <2>1
    <1>4. iter = [s \in SUBSET DOMAIN seq |-> IF s = {} THEN base
                 ELSE RemoveConflict(iter[s \ {Max(s)}], a, seq[Max(s)])]
      BY <1>3, Zenon
    <1>5. ConflictFold(base, seq, a) = iter[DOMAIN seq]
      BY DEF ConflictFold, FoldLeft, MapThenFoldSet
    <1> HIDE DEF iter
    <1>6. Turns(iter, 1..n, Greatest(n), k, seq, base)
      <2>1. ASSUME NEW s \in SUBSET DOMAIN seq, s # {}
            PROVE  iter[s] = Turn(k, iter[s \ {Greatest(n)[s]}], seq[Greatest(n)[s]])
        <3>1. iter[s] = RemoveConflict(iter[s \ {Max(s)}], a, seq[Max(s)])
          BY <1>4, <2>1
        <3>2. iter[s] = Turn(k, iter[s \ {Max(s)}], seq[Max(s)])
          BY <3>1 DEF Turn
        <3>3. QED
          BY <1>2, <2>1, <3>2, Zenon
      <2>2. iter[{}] = base /\ iter = [s \in SUBSET DOMAIN seq |-> iter[s]]
        BY <1>4
      <2> HIDE DEF k
      <2>3. QED
        BY <2>1, <2>2 DEF Turns
    <1> HIDE DEF k
    <1>7. PICK h : h = [i \in 0..n |-> iter[1..i]] /\ Steps(h, n, k, seq, base)
      BY <1>6, TurnsStep
    <1>8. h[n] = iter[DOMAIN seq]
      BY <1>7
    <1>9. QED
      BY <1>5, <1>7, <1>8 DEF k

ConfirmedFold(base, seq, a) == FoldLeft(removeConfirmed, base, seq)

(* So does the loop of removeForBlock,                                     *)
LEMMA ConfirmedTurns ==
    ASSUME NEW base, NEW seq, NEW n \in Nat, DOMAIN seq = 1..n, NEW a
    PROVE  \E h : Steps(h, n, <<"confirmed", a>>, seq, base) /\ h[n] = ConfirmedFold(base, seq, a)
    <1> DEFINE k == <<"confirmed", a>>
               iter == CHOOSE w : w = [s \in SUBSET DOMAIN seq |-> IF s = {} THEN base
                         ELSE removeConfirmed(w[s \ {Max(s)}], seq[Max(s)])]
    <1>1. PICK g : Turns(g, 1..n, Greatest(n), k, seq, base)
      <2> HIDE DEF k
      <2>1. QED
        BY MaxUpTo, TurnsExist
    <1>2. ASSUME NEW s \in SUBSET DOMAIN seq, s # {}
          PROVE  /\ Max(s) = Greatest(n)[s]
                 /\ g[s] = removeConfirmed(g[s \ {Max(s)}], seq[Max(s)])
      <2>1. Max(s) = Greatest(n)[s]
        BY <1>2 DEF Greatest
      <2>2. g[s] = Turn(k, g[s \ {Greatest(n)[s]}], seq[Greatest(n)[s]])
        <3> HIDE DEF k
        <3>1. QED
          BY <1>1, <1>2 DEF Turns
      <2>3. g[s] = Turn(k, g[s \ {Max(s)}], seq[Max(s)])
        BY <2>1, <2>2, Zenon
      <2>4. QED
        BY <2>1, <2>3 DEF Turn
    <1>3. g = [s \in SUBSET DOMAIN seq |-> IF s = {} THEN base
                 ELSE removeConfirmed(g[s \ {Max(s)}], seq[Max(s)])]
      <2>1. g = [s \in SUBSET DOMAIN seq |-> g[s]] /\ g[{}] = base
        <3> HIDE DEF k
        <3>1. QED
          BY <1>1 DEF Turns
      <2>2. QED
        BY <1>2, <2>1
    <1>4. iter = [s \in SUBSET DOMAIN seq |-> IF s = {} THEN base
                 ELSE removeConfirmed(iter[s \ {Max(s)}], seq[Max(s)])]
      BY <1>3, Zenon
    <1>5. ConfirmedFold(base, seq, a) = iter[DOMAIN seq]
      BY DEF ConfirmedFold, FoldLeft, MapThenFoldSet
    <1> HIDE DEF iter
    <1>6. Turns(iter, 1..n, Greatest(n), k, seq, base)
      <2>1. ASSUME NEW s \in SUBSET DOMAIN seq, s # {}
            PROVE  iter[s] = Turn(k, iter[s \ {Greatest(n)[s]}], seq[Greatest(n)[s]])
        <3>1. iter[s] = removeConfirmed(iter[s \ {Max(s)}], seq[Max(s)])
          BY <1>4, <2>1
        <3>2. iter[s] = Turn(k, iter[s \ {Max(s)}], seq[Max(s)])
          BY <3>1 DEF Turn
        <3>3. QED
          BY <1>2, <2>1, <3>2, Zenon
      <2>2. iter[{}] = base /\ iter = [s \in SUBSET DOMAIN seq |-> iter[s]]
        BY <1>4
      <2> HIDE DEF k
      <2>3. QED
        BY <2>1, <2>2 DEF Turns
    <1> HIDE DEF k
    <1>7. PICK h : h = [i \in 0..n |-> iter[1..i]] /\ Steps(h, n, k, seq, base)
      BY <1>6, TurnsStep
    <1>8. h[n] = iter[DOMAIN seq]
      BY <1>7
    <1>9. QED
      BY <1>5, <1>7, <1>8 DEF k

RecursiveFold(base, seq, a) == FoldLeft(removeRecursive, base, seq)

(* that over what the queue has no room for,                               *)
LEMMA RecursiveTurns ==
    ASSUME NEW base, NEW seq, NEW n \in Nat, DOMAIN seq = 1..n, NEW a
    PROVE  \E h : Steps(h, n, <<"recursive", a>>, seq, base) /\ h[n] = RecursiveFold(base, seq, a)
    <1> DEFINE k == <<"recursive", a>>
               iter == CHOOSE w : w = [s \in SUBSET DOMAIN seq |-> IF s = {} THEN base
                         ELSE removeRecursive(w[s \ {Max(s)}], seq[Max(s)])]
    <1>1. PICK g : Turns(g, 1..n, Greatest(n), k, seq, base)
      <2> HIDE DEF k
      <2>1. QED
        BY MaxUpTo, TurnsExist
    <1>2. ASSUME NEW s \in SUBSET DOMAIN seq, s # {}
          PROVE  /\ Max(s) = Greatest(n)[s]
                 /\ g[s] = removeRecursive(g[s \ {Max(s)}], seq[Max(s)])
      <2>1. Max(s) = Greatest(n)[s]
        BY <1>2 DEF Greatest
      <2>2. g[s] = Turn(k, g[s \ {Greatest(n)[s]}], seq[Greatest(n)[s]])
        <3> HIDE DEF k
        <3>1. QED
          BY <1>1, <1>2 DEF Turns
      <2>3. g[s] = Turn(k, g[s \ {Max(s)}], seq[Max(s)])
        BY <2>1, <2>2, Zenon
      <2>4. QED
        BY <2>1, <2>3 DEF Turn
    <1>3. g = [s \in SUBSET DOMAIN seq |-> IF s = {} THEN base
                 ELSE removeRecursive(g[s \ {Max(s)}], seq[Max(s)])]
      <2>1. g = [s \in SUBSET DOMAIN seq |-> g[s]] /\ g[{}] = base
        <3> HIDE DEF k
        <3>1. QED
          BY <1>1 DEF Turns
      <2>2. QED
        BY <1>2, <2>1
    <1>4. iter = [s \in SUBSET DOMAIN seq |-> IF s = {} THEN base
                 ELSE removeRecursive(iter[s \ {Max(s)}], seq[Max(s)])]
      BY <1>3, Zenon
    <1>5. RecursiveFold(base, seq, a) = iter[DOMAIN seq]
      BY DEF RecursiveFold, FoldLeft, MapThenFoldSet
    <1> HIDE DEF iter
    <1>6. Turns(iter, 1..n, Greatest(n), k, seq, base)
      <2>1. ASSUME NEW s \in SUBSET DOMAIN seq, s # {}
            PROVE  iter[s] = Turn(k, iter[s \ {Greatest(n)[s]}], seq[Greatest(n)[s]])
        <3>1. iter[s] = removeRecursive(iter[s \ {Max(s)}], seq[Max(s)])
          BY <1>4, <2>1
        <3>2. iter[s] = Turn(k, iter[s \ {Max(s)}], seq[Max(s)])
          BY <3>1 DEF Turn
        <3>3. QED
          BY <1>2, <2>1, <3>2, Zenon
      <2>2. iter[{}] = base /\ iter = [s \in SUBSET DOMAIN seq |-> iter[s]]
        BY <1>4
      <2> HIDE DEF k
      <2>3. QED
        BY <2>1, <2>2 DEF Turns
    <1> HIDE DEF k
    <1>7. PICK h : h = [i \in 0..n |-> iter[1..i]] /\ Steps(h, n, k, seq, base)
      BY <1>6, TurnsStep
    <1>8. h[n] = iter[DOMAIN seq]
      BY <1>7
    <1>9. QED
      BY <1>5, <1>7, <1>8 DEF k

UpdateFold(base, seq, a) == FoldLeft(LAMBDA q, t : UpdateForDescendants(q, t, a), base, seq)

(* that of UpdateTransactionsFromBlock,                                    *)
LEMMA UpdateTurns ==
    ASSUME NEW base, NEW seq, NEW n \in Nat, DOMAIN seq = 1..n, NEW a
    PROVE  \E h : Steps(h, n, <<"update", a>>, seq, base) /\ h[n] = UpdateFold(base, seq, a)
    <1> DEFINE k == <<"update", a>>
               iter == CHOOSE w : w = [s \in SUBSET DOMAIN seq |-> IF s = {} THEN base
                         ELSE UpdateForDescendants(w[s \ {Max(s)}], seq[Max(s)], a)]
    <1>1. PICK g : Turns(g, 1..n, Greatest(n), k, seq, base)
      <2> HIDE DEF k
      <2>1. QED
        BY MaxUpTo, TurnsExist
    <1>2. ASSUME NEW s \in SUBSET DOMAIN seq, s # {}
          PROVE  /\ Max(s) = Greatest(n)[s]
                 /\ g[s] = UpdateForDescendants(g[s \ {Max(s)}], seq[Max(s)], a)
      <2>1. Max(s) = Greatest(n)[s]
        BY <1>2 DEF Greatest
      <2>2. g[s] = Turn(k, g[s \ {Greatest(n)[s]}], seq[Greatest(n)[s]])
        <3> HIDE DEF k
        <3>1. QED
          BY <1>1, <1>2 DEF Turns
      <2>3. g[s] = Turn(k, g[s \ {Max(s)}], seq[Max(s)])
        BY <2>1, <2>2, Zenon
      <2>4. QED
        BY <2>1, <2>3 DEF Turn
    <1>3. g = [s \in SUBSET DOMAIN seq |-> IF s = {} THEN base
                 ELSE UpdateForDescendants(g[s \ {Max(s)}], seq[Max(s)], a)]
      <2>1. g = [s \in SUBSET DOMAIN seq |-> g[s]] /\ g[{}] = base
        <3> HIDE DEF k
        <3>1. QED
          BY <1>1 DEF Turns
      <2>2. QED
        BY <1>2, <2>1
    <1>4. iter = [s \in SUBSET DOMAIN seq |-> IF s = {} THEN base
                 ELSE UpdateForDescendants(iter[s \ {Max(s)}], seq[Max(s)], a)]
      BY <1>3, Zenon
    <1>5. UpdateFold(base, seq, a) = iter[DOMAIN seq]
      BY DEF UpdateFold, FoldLeft, MapThenFoldSet
    <1> HIDE DEF iter
    <1>6. Turns(iter, 1..n, Greatest(n), k, seq, base)
      <2>1. ASSUME NEW s \in SUBSET DOMAIN seq, s # {}
            PROVE  iter[s] = Turn(k, iter[s \ {Greatest(n)[s]}], seq[Greatest(n)[s]])
        <3>1. iter[s] = UpdateForDescendants(iter[s \ {Max(s)}], seq[Max(s)], a)
          BY <1>4, <2>1
        <3>2. iter[s] = Turn(k, iter[s \ {Max(s)}], seq[Max(s)])
          BY <3>1 DEF Turn
        <3>3. QED
          BY <1>2, <2>1, <3>2, Zenon
      <2>2. iter[{}] = base /\ iter = [s \in SUBSET DOMAIN seq |-> iter[s]]
        BY <1>4
      <2> HIDE DEF k
      <2>3. QED
        BY <2>1, <2>2 DEF Turns
    <1> HIDE DEF k
    <1>7. PICK h : h = [i \in 0..n |-> iter[1..i]] /\ Steps(h, n, k, seq, base)
      BY <1>6, TurnsStep
    <1>8. h[n] = iter[DOMAIN seq]
      BY <1>7
    <1>9. QED
      BY <1>5, <1>7, <1>8 DEF k

QueueFold(base, seq, a) == FoldLeft(LAMBDA kept, t : IF t \in ToSet(a) THEN kept ELSE Append(kept, t), base, seq)

(* and that over the queue.                                                *)
LEMMA QueueTurns ==
    ASSUME NEW base, NEW seq, NEW n \in Nat, DOMAIN seq = 1..n, NEW a
    PROVE  \E h : Steps(h, n, <<"queue", a>>, seq, base) /\ h[n] = QueueFold(base, seq, a)
    <1> DEFINE k == <<"queue", a>>
               iter == CHOOSE w : w = [s \in SUBSET DOMAIN seq |-> IF s = {} THEN base
                         ELSE (IF seq[Max(s)] \in ToSet(a) THEN w[s \ {Max(s)}] ELSE Append(w[s \ {Max(s)}], seq[Max(s)]))]
    <1>1. PICK g : Turns(g, 1..n, Greatest(n), k, seq, base)
      <2> HIDE DEF k
      <2>1. QED
        BY MaxUpTo, TurnsExist
    <1>2. ASSUME NEW s \in SUBSET DOMAIN seq, s # {}
          PROVE  /\ Max(s) = Greatest(n)[s]
                 /\ g[s] = (IF seq[Max(s)] \in ToSet(a) THEN g[s \ {Max(s)}] ELSE Append(g[s \ {Max(s)}], seq[Max(s)]))
      <2>1. Max(s) = Greatest(n)[s]
        BY <1>2 DEF Greatest
      <2>2. g[s] = Turn(k, g[s \ {Greatest(n)[s]}], seq[Greatest(n)[s]])
        <3> HIDE DEF k
        <3>1. QED
          BY <1>1, <1>2 DEF Turns
      <2>3. g[s] = Turn(k, g[s \ {Max(s)}], seq[Max(s)])
        BY <2>1, <2>2, Zenon
      <2>4. QED
        BY <2>1, <2>3 DEF Turn
    <1>3. g = [s \in SUBSET DOMAIN seq |-> IF s = {} THEN base
                 ELSE (IF seq[Max(s)] \in ToSet(a) THEN g[s \ {Max(s)}] ELSE Append(g[s \ {Max(s)}], seq[Max(s)]))]
      <2>1. g = [s \in SUBSET DOMAIN seq |-> g[s]] /\ g[{}] = base
        <3> HIDE DEF k
        <3>1. QED
          BY <1>1 DEF Turns
      <2>2. QED
        BY <1>2, <2>1
    <1>4. iter = [s \in SUBSET DOMAIN seq |-> IF s = {} THEN base
                 ELSE (IF seq[Max(s)] \in ToSet(a) THEN iter[s \ {Max(s)}] ELSE Append(iter[s \ {Max(s)}], seq[Max(s)]))]
      BY <1>3, Zenon
    <1>5. QueueFold(base, seq, a) = iter[DOMAIN seq]
      BY DEF QueueFold, FoldLeft, MapThenFoldSet
    <1> HIDE DEF iter
    <1>6. Turns(iter, 1..n, Greatest(n), k, seq, base)
      <2>1. ASSUME NEW s \in SUBSET DOMAIN seq, s # {}
            PROVE  iter[s] = Turn(k, iter[s \ {Greatest(n)[s]}], seq[Greatest(n)[s]])
        <3>1. iter[s] = (IF seq[Max(s)] \in ToSet(a) THEN iter[s \ {Max(s)}] ELSE Append(iter[s \ {Max(s)}], seq[Max(s)]))
          BY <1>4, <2>1
        <3>2. iter[s] = Turn(k, iter[s \ {Max(s)}], seq[Max(s)])
          BY <3>1 DEF Turn
        <3>3. QED
          BY <1>2, <2>1, <3>2, Zenon
      <2>2. iter[{}] = base /\ iter = [s \in SUBSET DOMAIN seq |-> iter[s]]
        BY <1>4
      <2> HIDE DEF k
      <2>3. QED
        BY <2>1, <2>2 DEF Turns
    <1> HIDE DEF k
    <1>7. PICK h : h = [i \in 0..n |-> iter[1..i]] /\ Steps(h, n, k, seq, base)
      BY <1>6, TurnsStep
    <1>8. h[n] = iter[DOMAIN seq]
      BY <1>7
    <1>9. QED
      BY <1>5, <1>7, <1>8 DEF k

-----------------------------------------------------------------------------
(* Erasing the delta of what is removed at once, or was.                   *)
Cleared(q, c, r) ==
    /\ r.mapTx = q.mapTx /\ r.mapLinks = q.mapLinks /\ r.mapNextTx = q.mapNextTx
    /\ r.mapAssetToHash = q.mapAssetToHash /\ r.mapReissuedAssets = q.mapReissuedAssets
    /\ r.mapDeltas = Without(q.mapDeltas, {c})
    /\ r = [mapTx |-> r.mapTx, mapLinks |-> r.mapLinks, mapNextTx |-> r.mapNextTx,
            mapDeltas |-> r.mapDeltas, mapAssetToHash |-> r.mapAssetToHash,
            mapReissuedAssets |-> r.mapReissuedAssets]

(* ClearPrioritisation does what Cleared says.                             *)
LEMMA ClearedIs ==
    ASSUME NEW q, WellFormed(q), NEW c
    PROVE  /\ Cleared(q, c, ClearPrioritisation(q, c)) /\ WellFormed(ClearPrioritisation(q, c))
           /\ \A t : t # c => Delta(ClearPrioritisation(q, c), t) = Delta(q, t)
    <1> DEFINE ds == Without(q.mapDeltas, {c})
               r == ClearPrioritisation(q, c)
    <1>1. q = [mapTx |-> q.mapTx, mapLinks |-> q.mapLinks, mapNextTx |-> q.mapNextTx,
               mapDeltas |-> q.mapDeltas, mapAssetToHash |-> q.mapAssetToHash,
               mapReissuedAssets |-> q.mapReissuedAssets]
      BY DEF WellFormed
    <1>2. r = [q EXCEPT !.mapDeltas = ds]
      BY DEF ClearPrioritisation
    <1>3. /\ IsMap(ds) /\ DOMAIN ds = DOMAIN q.mapDeltas \ {c}
          /\ \A t \in DOMAIN ds : ds[t] = q.mapDeltas[t]
      BY DEF IsMap, Without, Restrict
    <1>4. IsFiniteSet(DOMAIN ds) /\ \A t \in DOMAIN ds : ds[t] \in Nat
      <2>1. IsFiniteSet(DOMAIN q.mapDeltas) /\ \A t \in DOMAIN q.mapDeltas : q.mapDeltas[t] \in Nat
        BY DEF WellFormed
      <2>2. QED
        BY <1>3, <2>1, FS_Subset
    <1>5. \A t : t # c => Delta(r, t) = Delta(q, t)
      <2>1. r.mapDeltas = ds
        BY <1>1, <1>2
      <2>2. QED
        BY <1>3, <2>1 DEF Delta
    <1>6. Cleared(q, c, r)
      <2> HIDE DEF r
      <2>1. r = [mapTx |-> q.mapTx, mapLinks |-> q.mapLinks, mapNextTx |-> q.mapNextTx,
                 mapDeltas |-> ds, mapAssetToHash |-> q.mapAssetToHash, mapReissuedAssets |-> q.mapReissuedAssets]
        <3> HIDE DEF ds
        <3>1. QED
          BY <1>1, <1>2
      <2>2. /\ r.mapTx = q.mapTx /\ r.mapLinks = q.mapLinks /\ r.mapNextTx = q.mapNextTx
            /\ r.mapDeltas = ds /\ r.mapAssetToHash = q.mapAssetToHash /\ r.mapReissuedAssets = q.mapReissuedAssets
        <3> HIDE DEF ds
        <3>1. QED
          BY <2>1
      <2>3. QED
        BY <2>1, <2>2 DEF Cleared
    <1> HIDE DEF r, ds
    <1>7. r.mapDeltas = ds
      BY <1>6 DEF Cleared, ds
    <1>8. WellFormed(r)
      <2>1. InPool(r) = InPool(q) /\ Parents(r) = Parents(q) /\ Children(r) = Children(q)
        BY <1>6 DEF Cleared, InPool, Parents, Children
      <2>2. IsMap(r.mapNextTx) /\ IsMap(r.mapDeltas) /\ IsMap(r.mapAssetToHash) /\ IsMap(r.mapReissuedAssets)
        BY <1>3, <1>6, <1>7 DEF Cleared, WellFormed
      <2>3. InPool(r) \subseteq Tx /\ r.mapTx \in [InPool(r) -> Entry]
            /\ r.mapLinks \in [InPool(r) -> [parents : SUBSET InPool(r), children : SUBSET InPool(r)]]
        BY <1>6, <2>1 DEF Cleared, WellFormed
      <2>4. \A t, u \in InPool(r) : u \in Children(r)[t] <=> t \in Parents(r)[u]
        BY <2>1 DEF WellFormed
      <2>5. r = [mapTx |-> r.mapTx, mapLinks |-> r.mapLinks, mapNextTx |-> r.mapNextTx,
            mapDeltas |-> r.mapDeltas, mapAssetToHash |-> r.mapAssetToHash,
            mapReissuedAssets |-> r.mapReissuedAssets]
        BY <1>6 DEF Cleared
      <2>6. QED
        BY <1>4, <1>7, <2>1, <2>2, <2>3, <2>4, <2>5 DEF WellFormed
    <1>9. QED
      BY <1>5, <1>6, <1>8 DEF r

(* Of what is no longer in the pool.                                       *)
LEMMA SoundCleared ==
    ASSUME NEW q, NEW H, NEW M, NEW C, NEW W, NEW X, Sound(q, H, M, C, W, X), NEW c, c \notin InPool(q)
    PROVE  Sound(ClearPrioritisation(q, c), H, M, C, W, X) /\ InPool(ClearPrioritisation(q, c)) = InPool(q)
    <1> DEFINE r == ClearPrioritisation(q, c)
    <1>1. Cleared(q, c, r) /\ WellFormed(r) /\ (\A t : t # c => Delta(r, t) = Delta(q, t)) /\ WellFormed(q)
      BY ClearedIs DEF Sound
    <1> HIDE DEF r
    <1>2. Remapped(q, r) /\ InPool(r) = InPool(q)
      BY <1>1 DEF Remapped, Cleared, InPool
    <1>3. Claimed(r, X)
      BY <1>1, <1>2 DEF Sound, Claimed, Cleared
    <1>4. QED
      BY <1>1, <1>2, <1>3, RemappedSound DEF r

(* What is removed does not depend on the delta of what goes.              *)
LEMMA ClearedRemoved ==
    ASSUME NEW q, WellFormed(q), NEW c, NEW S \in SUBSET InPool(q), c \in S
    PROVE  LET p == ClearPrioritisation(q, c)
               r == RemoveStaged(q, S, FALSE)
               s == RemoveStaged(p, S, FALSE)
           IN  Remapped(r, s) /\ WellFormed(s) /\ InPool(s) = InPool(r)
               /\ s.mapAssetToHash = r.mapAssetToHash /\ s.mapReissuedAssets = r.mapReissuedAssets
    <1> DEFINE p == ClearPrioritisation(q, c)
               r == RemoveStaged(q, S, FALSE)
               s == RemoveStaged(p, S, FALSE)
    <1>1. Cleared(q, c, p) /\ WellFormed(p) /\ \A t : t # c => Delta(p, t) = Delta(q, t)
      BY ClearedIs
    <1> HIDE DEF p
    <1>2. InPool(p) = InPool(q) /\ Parents(p) = Parents(q) /\ Children(p) = Children(q)
      BY <1>1 DEF Cleared, InPool, Parents, Children
    <1>3. Removal(q, S, Below, r) /\ Removal(p, S, Below, s)
      BY <1>1, <1>2, RemovedStaged
    <1> HIDE DEF r, s
    <1>4. ASSUME NEW k
          PROVE  /\ AncestorsLost(p, S, Below, k) = AncestorsLost(q, S, Below, k)
                 /\ DescendantsLost(p, S, k) = DescendantsLost(q, S, k)
      BY <1>2 DEF AncestorsLost, DescendantsLost
    <1>5. ASSUME NEW k \in InPool(q)
          PROVE  /\ FeesOf(p, AncestorsLost(q, S, Below, k)) = FeesOf(q, AncestorsLost(q, S, Below, k))
                 /\ FeesOf(p, DescendantsLost(q, S, k)) = FeesOf(q, DescendantsLost(q, S, k))
      <2>1. AncestorsLost(q, S, Below, k) \in SUBSET InPool(q) /\ DescendantsLost(q, S, k) \in SUBSET InPool(q)
        BY LostAreIn
      <2>2. \A t \in InPool(q) : p.mapTx[t].delta = q.mapTx[t].delta
        BY <1>1 DEF Cleared
      <2> HIDE DEF Below
      <2>3. QED
        BY <1>1, <1>2, <2>1, <2>2, FeesSame
    <1>6. s.mapTx = r.mapTx
      <2>1. p.mapTx = q.mapTx
        BY <1>1 DEF Cleared
      <2>2. \A k \in InPool(q) \ S : s.mapTx[k] = r.mapTx[k]
        BY <1>2, <1>3, <1>4, <1>5, <2>1 DEF Removal
      <2>3. DOMAIN s.mapTx = DOMAIN r.mapTx /\ DOMAIN r.mapTx = InPool(q) \ S
        BY <1>2, <1>3 DEF Removal, InPool
      <2>4. IsMap(s.mapTx) /\ IsMap(r.mapTx)
        BY <1>3 DEF Removal, IsMap
      <2>5. QED
        BY <2>2, <2>3, <2>4 DEF IsMap
    <1>7. s.mapLinks = r.mapLinks
      BY <1>2, <1>3 DEF Removal
    <1>8. /\ s.mapNextTx = r.mapNextTx /\ s.mapAssetToHash = r.mapAssetToHash
          /\ s.mapReissuedAssets = r.mapReissuedAssets
      BY <1>1, <1>3 DEF Removal, Cleared
    <1>9. WellFormed(s) /\ InPool(s) = InPool(r) /\ InPool(r) = InPool(q) \ S
      <2> HIDE DEF Below
      <2>1. WellFormed(s)
        BY <1>3, RemovalWellFormed
      <2>2. InPool(s) = InPool(p) \ S
        BY <1>3, RemovalLinks
      <2>3. InPool(r) = InPool(q) \ S
        BY <1>3, RemovalLinks
      <2>4. QED
        BY <1>2, <2>1, <2>2, <2>3
    <1>10. \A t \in InPool(r) : Delta(s, t) = Delta(r, t)
      <2>1. s.mapDeltas = p.mapDeltas /\ r.mapDeltas = q.mapDeltas
        BY <1>3, RemovalLinks
      <2>2. \A t : Delta(s, t) = Delta(p, t) /\ Delta(r, t) = Delta(q, t)
        BY <2>1 DEF Delta
      <2>3. QED
        BY <1>1, <1>9, <2>2
    <1>11. Remapped(r, s)
      BY <1>6, <1>7, <1>8, <1>10 DEF Remapped
    <1>12. QED
      BY <1>8, <1>9, <1>11 DEF p, r, s

(* A conflict of a transaction of a block goes, with what depends on it.   *)
LEMMA SoundConflict ==
    ASSUME NEW q, NEW C, NEW W, NEW X, NEW E, E = {}, Sound(q, E, E, C, W, X), NEW t, t \notin InPool(q), NEW o
    PROVE  LET r == RemoveConflict(q, t, o)
           IN  /\ Sound(r, E, E, C, W, X) /\ InPool(r) \subseteq InPool(q)
               /\ \A u \in InPool(r) : o \notin Spends(u)
    <1> DEFINE r == RemoveConflict(q, t, o)
    <1>1. WellFormed(q) /\ SpendsKnown(q)
      BY DEF Sound
    <1>2. CASE o \notin DOMAIN q.mapNextTx
      <2>1. r = q
        BY <1>2 DEF RemoveConflict
      <2>2. \A u \in InPool(q) : o \notin Spends(u)
        BY <1>1, <1>2 DEF SpendsKnown
      <2>3. QED
        BY <2>1, <2>2
    <1>3. CASE o \in DOMAIN q.mapNextTx
      <2> DEFINE c == q.mapNextTx[o]
                 p == ClearPrioritisation(q, c)
                 S == CalculateDescendants(q, {c})
      <2>1. c \in InPool(q) /\ \A u \in InPool(q) : o \in Spends(u) => u = c
        BY <1>1, <1>3 DEF SpendsKnown
      <2>2. r = removeRecursive(p, c)
        <3>1. c # t
          BY <2>1
        <3>2. QED
          BY <1>3, <3>1 DEF RemoveConflict
      <2> HIDE DEF c, r
      <2>3. Cleared(q, c, p) /\ WellFormed(p)
        BY <1>1, ClearedIs
      <2> HIDE DEF p
      <2>4. InPool(p) = InPool(q) /\ Parents(p) = Parents(q) /\ Children(p) = Children(q)
        BY <2>3 DEF Cleared, InPool, Parents, Children
      <2>5. CalculateDescendants(p, {c}) = S
        <3>1. {c} \in SUBSET InPool(q) /\ {c} \in SUBSET InPool(p)
          BY <2>1, <2>4
        <3>2. S = Reach(InPool(q), Children(q), {c})
          BY <1>1, <3>1, DescendantsAre
        <3>3. CalculateDescendants(p, {c}) = Reach(InPool(p), Children(p), {c})
          BY <2>3, <3>1, DescendantsAre
        <3>4. QED
          BY <2>4, <3>2, <3>3
      <2>6. r = RemoveStaged(p, S, FALSE)
        <3>1. c \in InPool(p)
          BY <2>1, <2>4
        <3>2. removeRecursive(p, c) = RemoveStaged(p, CalculateDescendants(p, {c}), FALSE)
          BY <3>1 DEF removeRecursive
        <3>3. QED
          BY <2>2, <2>5, <3>2
      <2> DEFINE z == RemoveStaged(q, S, FALSE)
      <2>7. /\ Sound(z, E, E, C, W, X) /\ InPool(z) = InPool(q) \ S /\ {c} \subseteq S /\ S \subseteq InPool(q)
        <3> DEFINE F == {c}
        <3>1. F \in SUBSET InPool(q) /\ F \cap E = {} /\ E \subseteq E
          BY <2>1
        <3> HIDE DEF F
        <3>2. LET S2 == CalculateDescendants(q, F)
                  r2 == RemoveStaged(q, S2, FALSE)
              IN  /\ Sound(r2, E, E, C, W, X) /\ Less(r2, q) /\ InPool(r2) = InPool(q) \ S2
                  /\ F \subseteq S2 /\ S2 \subseteq InPool(q) /\ S2 \cap E = {}
          BY <3>1, SoundBelow
        <3>3. QED
          BY <3>2 DEF F
      <2> HIDE DEF S
      <2>8. /\ Remapped(z, r) /\ WellFormed(r) /\ InPool(r) = InPool(z)
            /\ r.mapAssetToHash = z.mapAssetToHash /\ r.mapReissuedAssets = z.mapReissuedAssets
        BY <1>1, <2>6, <2>7, ClearedRemoved DEF p
      <2> HIDE DEF z
      <2>9. Claimed(r, X)
        BY <2>7, <2>8 DEF Sound, Claimed
      <2>10. Sound(r, E, E, C, W, X)
        BY <2>7, <2>8, <2>9, RemappedSound
      <2>11. QED
        BY <2>1, <2>7, <2>8, <2>10 DEF r
    <1>4. QED
      BY <1>2, <1>3

(* removeConflicts, for a transaction that is not in the pool.             *)
LEMMA SoundConflicts ==
    ASSUME NEW q, NEW C, NEW W, NEW X, NEW E, E = {}, Sound(q, E, E, C, W, X), NEW t \in Tx, t \notin InPool(q)
    PROVE  LET r == removeConflicts(q, t)
           IN  /\ Sound(r, E, E, C, W, X) /\ InPool(r) \subseteq InPool(q)
               /\ \A u \in InPool(r) : Spends(u) \cap Spends(t) = {}
    <1> DEFINE seq == vin[t]
               n == Len(seq)
               k == <<"conflicts", t>>
    <1>1. n \in Nat /\ DOMAIN seq = 1..n /\ Spends(t) = {seq[i] : i \in 1..n}
      <2>1. seq \in Seq(Outpoint)
        BY TxAssumption
      <2>2. QED
        BY <2>1 DEF Spends, ToSet
    <1>2. PICK h : Steps(h, n, k, seq, q) /\ h[n] = removeConflicts(q, t)
      <2>1. removeConflicts(q, t) = ConflictFold(q, seq, t)
        BY DEF removeConflicts, RemoveConflict, ConflictFold
      <2> HIDE DEF seq, n
      <2>2. \E h : Steps(h, n, k, seq, q) /\ h[n] = ConflictFold(q, seq, t)
        BY <1>1, ConflictTurns
      <2>3. QED
        BY <2>1, <2>2
    <1>3. h[0] = q /\ \A i \in 1..n : h[i] = RemoveConflict(h[i - 1], t, seq[i])
      <2>1. h[0] = q /\ \A i \in 1..n : h[i] = Turn(k, h[i - 1], seq[i])
        <3> HIDE DEF k, seq, n
        <3>1. QED
          BY <1>2 DEF Steps
      <2>2. QED
        BY <2>1 DEF Turn
    <1> HIDE DEF seq, n, k
    <1> DEFINE Fit(z, i) == /\ Sound(z, E, E, C, W, X) /\ InPool(z) \subseteq InPool(q)
                            /\ \A j \in 1..i : \A u \in InPool(z) : seq[j] \notin Spends(u)
               T == {i \in 0..n : Fit(h[i], i)}
    <1>4. 0 \in T
      BY <1>1, <1>3
    <1>5. ASSUME NEW i \in 1..n, i - 1 \in T PROVE i \in T
      <2> DEFINE z == h[i - 1]
                 r == RemoveConflict(z, t, seq[i])
      <2>1. h[i] = r
        BY <1>3
      <2>2. Sound(z, E, E, C, W, X) /\ InPool(z) \subseteq InPool(q)
            /\ \A j \in 1..(i - 1) : \A u \in InPool(z) : seq[j] \notin Spends(u)
        BY <1>5
      <2> HIDE DEF z
      <2>3. Sound(r, E, E, C, W, X) /\ InPool(r) \subseteq InPool(z) /\ \A u \in InPool(r) : seq[i] \notin Spends(u)
        BY <2>2, SoundConflict
      <2> HIDE DEF r
      <2>4. \A j \in 1..i : \A u \in InPool(r) : seq[j] \notin Spends(u)
        <3>1. \A j \in 1..i : j = i \/ j \in 1..(i - 1)
          BY <1>1
        <3>2. QED
          BY <2>2, <2>3, <3>1
      <2>5. QED
        BY <1>1, <2>1, <2>2, <2>3, <2>4
    <1>6. n \in T
      <2> HIDE DEF T
      <2>1. 0..n \subseteq T
        BY <1>1, <1>4, <1>5, UpTo
      <2>2. QED
        BY <1>1, <2>1
    <1>7. QED
      BY <1>1, <1>2, <1>6

-----------------------------------------------------------------------------
(* A transaction that is confirmed goes alone: it has no parents left in   *)
(* the pool, or no children.                                               *)
LEMMA RemovalTop ==
    ASSUME NEW q, NEW t, NEW r, Removal(q, {t}, Alone, r), Parents(q)[t] = {}, Counted(q)
    PROVE  Counted(r)
    <1> DEFINE V == InPool(q)
               U == InPool(r)
               S == {t}
    <1>1. /\ WellFormed(q) /\ WellFormed(r) /\ t \in V /\ U = V \ {t}
          /\ \A k \in U : Parents(r)[k] = Parents(q)[k] \ S /\ Children(r)[k] = Children(q)[k] \ S
      <2>1. WellFormed(r)
        BY RemovalWellFormed
      <2>2. WellFormed(q) /\ {t} \in SUBSET InPool(q) /\ InPool(r) = InPool(q) \ {t}
            /\ \A k \in InPool(r) : Parents(r)[k] = Parents(q)[k] \ {t} /\ Children(r)[k] = Children(q)[k] \ {t}
        BY RemovalLinks
      <2>3. QED
        BY <2>1, <2>2
    <1>2. /\ Opposite(V, Parents(q), Children(q)) /\ Opposite(V, Children(q), Parents(q))
          /\ Parents(q) \in [V -> SUBSET V] /\ Children(q) \in [V -> SUBSET V]
      BY <1>1, PoolGraph
    <1>3. Parents(r) \in [U -> SUBSET U] /\ Children(r) \in [U -> SUBSET U]
      BY <1>1, PoolGraph
    <1>4. Inside(V, Parents(q), Children(q), U, Parents(r), Children(r))
      <2>1. U \in SUBSET V /\ \A x \in V \ U : Parents(q)[x] \cap U = {}
        BY <1>1
      <2>2. \A x \in U : Parents(r)[x] = Parents(q)[x] \cap U /\ Children(r)[x] = Children(q)[x] \cap U
        BY <1>1, <1>2
      <2> HIDE DEF V, U
      <2>3. QED
        BY <1>2, <1>3, <2>1, <2>2 DEF Inside
    <1>5. \A k \in U : Up(r, k) = Up(q, k) \cap U /\ Down(r, k) = Down(q, k) /\ Down(q, k) \subseteq U
      <2> DEFINE pq == Parents(q)
                 cq == Children(q)
                 pr == Parents(r)
                 cr == Children(r)
      <2>1. /\ \A k \in U : Reach(U, pr, {k}) = Reach(V, pq, {k}) \cap U
            /\ \A k \in U : Reach(U, cr, {k}) = Reach(V, cq, {k})
            /\ \A k \in U : Reach(V, cq, {k}) \subseteq U
        <3> HIDE DEF V, U, pq, cq, pr, cr
        <3>1. Inside(V, pq, cq, U, pr, cr)
          BY <1>4 DEF pq, cq, pr, cr
        <3>2. QED
          BY <3>1, ReachWithin
      <2>2. QED
        BY <2>1 DEF Up, Down
    <1>6. Up(q, t) \subseteq S
      <2>1. t \in S /\ \A x \in V \cap S : Parents(q)[x] \subseteq S
        OBVIOUS
      <2> HIDE DEF S, V
      <2>2. Reach(V, Parents(q), {t}) \subseteq S
        BY <1>1, <1>2, <2>1, ReachOneLeast
      <2>3. QED
        BY <2>2 DEF Up, V
    <1>7. ASSUME NEW k \in U
          PROVE  /\ AncestorsLost(q, S, Alone, k) = Up(q, k) \cap S
                 /\ DescendantsLost(q, S, k) = {}
      <2>1. k \in Down(q, t) <=> t \in Up(q, k)
        <3> DEFINE pq == Parents(q)
                   cq == Children(q)
        <3>1. k \in Reach(V, cq, {t}) <=> t \in Reach(V, pq, {k})
          <4>1. Opposite(V, cq, pq) /\ k \in V /\ t \in V
            BY <1>1, <1>2
          <4> HIDE DEF V, pq, cq
          <4>2. QED
            BY <4>1, ReachDual
        <3>2. QED
          BY <3>1 DEF Up, Down
      <2>2. AncestorsLost(q, S, Alone, k) = {x \in S : k \in Down(q, x)}
        BY DEF AncestorsLost, Alone, Down
      <2>3. DescendantsLost(q, S, k) = {x \in S : k \in Up(q, x)}
        BY DEF DescendantsLost, Up
      <2>4. k # t
        BY <1>1
      <2>5. QED
        BY <1>6, <2>1, <2>2, <2>3, <2>4
    <1>8. ASSUME NEW k \in U PROVE Counts(r, k, Up(r, k), Down(r, k))
      <2> DEFINE up == Up(q, k)
                 down == Down(q, k)
      <2>1. up \in SUBSET InPool(q) /\ down \in SUBSET InPool(q) /\ Counts(q, k, up, down)
        <3>1. up \subseteq InPool(q) /\ down \subseteq InPool(q)
          BY DEF Up, Down, Reach
        <3>2. k \in InPool(q)
          BY <1>1
        <3>3. QED
          BY <3>1, <3>2 DEF Counted
      <2>2. /\ up \ AncestorsLost(q, S, Alone, k) = Up(r, k) /\ down \ DescendantsLost(q, S, k) = Down(r, k)
            /\ AncestorsLost(q, S, Alone, k) \subseteq up /\ DescendantsLost(q, S, k) \subseteq down
        BY <1>1, <1>5, <1>7, <2>1
      <2>3. Up(r, k) \subseteq InPool(r) /\ Down(r, k) \subseteq InPool(r)
        BY DEF Up, Down, Reach
      <2>4. Removal(q, S, Alone, r)
        OBVIOUS
      <2> HIDE DEF up, down, S, Alone
      <2>5. Counts(r, k, up \ AncestorsLost(q, S, Alone, k), down \ DescendantsLost(q, S, k))
        BY <2>1, <2>2, <2>3, <2>4, RemovalCounts
      <2>6. QED
        BY <2>2, <2>5
    <1>9. QED
      BY <1>8 DEF Counted

(* A transaction that is confirmed goes alone, if its parents went before  *)
(* it or it has no children.                                               *)
LEMMA SoundAlone ==
    ASSUME NEW q, NEW C, NEW W, NEW X, NEW E, E = {}, Sound(q, E, E, C, W, X), NEW t \in InPool(q),
           (t \in W /\ Parents(q)[t] = {}) \/ Children(q)[t] = {}
    PROVE  LET r == RemoveStaged(q, {t}, TRUE)
           IN  Sound(r, E, E, C, W, X) /\ InPool(r) = InPool(q) \ {t}
    <1> DEFINE S == {t}
               r == RemoveStaged(q, S, TRUE)
    <1>1. WellFormed(q) /\ S \in SUBSET InPool(q)
      BY DEF Sound
    <1>2. Removal(q, S, Alone, r)
      <2> HIDE DEF S
      <2>1. QED
        BY <1>1, RemovedStaged
    <1> HIDE DEF r
    <1>3. InPool(r) = InPool(q) \ S
      <2> HIDE DEF S, Alone
      <2>1. QED
        BY <1>2, RemovalLinks
    <1>4. CASE Children(q)[t] = {}
      <2>1. Down(q, t) \subseteq S
        <3>1. t \in S /\ \A x \in InPool(q) \cap S : Children(q)[x] \subseteq S
          BY <1>4
        <3>2. Children(q) \in [InPool(q) -> SUBSET InPool(q)]
          BY <1>1, PoolGraph
        <3> HIDE DEF S
        <3>3. QED
          BY <3>1, <3>2, ReachOneLeast DEF Down
      <2>2. \A k \in InPool(q) \ S : AncestorsLost(q, S, Alone, k) = AncestorsLost(q, S, Below, k)
        BY <2>1 DEF AncestorsLost, Alone, Below, Down
      <2>3. Removal(q, S, Below, r)
        <3>1. [k \in InPool(q) \ S |-> [delta |-> q.mapTx[k].delta,
                  nAnc |-> q.mapTx[k].nAnc - Cardinality(AncestorsLost(q, S, Alone, k)),
                  feeAnc |-> q.mapTx[k].feeAnc - FeesOf(q, AncestorsLost(q, S, Alone, k)),
                  nDesc |-> q.mapTx[k].nDesc - Cardinality(DescendantsLost(q, S, k)),
                  feeDesc |-> q.mapTx[k].feeDesc - FeesOf(q, DescendantsLost(q, S, k))]] =
              [k \in InPool(q) \ S |-> [delta |-> q.mapTx[k].delta,
                  nAnc |-> q.mapTx[k].nAnc - Cardinality(AncestorsLost(q, S, Below, k)),
                  feeAnc |-> q.mapTx[k].feeAnc - FeesOf(q, AncestorsLost(q, S, Below, k)),
                  nDesc |-> q.mapTx[k].nDesc - Cardinality(DescendantsLost(q, S, k)),
                  feeDesc |-> q.mapTx[k].feeDesc - FeesOf(q, DescendantsLost(q, S, k))]]
          BY <2>2
        <3> HIDE DEF S, Alone, Below
        <3>2. QED
          BY <1>2, <3>1, Zenon DEF Removal
      <2>4. (\A x \in S : Children(q)[x] \subseteq S) /\ S \cap E = {}
        BY <1>4
      <2> HIDE DEF S, Below
      <2>5. Sound(r, E, E, C, W, X)
        BY <2>3, <2>4, SoundRemoval
      <2>6. QED
        BY <1>3, <2>5 DEF r, S
    <1>5. CASE t \in W /\ Parents(q)[t] = {}
      <2>1. WellFormed(r) /\ SpendsKnown(r) /\ Linked(r, E, E) /\ Claimed(r, X)
        <3> HIDE DEF S, Alone
        <3>1. WellFormed(r)
          BY <1>2, RemovalWellFormed
        <3>2. SpendsKnown(r)
          BY <1>2, RemovalSpends DEF Sound
        <3>3. Linked(r, E, E)
          BY <1>2, RemovalLinked DEF Sound
        <3>4. Claimed(r, X)
          BY <1>2, RemovalClaims DEF Sound
        <3>5. QED
          BY <3>1, <3>2, <3>3, <3>4
      <2>2. Counted(r)
        <3>1. Removal(q, {t}, Alone, r) /\ Counted(q)
          BY <1>2 DEF Sound
        <3> HIDE DEF Alone
        <3>2. QED
          BY <1>5, <3>1, RemovalTop
      <2>3. Supplied(r, C, W)
        <3>1. \A k \in InPool(q) \ S : Sources(k) \cap S \subseteq W
          BY <1>5
        <3> HIDE DEF S, Alone
        <3>2. QED
          BY <1>2, <3>1, RemovalSupplied DEF Sound
      <2>4. InPool(r) \cap C = {} /\ Free(r, C)
        BY <1>3 DEF Sound, Free
      <2>5. QED
        BY <1>3, <2>1, <2>2, <2>3, <2>4 DEF Sound, r
    <1>6. QED
      BY <1>4, <1>5

(* Its conflicts go with it.                                               *)
LEMMA SoundConfirmed ==
    ASSUME NEW q, NEW C, NEW W, NEW X, NEW E, E = {}, Sound(q, E, E, C, W, X), NEW t \in Tx,
           t \in InPool(q) => (t \in W /\ Parents(q)[t] = {}) \/ Children(q)[t] = {}
    PROVE  LET r == removeConfirmed(q, t)
           IN  /\ Sound(r, E, E, C, W, X) /\ InPool(r) \subseteq InPool(q) /\ t \notin InPool(r)
               /\ \A u \in InPool(r) : Spends(u) \cap Spends(t) = {}
    <1> DEFINE a == RemoveStaged(q, {t}, TRUE)
               z == IF t \in InPool(q) THEN a ELSE q
               c == removeConflicts(z, t)
               r == ClearPrioritisation(c, t)
    <1>1. removeConfirmed(q, t) = r
      BY DEF removeConfirmed
    <1>2. Sound(z, E, E, C, W, X) /\ InPool(z) = InPool(q) \ {t}
      <2>1. CASE t \in InPool(q)
        <3>1. Sound(a, E, E, C, W, X) /\ InPool(a) = InPool(q) \ {t}
          BY <2>1, SoundAlone
        <3> HIDE DEF a
        <3>2. QED
          BY <2>1, <3>1
      <2>2. CASE t \notin InPool(q)
        BY <2>2
      <2>3. QED
        BY <2>1, <2>2
    <1> HIDE DEF z
    <1>3. Sound(c, E, E, C, W, X) /\ InPool(c) \subseteq InPool(z) /\ \A u \in InPool(c) : Spends(u) \cap Spends(t) = {}
      BY <1>2, SoundConflicts
    <1> HIDE DEF c
    <1>4. Sound(r, E, E, C, W, X) /\ InPool(r) = InPool(c)
      BY <1>2, <1>3, SoundCleared
    <1> HIDE DEF r
    <1>5. QED
      BY <1>1, <1>2, <1>3, <1>4

-----------------------------------------------------------------------------
(* The fold over the rivals of a block.                                    *)
Ousting(p, U) == FoldSet(LAMBDA t, q : removeConfirmed(q, t), p, U)
Ousts(g, p, U) ==
    /\ g[{}] = p /\ Ousting(p, U) = g[U]
    /\ \A s \in SUBSET U : s # {} => g[s] = removeConfirmed(g[s \ {Chosen(U)[s]}], Chosen(U)[s])

(* The loop over the rival issues.                                         *)
LEMMA OustingIs ==
    ASSUME NEW p, NEW U, IsFiniteSet(U)
    PROVE  \E g : Ousts(g, p, U)
    <1> DEFINE k == <<"confirmed">>
               f == [x \in U |-> x]
               iter == CHOOSE g : g = [s \in SUBSET U |-> IF s = {} THEN p
                         ELSE removeConfirmed(g[s \ {CHOOSE x \in s : TRUE}], CHOOSE x \in s : TRUE)]
    <1>1. PICK g : Turns(g, U, Chosen(U), k, f, p)
      <2> HIDE DEF k, f
      <2>1. \A s \in SUBSET U : s # {} => Chosen(U)[s] \in s
        BY ChosenIn
      <2>2. QED
        BY <2>1, TurnsExist
    <1>2. ASSUME NEW s \in SUBSET U, s # {}, NEW x, x = CHOOSE y \in s : TRUE
          PROVE  x \in s /\ x = Chosen(U)[s] /\ g[s] = removeConfirmed(g[s \ {x}], x)
      <2>1. x \in s /\ x = Chosen(U)[s]
        BY <1>2, ChosenIn
      <2>2. g[s] = Turn(k, g[s \ {Chosen(U)[s]}], f[Chosen(U)[s]])
        <3> HIDE DEF k, f
        <3>1. QED
          BY <1>1, <1>2 DEF Turns
      <2>3. f[x] = x
        BY <2>1
      <2>4. g[s] = Turn(k, g[s \ {x}], x)
        BY <2>1, <2>2, <2>3, Zenon
      <2>5. QED
        BY <2>1, <2>4 DEF Turn
    <1>3. g = [s \in SUBSET U |-> IF s = {} THEN p
                 ELSE removeConfirmed(g[s \ {CHOOSE x \in s : TRUE}], CHOOSE x \in s : TRUE)]
      <2>1. g = [s \in SUBSET U |-> g[s]] /\ g[{}] = p
        <3> HIDE DEF k, f
        <3>1. QED
          BY <1>1 DEF Turns
      <2>2. QED
        BY <1>2, <2>1
    <1>4. iter = [s \in SUBSET U |-> IF s = {} THEN p
                 ELSE removeConfirmed(iter[s \ {CHOOSE x \in s : TRUE}], CHOOSE x \in s : TRUE)]
      BY <1>3, Zenon
    <1>5. Ousting(p, U) = iter[U]
      BY DEF Ousting, FoldSet, MapThenFoldSet
    <1> HIDE DEF iter
    <1>6. iter[{}] = p
      BY <1>4
    <1>7. ASSUME NEW s \in SUBSET U, s # {}
          PROVE  iter[s] = removeConfirmed(iter[s \ {Chosen(U)[s]}], Chosen(U)[s])
      <2>1. Chosen(U)[s] = CHOOSE x \in s : TRUE
        BY ChosenIn
      <2>2. iter[s] = removeConfirmed(iter[s \ {CHOOSE x \in s : TRUE}], CHOOSE x \in s : TRUE)
        BY <1>4, <1>7
      <2>3. QED
        BY <2>1, <2>2
    <1>8. Ousts(iter, p, U)
      BY <1>5, <1>6, <1>7 DEF Ousts
    <1>9. QED
      BY <1>8, Zenon

(* A block whose inputs come from C and from itself.  While it is applied, *)
(* W holds its transactions: what they were parents of stays supplied.     *)
Minable(q, C, W, b, E) ==
    /\ E = {} /\ b \in Seq(Tx) /\ ToSet(b) \subseteq W /\ Sound(q, E, E, C, W, ToSet(b))
    /\ \A i \in DOMAIN b : Sources(b[i]) \subseteq C \cup {Base} \cup {b[j] : j \in 1..(i - 1)}
Mined(q, C, W, b, E, r) ==
    /\ Sound(r, E, E, C, W, ToSet(b)) /\ InPool(r) \subseteq InPool(q) /\ InPool(r) \cap ToSet(b) = {}
    /\ \A t \in ToSet(b) : \A u \in InPool(r) : Spends(u) \cap Spends(t) = {}

(* removeForBlock, as far as the transactions of the block go.             *)
LEMMA BlockMined ==
    ASSUME NEW q, NEW C, NEW W, NEW b, NEW E, Minable(q, C, W, b, E)
    PROVE  Mined(q, C, W, b, E, ConfirmedFold(q, b, E))
    <1> DEFINE B == ToSet(b)
               n == Len(b)
               k == <<"confirmed", E>>
    <1>1. n \in Nat /\ DOMAIN b = 1..n /\ B = {b[i] : i \in 1..n} /\ B \subseteq Tx /\ \A i \in 1..n : b[i] \in Tx
      <2>1. b \in Seq(Tx)
        BY DEF Minable
      <2>2. QED
        BY <2>1 DEF ToSet
    <1>2. PICK h : Steps(h, n, k, b, q) /\ h[n] = ConfirmedFold(q, b, E)
      <2> HIDE DEF n
      <2>1. QED
        BY <1>1, ConfirmedTurns
    <1>3. h[0] = q /\ \A i \in 1..n : h[i] = removeConfirmed(h[i - 1], b[i])
      <2>1. h[0] = q /\ \A i \in 1..n : h[i] = Turn(k, h[i - 1], b[i])
        <3> HIDE DEF k, n
        <3>1. QED
          BY <1>2 DEF Steps
      <2>2. QED
        BY <2>1 DEF Turn
    <1> HIDE DEF n, k, B
    <1>4. E = {} /\ Sound(q, E, E, C, W, B) /\ B \subseteq W
          /\ \A i \in 1..n : Sources(b[i]) \subseteq C \cup {Base} \cup {b[j] : j \in 1..(i - 1)}
      BY <1>1 DEF Minable, B
    <1> DEFINE Fit(z, i) == /\ Sound(z, E, E, C, W, B) /\ InPool(z) \subseteq InPool(q)
                            /\ \A j \in 1..i : /\ b[j] \notin InPool(z)
                                               /\ \A u \in InPool(z) : Spends(u) \cap Spends(b[j]) = {}
               T == {i \in 0..n : Fit(h[i], i)}
    <1>5. 0 \in T
      BY <1>1, <1>3, <1>4
    <1>6. ASSUME NEW i \in 1..n, i - 1 \in T PROVE i \in T
      <2> DEFINE z == h[i - 1]
                 t == b[i]
                 r == removeConfirmed(z, t)
      <2>1. h[i] = r
        BY <1>3
      <2>2. Sound(z, E, E, C, W, B) /\ InPool(z) \subseteq InPool(q)
            /\ \A j \in 1..(i - 1) : b[j] \notin InPool(z) /\ \A u \in InPool(z) : Spends(u) \cap Spends(b[j]) = {}
        BY <1>6
      <2> HIDE DEF z
      <2>3. t \in Tx /\ t \in W
        BY <1>1, <1>4
      <2>4. t \in InPool(z) => Parents(z)[t] = {}
        <3>1. SUFFICES ASSUME t \in InPool(z), NEW s, s \in Parents(z)[t] PROVE FALSE
          OBVIOUS
        <3>2. s \in Sources(t) /\ s \in InPool(z)
          BY <1>4, <2>2, <3>1 DEF Sound, Linked
        <3>3. s \in C \cup {Base} \cup {b[j] : j \in 1..(i - 1)}
          BY <1>4, <3>2
        <3>4. s \notin C /\ s # Base
          BY <2>2, <3>2, TxAssumption DEF Sound, WellFormed
        <3>5. QED
          BY <2>2, <3>2, <3>3, <3>4
      <2> HIDE DEF t
      <2>5. /\ Sound(r, E, E, C, W, B) /\ InPool(r) \subseteq InPool(z) /\ t \notin InPool(r)
            /\ \A u \in InPool(r) : Spends(u) \cap Spends(t) = {}
        BY <1>4, <2>2, <2>3, <2>4, SoundConfirmed
      <2> HIDE DEF r
      <2>6. ASSUME NEW j \in 1..i PROVE b[j] \notin InPool(r) /\ \A u \in InPool(r) : Spends(u) \cap Spends(b[j]) = {}
        <3>1. j = i \/ j \in 1..(i - 1)
          BY <1>1
        <3>2. QED
          BY <2>2, <2>5, <3>1 DEF t
      <2>7. QED
        BY <1>1, <2>1, <2>2, <2>5, <2>6
    <1>7. n \in T
      <2> HIDE DEF T
      <2>1. 0..n \subseteq T
        BY <1>1, <1>5, <1>6, UpTo
      <2>2. QED
        BY <1>1, <2>1
    <1>8. Sound(h[n], E, E, C, W, B) /\ InPool(h[n]) \subseteq InPool(q) /\ InPool(h[n]) \cap B = {}
          /\ \A t \in B : \A u \in InPool(h[n]) : Spends(u) \cap Spends(t) = {}
      BY <1>1, <1>7
    <1>9. QED
      BY <1>2, <1>8 DEF Mined, B

(* removeForBlock: what is left has no conflict with the block, and issues *)
(* none of its names.                                                      *)
LEMMA SoundForBlock ==
    ASSUME Unrivalled, NEW q, NEW C, NEW W, NEW b, NEW E, Minable(q, C, W, b, E)
    PROVE  LET r == removeForBlock(q, b)
           IN  /\ Mined(q, C, W, b, E, r)
               /\ \A u \in InPool(r), t \in ToSet(b) : Issue[t] # None => Issue[u] # Issue[t]
    <1> DEFINE B == ToSet(b)
               names == {Issue[t] : t \in ToSet(b)} \ {None}
               trans == {q.mapAssetToHash[n] : n \in names \cap DOMAIN q.mapAssetToHash} \cap InPool(q)
               y == ConfirmedFold(q, b, E)
               r == removeForBlock(q, b)
    <1>1. r = Ousting(y, trans)
      BY DEF removeForBlock, Ousting, ConfirmedFold
    <1> HIDE DEF r, y
    <1>2. Mined(q, C, W, b, E, y)
      BY BlockMined DEF y
    <1>3. /\ E = {} /\ B \subseteq Tx /\ InPool(q) \subseteq Tx /\ IsFiniteSet(InPool(q)) /\ Claimed(q, B)
      <2>1. b \in Seq(Tx) /\ E = {} /\ WellFormed(q) /\ Claimed(q, B)
        BY DEF Minable, Sound
      <2>2. IsFiniteSet(InPool(q)) /\ InPool(q) \subseteq Tx
        BY <2>1, PoolGraph DEF WellFormed
      <2>3. QED
        BY <2>1, <2>2 DEF ToSet
    <1>4. \A x \in trans : x \in Tx /\ x \in InPool(q) /\ \E t \in B : Issue[x] = Issue[t] /\ Issue[x] # None
      <2>1. SUFFICES ASSUME NEW x \in trans PROVE \E t \in B : Issue[x] = Issue[t] /\ Issue[x] # None
        BY <1>3
      <2>2. PICK n \in names \cap DOMAIN q.mapAssetToHash : x = q.mapAssetToHash[n]
        OBVIOUS
      <2>3. Issue[x] = n /\ n # None
        BY <1>3, <2>2 DEF Claimed
      <2>4. QED
        BY <2>2, <2>3
    <1>5. \A u \in InPool(q) \ B, t \in B : Issue[t] # None /\ Issue[u] = Issue[t] => u \in trans
      BY <1>3 DEF Claimed
    <1> HIDE DEF trans, names
    <1>6. IsFiniteSet(trans)
      BY <1>3, <1>4, FS_Subset
    <1>7. PICK g : Ousts(g, y, trans)
      BY <1>6, OustingIs, Zenon
    <1> DEFINE ch == Chosen(trans)
    <1>8. /\ g[{}] = y /\ r = g[trans]
          /\ \A s \in SUBSET trans : s # {} => g[s] = removeConfirmed(g[s \ {ch[s]}], ch[s])
      BY <1>1, <1>7 DEF Ousts
    <1>9. \A s \in SUBSET trans : s # {} => ch[s] \in s
      BY ChosenIn
    <1> HIDE DEF ch
    <1>10. /\ Sound(y, E, E, C, W, B) /\ InPool(y) \subseteq InPool(q) /\ InPool(y) \cap B = {}
           /\ \A t \in B : \A u \in InPool(y) : Spends(u) \cap Spends(t) = {}
      BY <1>2 DEF Mined
    <1> HIDE DEF B
    <1> DEFINE Fit(z, s) == Sound(z, E, E, C, W, B) /\ InPool(z) \subseteq InPool(y) /\ s \cap InPool(z) = {}
               T == {s \in SUBSET trans : Fit(g[s], s)}
    <1>11. {} \in T
      BY <1>8, <1>10
    <1>12. ASSUME NEW s \in SUBSET trans, s # {}, s \ {ch[s]} \in T PROVE s \in T
      <2> DEFINE t == ch[s]
                 z == g[s \ {t}]
                 p == removeConfirmed(z, t)
      <2>1. t \in s /\ g[s] = p
        BY <1>8, <1>9, <1>12
      <2>2. Sound(z, E, E, C, W, B) /\ InPool(z) \subseteq InPool(y) /\ (s \ {t}) \cap InPool(z) = {}
        BY <1>12
      <2> HIDE DEF z, t
      <2>3. t \in Tx /\ \E u \in B : Issue[t] = Issue[u] /\ Issue[t] # None
        BY <1>4, <2>1
      <2>4. t \in InPool(z) => Children(z)[t] = {}
        <3>1. SUFFICES ASSUME t \in InPool(z), NEW w, w \in Children(z)[t] PROVE FALSE
          OBVIOUS
        <3>2. w \in InPool(z) /\ t \in Parents(z)[w]
          <4>1. WellFormed(z)
            BY <2>2 DEF Sound
          <4>2. QED
            BY <3>1, <4>1, PoolGraph DEF Opposite
        <3>3. t \in Sources(w)
          BY <1>3, <2>2, <3>2 DEF Sound, Linked
        <3>4. PICK u \in B : Issue[t] = Issue[u] /\ Issue[t] # None
          BY <2>3
        <3>5. u # t
          BY <1>10, <2>2, <3>1
        <3>6. u \in Tx /\ w \in Tx
          BY <1>3, <1>10, <2>2, <3>2
        <3>7. QED
          BY <2>3, <3>3, <3>4, <3>5, <3>6 DEF Unrivalled
      <2>5. Sound(p, E, E, C, W, B) /\ InPool(p) \subseteq InPool(z) /\ t \notin InPool(p)
        BY <1>3, <2>2, <2>3, <2>4, SoundConfirmed
      <2> HIDE DEF p
      <2>6. QED
        BY <2>1, <2>2, <2>5
    <1>13. trans \in T
      <2> HIDE DEF T
      <2>1. SUBSET trans \subseteq T
        BY <1>6, <1>9, <1>11, <1>12, SubsetsUp
      <2>2. QED
        BY <2>1
    <1>14. Sound(r, E, E, C, W, B) /\ InPool(r) \subseteq InPool(y) /\ trans \cap InPool(r) = {}
      BY <1>8, <1>13
    <1>15. Mined(q, C, W, b, E, r)
      BY <1>10, <1>14 DEF Mined, B
    <1>16. \A u \in InPool(r), t \in B : Issue[t] # None => Issue[u] # Issue[t]
      BY <1>5, <1>10, <1>14
    <1>17. QED
      BY <1>15, <1>16 DEF r, B

-----------------------------------------------------------------------------
(* Connecting a block.                                                     *)
LEMMA ToSetAppend ==
    ASSUME NEW S, NEW s \in Seq(S), NEW x \in S
    PROVE  /\ Append(s, x) \in Seq(S) /\ ToSet(Append(s, x)) = ToSet(s) \cup {x}
           /\ IsInjective(s) /\ x \notin ToSet(s) => IsInjective(Append(s, x))
    <1> DEFINE n == Len(s)
               a == Append(s, x)
    <1>1. /\ a \in Seq(S) /\ n \in Nat /\ DOMAIN s = 1..n /\ DOMAIN a = 1..(n + 1)
          /\ a[n + 1] = x /\ \A i \in 1..n : a[i] = s[i]
      OBVIOUS
    <1> HIDE DEF a, n
    <1>2. \A i \in 1..(n + 1) : i = n + 1 \/ i \in 1..n
      BY <1>1
    <1>3. n + 1 \in 1..(n + 1) /\ \A i \in 1..n : i \in 1..(n + 1)
      BY <1>1
    <1>4. ToSet(a) = ToSet(s) \cup {x}
      BY <1>1, <1>2, <1>3 DEF ToSet
    <1>5. IsInjective(s) /\ x \notin ToSet(s) => IsInjective(a)
      <2>1. SUFFICES ASSUME IsInjective(s), x \notin ToSet(s), NEW i \in 1..(n + 1), NEW j \in 1..(n + 1), a[i] = a[j]
                     PROVE  i = j
        BY <1>1 DEF IsInjective
      <2>2. \A m \in 1..n : s[m] # x
        BY <1>1, <2>1 DEF ToSet
      <2>3. QED
        BY <1>1, <1>2, <2>1, <2>2 DEF IsInjective
    <1>6. QED
      BY <1>1, <1>4, <1>5 DEF a

(* removeForBlock of the queue.                                            *)
LEMMA StillQueuedIs ==
    ASSUME NEW queue \in Seq(Tx), IsInjective(queue), NEW b
    PROVE  LET s == StillQueued(queue, b)
           IN  /\ s \in Seq(Tx) /\ IsInjective(s) /\ ToSet(s) = ToSet(queue) \ ToSet(b)
               /\ queue = <<>> => s = <<>>
    <1> DEFINE n == Len(queue)
               B == ToSet(b)
               k == <<"queue", b>>
               e == <<>>
               s == StillQueued(queue, b)
    <1>1. n \in Nat /\ DOMAIN queue = 1..n /\ (\A i \in 1..n : queue[i] \in Tx) /\ ToSet(queue) = {queue[i] : i \in 1..n}
      BY DEF ToSet
    <1>2. s = QueueFold(e, queue, b)
      BY DEF StillQueued, QueueFold
    <1>3. PICK h : Steps(h, n, k, queue, e) /\ h[n] = s
      <2> HIDE DEF n, k, e, s
      <2>1. \E h : Steps(h, n, <<"queue", b>>, queue, e) /\ h[n] = QueueFold(e, queue, b)
        BY <1>1, QueueTurns
      <2>2. QED
        BY <1>2, <2>1 DEF k
    <1>4. h[0] = e /\ \A i \in 1..n : h[i] = IF queue[i] \in B THEN h[i - 1] ELSE Append(h[i - 1], queue[i])
      <2>1. h[0] = e /\ \A i \in 1..n : h[i] = Turn(k, h[i - 1], queue[i])
        <3> HIDE DEF k, n, e
        <3>1. QED
          BY <1>3 DEF Steps
      <2> HIDE DEF e, n
      <2>2. QED
        BY <2>1 DEF Turn
    <1>5. e \in Seq(Tx) /\ ToSet(e) = {} /\ IsInjective(e)
      BY DEF ToSet, IsInjective
    <1> HIDE DEF n, k, e, s
    <1> DEFINE Fit(z, i) == z \in Seq(Tx) /\ IsInjective(z) /\ ToSet(z) = {queue[j] : j \in 1..i} \ B
               T == {i \in 0..n : Fit(h[i], i)}
    <1>6. 0 \in T
      BY <1>1, <1>4, <1>5
    <1>7. ASSUME NEW i \in 1..n, i - 1 \in T PROVE i \in T
      <2> DEFINE z == h[i - 1]
                 x == queue[i]
      <2>1. z \in Seq(Tx) /\ IsInjective(z) /\ ToSet(z) = {queue[j] : j \in 1..(i - 1)} \ B
        BY <1>7
      <2>2. h[i] = IF x \in B THEN z ELSE Append(z, x)
        BY <1>4
      <2>3. {queue[j] : j \in 1..i} = {queue[j] : j \in 1..(i - 1)} \cup {x}
        <3>1. \A j \in 1..i : j = i \/ j \in 1..(i - 1)
          BY <1>1
        <3>2. i \in 1..i /\ \A j \in 1..(i - 1) : j \in 1..i
          BY <1>1
        <3>3. QED
          BY <3>1, <3>2
      <2>4. x \in Tx /\ x \notin {queue[j] : j \in 1..(i - 1)}
        <3>1. \A j \in 1..(i - 1) : j \in 1..n /\ j # i
          BY <1>1
        <3>2. QED
          BY <1>1, <3>1 DEF IsInjective
      <2> HIDE DEF z, x
      <2>5. ASSUME x \in B PROVE Fit(h[i], i)
        <3>1. h[i] = z
          BY <2>2, <2>5
        <3>2. {queue[j] : j \in 1..i} \ B = {queue[j] : j \in 1..(i - 1)} \ B
          <4>1. \A Q1, Q2 : Q1 = Q2 \cup {x} => Q1 \ B = Q2 \ B
            BY <2>5
          <4>2. QED
            BY <2>3, <4>1
        <3>3. QED
          BY <2>1, <3>1, <3>2
      <2>6. ASSUME x \notin B PROVE Fit(h[i], i)
        <3>1. Append(z, x) \in Seq(Tx) /\ ToSet(Append(z, x)) = ToSet(z) \cup {x} /\ IsInjective(Append(z, x))
          BY <2>1, <2>4, ToSetAppend
        <3>2. h[i] = Append(z, x)
          BY <2>2, <2>6
        <3>3. ToSet(h[i]) = {queue[j] : j \in 1..i} \ B
          BY <2>1, <2>3, <2>6, <3>1, <3>2
        <3>4. QED
          BY <3>1, <3>2, <3>3
      <2>7. Fit(h[i], i)
        BY <2>5, <2>6
      <2>8. i \in 0..n
        BY <1>1
      <2> HIDE DEF Fit
      <2>9. QED
        BY <2>7, <2>8
    <1>8. n \in T
      <2> HIDE DEF T
      <2>1. 0..n \subseteq T
        BY <1>1, <1>6, <1>7, UpTo
      <2>2. QED
        BY <1>1, <2>1
    <1>9. s \in Seq(Tx) /\ IsInjective(s) /\ ToSet(s) = ToSet(queue) \ B
      BY <1>1, <1>3, <1>8
    <1>10. queue = <<>> => s = <<>>
      <2>1. queue = <<>> => n = 0
        BY DEF n
      <2>2. QED
        BY <1>3, <1>4, <2>1 DEF e
    <1>11. QED
      BY <1>9, <1>10 DEF s

(* What ConnectBlock finds of a block: its transactions are new, and so is *)
(* what they spend and issue; their inputs are there.                      *)
Fresh(C, b) ==
    \A i \in DOMAIN b :
       LET D == C \cup {b[j] : j \in 1..(i - 1)}
       IN  /\ b[i] \notin D /\ Sources(b[i]) \subseteq D \cup {Base}
           /\ \A t \in D : Spends(b[i]) \cap Spends(t) = {}

(* A block adds its transactions to the chain.                             *)
LEMMA ChainTxAppend ==
    ASSUME NEW S, NEW ch \in Seq(S), NEW s \in S
    PROVE  ChainTx(Append(ch, s)) = ChainTx(ch) \cup ToSet(s)
    <1> DEFINE n == Len(ch)
               a == Append(ch, s)
    <1>1. /\ n \in Nat /\ DOMAIN ch = 1..n /\ DOMAIN a = 1..(n + 1)
          /\ a[n + 1] = s /\ \A i \in 1..n : a[i] = ch[i]
      OBVIOUS
    <1> HIDE DEF a, n
    <1>2. \A i \in 1..(n + 1) : i = n + 1 \/ i \in 1..n
      BY <1>1
    <1>3. n + 1 \in 1..(n + 1) /\ \A i \in 1..n : i \in 1..(n + 1)
      BY <1>1
    <1>4. ChainTx(a) = ChainTx(ch) \cup ToSet(s)
      BY <1>1, <1>2, <1>3 DEF ChainTx
    <1>5. QED
      BY <1>4 DEF a

(* ConnectBlock accepts only what is fresh.                                *)
LEMMA FreshIs ==
    ASSUME NEW p, NEW ch \in Seq(Block), NEW b \in Block, ConnectBlock(p, ch, b)
    PROVE  Fresh(ChainTx(ch), b)
    <1>1. b \in Seq(Tx) /\ ch \in Seq(Seq(Tx))
      BY TxAssumption
    <1>2. SUFFICES ASSUME NEW i \in DOMAIN b
                   PROVE  LET D == ChainTx(ch) \cup {b[j] : j \in 1..(i - 1)}
                          IN  /\ b[i] \notin D /\ Sources(b[i]) \subseteq D \cup {Base}
                              /\ \A t \in D : Spends(b[i]) \cap Spends(t) = {}
      BY DEF Fresh
    <1> DEFINE D == ChainTx(ch) \cup {b[j] : j \in 1..(i - 1)}
               s == SubSeq(b, 1, i - 1)
    <1>3. s \in Seq(Tx) /\ ToSet(s) = {b[j] : j \in 1..(i - 1)}
      <2>1. i \in 1..Len(b) /\ Len(b) \in Nat
        BY <1>1
      <2>2. s \in Seq(Tx) /\ Len(s) = i - 1 /\ DOMAIN s = 1..(i - 1) /\ \A j \in 1..(i - 1) : s[j] = b[j]
        BY <1>1, <2>1
      <2> HIDE DEF s
      <2>3. QED
        BY <2>2 DEF ToSet
    <1> HIDE DEF s
    <1>4. ChainTx(Append(ch, s)) = D
      BY <1>1, <1>3, ChainTxAppend
    <1>5. b[i] \notin ChainTx(Append(ch, s)) /\ \A o \in ToSet(vin[b[i]]) : HaveCoin(Append(ch, s), o)
      BY DEF ConnectBlock, s
    <1> HIDE DEF D
    <1>6. \A o \in Spends(b[i]) : o[1] \in D \cup {Base} /\ \A t \in D : o \notin Spends(t)
      BY <1>4, <1>5 DEF HaveCoin, Spends
    <1>7. Sources(b[i]) \subseteq D \cup {Base} /\ \A t \in D : Spends(b[i]) \cap Spends(t) = {}
      BY <1>6 DEF Sources, Spends
    <1>8. QED
      BY <1>4, <1>5, <1>7 DEF D

Appended(C, b, B) ==
    /\ B \subseteq Tx /\ B \cap C = {} /\ IsInjective(b) /\ Apart(C \cup B, C \cup B)
    /\ \A i \in DOMAIN b : Sources(b[i]) \subseteq C \cup {Base} \cup {b[j] : j \in 1..(i - 1)}

(* What is new conflicts with nothing.                                     *)
LEMMA FreshApart ==
    ASSUME NEW C, NEW b \in Seq(Tx), Fresh(C, b), Apart(C, C), Base \notin Tx, C \subseteq Tx
    PROVE  Appended(C, b, ToSet(b))
    <1> DEFINE B == ToSet(b)
               n == Len(b)
    <1>1. n \in Nat /\ DOMAIN b = 1..n /\ B = {b[i] : i \in 1..n} /\ \A i \in 1..n : b[i] \in Tx
      BY DEF ToSet
    <1> HIDE DEF B, n
    <1>2. \A i \in 1..n : /\ b[i] \notin C /\ \A j \in 1..(i - 1) : b[i] # b[j]
                          /\ Sources(b[i]) \subseteq C \cup {Base} \cup {b[j] : j \in 1..(i - 1)}
                          /\ \A t \in C : Spends(b[i]) \cap Spends(t) = {}
                          /\ \A j \in 1..(i - 1) : Spends(b[i]) \cap Spends(b[j]) = {}
      BY <1>1 DEF Fresh
    <1>3. \A i, j \in 1..n : i = j \/ i \in 1..(j - 1) \/ j \in 1..(i - 1)
      BY <1>1
    <1>4. IsInjective(b)
      BY <1>1, <1>2, <1>3 DEF IsInjective
    <1>5. ASSUME NEW t \in B, NEW u \in B, t # u PROVE Spends(t) \cap Spends(u) = {}
      <2>1. PICK i \in 1..n, j \in 1..n : t = b[i] /\ u = b[j]
        BY <1>1
      <2>2. i # j
        BY <1>5, <2>1
      <2>3. i \in 1..(j - 1) \/ j \in 1..(i - 1)
        BY <1>3, <2>2
      <2>4. Spends(b[i]) \cap Spends(b[j]) = {} \/ Spends(b[j]) \cap Spends(b[i]) = {}
        BY <1>2, <2>3
      <2>5. QED
        BY <2>1, <2>4
    <1>6. \A t \in B, u \in C : Spends(t) \cap Spends(u) = {}
      BY <1>1, <1>2
    <1>7. Apart(C \cup B, C \cup B)
      <2>1. SUFFICES ASSUME NEW t \in C \cup B, NEW u \in C \cup B, t # u PROVE Spends(t) \cap Spends(u) = {}
        BY DEF Apart
      <2>2. CASE t \in C /\ u \in C
        BY <2>1, <2>2 DEF Apart
      <2>3. CASE t \in B /\ u \in B
        BY <1>5, <2>1, <2>3
      <2>4. CASE t \in B /\ u \in C
        BY <1>6, <2>4
      <2>5. CASE t \in C /\ u \in B
        BY <1>6, <2>5
      <2>6. QED
        BY <2>2, <2>3, <2>4, <2>5
    <1>8. QED
      BY <1>1, <1>2, <1>4, <1>7 DEF B, Appended

(* The chain with one more block.                                          *)
LEMMA ChainGrows ==
    ASSUME ChainSound, NEW b \in Block, Fresh(ChainTx(chain), b), chain' = Append(chain, b)
    PROVE  /\ ChainSound' /\ ChainTx(chain') = ChainTx(chain) \cup ToSet(b)
           /\ ToSet(b) \subseteq Tx /\ ToSet(b) \cap ChainTx(chain) = {} /\ b \in Seq(Tx)
           /\ \A i \in DOMAIN b : Sources(b[i]) \subseteq ChainTx(chain) \cup {Base} \cup {b[j] : j \in 1..(i - 1)}
    <1> DEFINE C == ChainTx(chain)
               B == ToSet(b)
               n == Len(chain)
    <1>1. b \in Seq(Tx) /\ Base \notin Tx /\ chain \in Seq(Block) /\ C \subseteq Tx /\ Apart(C, C)
      BY TxAssumption, ChainRooted DEF ChainSound
    <1>2. /\ B \subseteq Tx /\ B \cap C = {} /\ IsInjective(b) /\ Apart(C \cup B, C \cup B)
          /\ \A i \in DOMAIN b : Sources(b[i]) \subseteq C \cup {Base} \cup {b[j] : j \in 1..(i - 1)}
      <2>1. Appended(C, b, B)
        <3> HIDE DEF C
        <3>1. Fresh(C, b)
          BY DEF C
        <3>2. QED
          BY <1>1, <3>1, FreshApart
      <2>2. QED
        BY <2>1 DEF Appended
    <1>3. ChainTx(chain') = C \cup B
      BY <1>1, ChainTxAppend
    <1>4. /\ n \in Nat /\ DOMAIN chain = 1..n /\ chain' \in Seq(Block) /\ DOMAIN chain' = 1..(n + 1)
          /\ chain'[n + 1] = b /\ \A i \in 1..n : chain'[i] = chain[i]
      BY <1>1
    <1> HIDE DEF n
    <1>5. \A i \in 1..(n + 1) : i = n + 1 \/ i \in 1..n
      BY <1>4
    <1>6. \A i \in 1..n : ToSet(chain[i]) \subseteq C
      BY <1>4 DEF ChainTx
    <1>7. \A i, j \in DOMAIN chain' : i # j => ToSet(chain'[i]) \cap ToSet(chain'[j]) = {}
      <2>1. \A i, j \in 1..n : i # j => ToSet(chain[i]) \cap ToSet(chain[j]) = {}
        BY <1>4 DEF ChainSound
      <2>2. SUFFICES ASSUME NEW i \in 1..(n + 1), NEW j \in 1..(n + 1), i # j
                     PROVE  ToSet(chain'[i]) \cap ToSet(chain'[j]) = {}
        BY <1>4
      <2>3. CASE i \in 1..n /\ j \in 1..n
        BY <1>4, <2>1, <2>2, <2>3
      <2>4. CASE i \in 1..n /\ j = n + 1
        BY <1>2, <1>4, <1>6, <2>4
      <2>5. CASE i = n + 1 /\ j \in 1..n
        BY <1>2, <1>4, <1>6, <2>5
      <2>6. QED
        BY <1>5, <2>2, <2>3, <2>4, <2>5
    <1>8. \A i \in DOMAIN chain' : IsInjective(chain'[i])
      <2>1. \A i \in 1..n : IsInjective(chain[i])
        BY <1>4 DEF ChainSound
      <2>2. QED
        BY <1>2, <1>4, <1>5, <2>1
    <1>9. \A i \in DOMAIN chain' : \A t \in ToSet(chain'[i]) : \A s \in Sources(t) \ {Base} :
              \E j \in 1..i : s \in ToSet(chain'[j])
      <2>1. SUFFICES ASSUME NEW i \in 1..(n + 1), NEW t \in ToSet(chain'[i]), NEW s \in Sources(t) \ {Base}
                     PROVE  \E j \in 1..i : s \in ToSet(chain'[j])
        BY <1>4
      <2>2. CASE i \in 1..n
        <3>1. PICK j \in 1..i : s \in ToSet(chain[j])
          BY <1>4, <2>1, <2>2 DEF ChainSound
        <3>2. j \in 1..n
          BY <1>4, <2>2
        <3>3. QED
          BY <1>4, <3>1, <3>2
      <2>3. CASE i = n + 1
        <3>1. t \in B
          BY <1>4, <2>3
        <3>2. PICK m \in DOMAIN b : t = b[m]
          BY <3>1 DEF ToSet
        <3>3. s \in C \/ \E j \in 1..(m - 1) : s = b[j]
          BY <1>2, <3>2
        <3>4. CASE s \in C
          <4>1. PICK j \in 1..n : s \in ToSet(chain[j])
            BY <1>4, <3>4 DEF ChainTx
          <4>2. j \in 1..i
            BY <1>4, <2>3
          <4>3. QED
            BY <1>4, <4>1, <4>2
        <3>5. CASE \E j \in 1..(m - 1) : s = b[j]
          <4>1. PICK j \in 1..(m - 1) : s = b[j]
            BY <3>5
          <4>2. j \in DOMAIN b
            BY <1>1
          <4>3. s \in B
            BY <4>1, <4>2 DEF ToSet
          <4>4. n + 1 \in 1..i
            BY <1>4, <2>3
          <4>5. QED
            BY <1>4, <4>3, <4>4
        <3>6. QED
          BY <3>3, <3>4, <3>5
      <2>4. QED
        BY <1>5, <2>2, <2>3
    <1>10. Apart(ChainTx(chain'), ChainTx(chain'))
      BY <1>2, <1>3
    <1>11. ChainSound'
      BY <1>4, <1>7, <1>8, <1>9, <1>10 DEF ChainSound
    <1>12. QED
      BY <1>1, <1>2, <1>3, <1>11

(* A pool that a block leaves is sound for the chain with the block.       *)
Unclaimed(r, b) == \A u \in InPool(r), t \in ToSet(b) : Issue[t] # None => Issue[u] # Issue[t]

(* The pool is sound for the longer chain.                                 *)
LEMMA SoundMined ==
    ASSUME NEW q, NEW r, NEW b, NEW C, NEW Q, NEW E, E = {}, Mined(q, C, Q \cup ToSet(b), b, E, r), Unclaimed(r, b),
           Rooted(C), ToSet(b) \cap C = {}, ToSet(b) \subseteq Tx
    PROVE  Sound(r, E, E, C \cup ToSet(b), Q \ ToSet(b), E)
    <1> DEFINE B == ToSet(b)
               W == Q \cup B
    <1>1. /\ Sound(r, E, E, C, W, B) /\ InPool(r) \cap B = {}
          /\ \A t \in B : \A u \in InPool(r) : Spends(u) \cap Spends(t) = {}
      BY DEF Mined
    <1>2. \A u \in InPool(r), t \in B : Issue[t] # None => Issue[u] # Issue[t]
      BY DEF Unclaimed
    <1>3. Rooted(C) /\ B \cap C = {} /\ B \subseteq Tx /\ Base \notin Tx
      BY TxAssumption
    <1> HIDE DEF B
    <1>4. Supplied(r, C \cup B, Q \ B)
      <2>1. SUFFICES ASSUME NEW u \in InPool(r), NEW o \in Spends(u), o[1] \notin InPool(r) \cup (Q \ B)
                     PROVE  Coin(C \cup B, o)
        BY DEF Supplied
      <2>2. o[1] \in B \/ Coin(C, o)
        BY <1>1, <2>1 DEF Sound, Supplied
      <2>3. \A t \in B : o \notin Spends(t)
        BY <1>1
      <2>4. CASE o[1] \in B
        <3>1. ASSUME NEW t \in C, o \in Spends(t) PROVE FALSE
          <4>1. o[1] \in Sources(t)
            BY <3>1 DEF Sources, Spends
          <4>2. o[1] \in C \cup {Base}
            BY <1>3, <4>1 DEF Rooted
          <4>3. QED
            BY <1>3, <2>4, <4>2
        <3>2. QED
          BY <2>3, <2>4, <3>1 DEF Coin
      <2>5. CASE Coin(C, o)
        BY <2>3, <2>5 DEF Coin
      <2>6. QED
        BY <2>2, <2>4, <2>5
    <1>5. Claimed(r, E)
      <2>1. InPool(r) \ B = InPool(r) \ E
        BY <1>1
      <2>2. QED
        BY <1>1, <2>1 DEF Sound, Claimed
    <1>6. Free(r, C \cup B)
      BY <1>1, <1>2 DEF Sound, Free, Names
    <1>7. InPool(r) \cap (C \cup B) = {}
      BY <1>1 DEF Sound
    <1>8. QED
      BY <1>1, <1>4, <1>5, <1>6, <1>7 DEF Sound, B

(* It may wait for more than it needs.                                     *)
LEMMA SoundMore ==
    ASSUME NEW q, NEW H, NEW M, NEW C, NEW W, NEW X, Sound(q, H, M, C, W, X), NEW W2, W \subseteq W2
    PROVE  Sound(q, H, M, C, W2, X)
    <1>1. Supplied(q, C, W2)
      BY DEF Sound, Supplied
    <1>2. QED
      BY <1>1 DEF Sound

(* ConnectBlock has released the locks of the block's reissues.            *)
Released(q, B) == [q EXCEPT !.mapReissuedAssets = RestrictValues(@, LAMBDA t : t \notin B)]

(* ConnectTip releases the locks of the block's reissues.                  *)
LEMMA SoundReleased ==
    ASSUME NEW q, NEW H, NEW M, NEW C, NEW W, NEW X, X = {}, Sound(q, H, M, C, W, X), NEW B
    PROVE  LET p == Released(q, B)
           IN  Sound(p, H, M, C, W, B) /\ InPool(p) = InPool(q)
    <1> DEFINE re == RestrictValues(q.mapReissuedAssets, LAMBDA t : t \notin B)
               p == Released(q, B)
    <1>1. /\ re = [n \in {n \in DOMAIN q.mapReissuedAssets : q.mapReissuedAssets[n] \notin B} |-> q.mapReissuedAssets[n]]
      BY DEF RestrictValues, RestrictDomain, Restrict
    <1>2. WellFormed(q) /\ q = [mapTx |-> q.mapTx, mapLinks |-> q.mapLinks, mapNextTx |-> q.mapNextTx,
            mapDeltas |-> q.mapDeltas, mapAssetToHash |-> q.mapAssetToHash,
            mapReissuedAssets |-> q.mapReissuedAssets]
      BY DEF Sound, WellFormed
    <1>3. p = [q EXCEPT !.mapReissuedAssets = re]
      BY DEF Released
    <1> HIDE DEF re, p
    <1>4. p = [mapTx |-> q.mapTx, mapLinks |-> q.mapLinks, mapNextTx |-> q.mapNextTx,
            mapDeltas |-> q.mapDeltas, mapAssetToHash |-> q.mapAssetToHash,
            mapReissuedAssets |-> re]
      BY <1>2, <1>3
    <1>5. /\ p.mapTx = q.mapTx /\ p.mapLinks = q.mapLinks /\ p.mapNextTx = q.mapNextTx
          /\ p.mapDeltas = q.mapDeltas /\ p.mapAssetToHash = q.mapAssetToHash /\ p.mapReissuedAssets = re
      BY <1>4
    <1>6. InPool(p) = InPool(q) /\ Parents(p) = Parents(q) /\ Children(p) = Children(q)
      BY <1>5 DEF InPool, Parents, Children
    <1>7. WellFormed(p)
      <2>1. IsMap(re)
        BY <1>1 DEF IsMap
      <2>2. p = [mapTx |-> p.mapTx, mapLinks |-> p.mapLinks, mapNextTx |-> p.mapNextTx,
            mapDeltas |-> p.mapDeltas, mapAssetToHash |-> p.mapAssetToHash,
            mapReissuedAssets |-> p.mapReissuedAssets]
        BY <1>4, <1>5
      <2>3. QED
        BY <1>2, <1>5, <1>6, <2>1, <2>2 DEF WellFormed
    <1>8. Remapped(q, p)
      <2>1. \A t : Delta(p, t) = Delta(q, t)
        BY <1>5 DEF Delta
      <2>2. QED
        BY <1>5, <2>1 DEF Remapped
    <1>9. Claimed(p, B)
      <2>1. \A n \in DOMAIN q.mapReissuedAssets : q.mapReissuedAssets[n] \notin B =>
               n \in DOMAIN re /\ re[n] = q.mapReissuedAssets[n]
        BY <1>1
      <2>2. Claimed(q, X)
        BY DEF Sound
      <2>3. \A t \in InPool(p) \ B : Reissue[t] # None =>
               Reissue[t] \in DOMAIN p.mapReissuedAssets /\ p.mapReissuedAssets[Reissue[t]] = t
        BY <1>5, <1>6, <2>1, <2>2 DEF Claimed
      <2>4. QED
        BY <1>5, <1>6, <2>2, <2>3 DEF Claimed
    <1>10. QED
      BY <1>6, <1>7, <1>8, <1>9, RemappedSound DEF p

(* Connecting a block keeps the invariant, if rival issues have no         *)
(* children.                                                               *)
LEMMA StepConnect ==
    ASSUME Unrivalled, IInv, NEW b \in Block, ConnectTip(b)
    PROVE  IInv'
    <1> DEFINE C == ChainTx(chain)
               B == ToSet(b)
               E == {}
               q == Released(pool, B)
               r == removeForBlock(q, b)
    <1>1. /\ phase \in {"idle", "disconnect", "connect"} /\ ConnectBlock(pool, chain, b)
          /\ chain' = Append(chain, b) /\ pool' = r /\ disconnectpool' = StillQueued(disconnectpool, b)
          /\ phase' = (IF phase = "idle" THEN "idle" ELSE "connect")
          /\ vHashUpdate' = vHashUpdate /\ file' = file
      BY DEF ConnectTip, Released
    <1>2. /\ ChainSound /\ QueueSound /\ AgainSound /\ PoolSound /\ FileSound
          /\ vHashUpdate = <<>> /\ Again = {} /\ Again' = {} /\ vHashUpdate' = <<>>
      <2>1. ChainSound /\ QueueSound /\ AgainSound /\ PoolSound /\ FileSound
        BY DEF IInv
      <2>2. vHashUpdate = <<>>
        BY <1>1, <2>1 DEF AgainSound
      <2>3. QED
        BY <1>1, <2>1, <2>2 DEF Again, ToSet
    <1>3. Fresh(C, b)
      <2>1. chain \in Seq(Block)
        BY <1>2 DEF ChainSound
      <2>2. QED
        BY <1>1, <2>1, FreshIs
    <1>4. /\ ChainSound' /\ ChainTx(chain') = C \cup B /\ B \subseteq Tx /\ B \cap C = {} /\ b \in Seq(Tx)
          /\ \A i \in DOMAIN b : Sources(b[i]) \subseteq C \cup {Base} \cup {b[j] : j \in 1..(i - 1)}
      BY <1>1, <1>2, <1>3, ChainGrows
    <1>5. disconnectpool' \in Seq(Tx) /\ IsInjective(disconnectpool') /\ Queued' = Queued \ B
          /\ (disconnectpool = <<>> => disconnectpool' = <<>>)
      <2>1. disconnectpool \in Seq(Tx) /\ IsInjective(disconnectpool)
        BY <1>2 DEF QueueSound
      <2>2. QED
        BY <1>1, <2>1, StillQueuedIs DEF Queued
    <1> HIDE DEF r, C
    <1>6. Sound(q, E, E, C, Queued \cup B, B) /\ InPool(q) = InPool(pool)
      <2>1. E = {} /\ Sound(pool, E, E, C, Queued, E)
        BY <1>2 DEF PoolSound, C
      <2> HIDE DEF E, B
      <2>2. Sound(q, E, E, C, Queued, B) /\ InPool(q) = InPool(pool)
        BY <2>1, SoundReleased
      <2> HIDE DEF q
      <2>3. QED
        BY <2>2, SoundMore
    <1> HIDE DEF q
    <1>7. Minable(q, C, Queued \cup B, b, E)
      BY <1>4, <1>6 DEF Minable
    <1>8. Mined(q, C, Queued \cup B, b, E, r) /\ Unclaimed(r, b)
      <2> HIDE DEF E, B
      <2>1. QED
        BY <1>7, SoundForBlock DEF r, Unclaimed
    <1>9. Sound(r, E, E, C \cup B, Queued \ B, E) /\ InPool(r) \subseteq InPool(pool) /\ InPool(r) \cap B = {}
      <2>1. Rooted(C) /\ E = {}
        BY <1>2, ChainRooted DEF C
      <2>2. Mined(q, C, Queued \cup ToSet(b), b, E, r)
        BY <1>8
      <2>3. Sound(r, E, E, C \cup B, Queued \ B, E)
        <3> HIDE DEF E
        <3>1. QED
          BY <1>4, <1>8, <2>1, <2>2, SoundMined
      <2>4. InPool(r) \subseteq InPool(pool) /\ InPool(r) \cap B = {}
        BY <1>6, <1>8 DEF Mined
      <2>5. QED
        BY <2>3, <2>4
    <1>10. QueueSound'
      <2>1. Queued' \cap (ChainTx(chain') \cup InPool(pool')) = {}
        BY <1>1, <1>2, <1>4, <1>5, <1>9 DEF QueueSound, C
      <2>2. Apart(Queued', Queued' \cup InPool(pool'))
        BY <1>1, <1>2, <1>5, <1>9 DEF QueueSound, Apart
      <2>3. \A t \in Queued' : Sources(t) \cap InPool(pool') \subseteq Again'
        BY <1>1, <1>2, <1>5, <1>9 DEF QueueSound
      <2>4. phase' # "disconnect" /\ (phase' = "idle" => disconnectpool' = <<>>)
        BY <1>1, <1>2, <1>5 DEF QueueSound
      <2>5. QED
        BY <1>5, <2>1, <2>2, <2>3, <2>4 DEF QueueSound
    <1>11. AgainSound'
      <2>1. <<>> \in Seq(Tx) /\ DOMAIN <<>> = {}
        OBVIOUS
      <2>2. QED
        BY <1>2, <2>1 DEF AgainSound, IsInjective
    <1>12. PoolSound'
      <2>1. Sound(pool', Again', Again', ChainTx(chain'), Queued', {})
        BY <1>1, <1>2, <1>4, <1>5, <1>9
      <2>2. phase' = "idle" => \A t \in InPool(pool') : LockHeight[t] <= Len(chain') + 1
        <3>1. Len(chain') = Len(chain) + 1 /\ Len(chain) \in Nat
          BY <1>1, <1>2 DEF ChainSound
        <3>2. InPool(pool) \subseteq Tx /\ InPool(pool') \subseteq InPool(pool)
          BY <1>1, <1>2, <1>9 DEF PoolSound, Sound, WellFormed
        <3>3. phase' = "idle" => \A t \in InPool(pool) : LockHeight[t] <= Len(chain) + 1
          BY <1>1, <1>2 DEF PoolSound
        <3>4. \A t \in Tx : LockHeight[t] \in Nat
          BY TxAssumption
        <3>5. QED
          BY <3>1, <3>2, <3>3, <3>4
      <2>3. QED
        BY <2>1, <2>2 DEF PoolSound
    <1>13. FileSound'
      BY <1>1, <1>2 DEF FileSound
    <1>14. phase' \in {"idle", "disconnect", "connect", "update"}
      BY <1>1
    <1>15. QED
      BY <1>4, <1>10, <1>11, <1>12, <1>13, <1>14 DEF IInv

-----------------------------------------------------------------------------
(* Disconnecting a block.  Sequences without repetition.                   *)
LEMMA ReverseIs ==
    ASSUME NEW S, NEW s \in Seq(S), IsInjective(s)
    PROVE  Reverse(s) \in Seq(S) /\ IsInjective(Reverse(s)) /\ ToSet(Reverse(s)) = ToSet(s)
    <1> DEFINE n == Len(s)
               r == Reverse(s)
    <1>1. n \in Nat /\ DOMAIN s = 1..n /\ \A i \in 1..n : s[i] \in S
      OBVIOUS
    <1>2. r = [i \in 1..n |-> s[(n - i) + 1]]
      BY DEF Reverse
    <1> HIDE DEF n, r
    <1>3. \A i \in 1..n : (n - i) + 1 \in 1..n /\ (n - ((n - i) + 1)) + 1 = i
      BY <1>1
    <1>4. DOMAIN r = 1..n /\ \A i \in 1..n : r[i] = s[(n - i) + 1] /\ r[(n - i) + 1] = s[i]
      BY <1>2, <1>3
    <1>5. r \in Seq(S)
      <2>1. r \in [1..n -> S]
        BY <1>1, <1>2, <1>3
      <2>2. QED
        BY <1>1, <2>1
    <1>6. IsInjective(r)
      <2>1. SUFFICES ASSUME NEW i \in 1..n, NEW j \in 1..n, r[i] = r[j] PROVE i = j
        BY <1>4 DEF IsInjective
      <2>2. (n - i) + 1 = (n - j) + 1
        BY <1>1, <1>3, <1>4, <2>1 DEF IsInjective
      <2>3. QED
        BY <1>1, <2>2
    <1>7. ToSet(r) = ToSet(s)
      BY <1>1, <1>3, <1>4 DEF ToSet
    <1>8. QED
      BY <1>5, <1>6, <1>7 DEF r

(* Two queues without a common element.                                    *)
LEMMA ConcatIs ==
    ASSUME NEW S, NEW s \in Seq(S), NEW t \in Seq(S), IsInjective(s), IsInjective(t), ToSet(s) \cap ToSet(t) = {}
    PROVE  s \o t \in Seq(S) /\ IsInjective(s \o t) /\ ToSet(s \o t) = ToSet(s) \cup ToSet(t)
    <1> DEFINE m == Len(s)
               n == Len(t)
               c == s \o t
    <1>1. /\ m \in Nat /\ n \in Nat /\ DOMAIN s = 1..m /\ DOMAIN t = 1..n /\ DOMAIN c = 1..(m + n) /\ c \in Seq(S)
          /\ \A i \in 1..(m + n) : c[i] = IF i <= m THEN s[i] ELSE t[i - m]
      OBVIOUS
    <1> HIDE DEF m, n, c
    <1>2. \A i \in 1..(m + n) : IF i <= m THEN i \in 1..m ELSE i - m \in 1..n
      BY <1>1
    <1>3. \A i \in 1..m : i \in 1..(m + n) /\ c[i] = s[i]
      BY <1>1
    <1>4. \A i \in 1..n : i + m \in 1..(m + n) /\ c[i + m] = t[i]
      BY <1>1
    <1>5. ToSet(c) = ToSet(s) \cup ToSet(t)
      <2>1. ASSUME NEW x \in ToSet(c) PROVE x \in ToSet(s) \cup ToSet(t)
        <3>1. PICK i \in 1..(m + n) : x = c[i]
          BY <1>1 DEF ToSet
        <3>2. \/ x = s[i] /\ i \in 1..m
              \/ x = t[i - m] /\ i - m \in 1..n
          BY <1>1, <1>2, <3>1
        <3>3. QED
          BY <1>1, <3>2 DEF ToSet
      <2>2. ASSUME NEW x \in ToSet(s) PROVE x \in ToSet(c)
        BY <1>1, <1>3, <2>2 DEF ToSet
      <2>3. ASSUME NEW x \in ToSet(t) PROVE x \in ToSet(c)
        BY <1>1, <1>4, <2>3 DEF ToSet
      <2>4. QED
        BY <2>1, <2>2, <2>3
    <1>6. \A i \in 1..m, j \in 1..n : s[i] # t[j]
      BY <1>1 DEF ToSet
    <1>7. IsInjective(c)
      <2>1. SUFFICES ASSUME NEW i \in 1..(m + n), NEW j \in 1..(m + n), c[i] = c[j] PROVE i = j
        BY <1>1 DEF IsInjective
      <2>2. CASE i <= m /\ j <= m
        BY <1>1, <1>2, <2>1, <2>2 DEF IsInjective
      <2>3. CASE ~(i <= m) /\ ~(j <= m)
        <3>1. t[i - m] = t[j - m] /\ i - m \in 1..n /\ j - m \in 1..n
          BY <1>1, <1>2, <2>1, <2>3
        <3>2. i - m = j - m
          BY <1>1, <3>1 DEF IsInjective
        <3>3. QED
          BY <1>1, <3>2
      <2>4. CASE i <= m /\ ~(j <= m)
        BY <1>1, <1>2, <1>6, <2>1, <2>4
      <2>5. CASE ~(i <= m) /\ j <= m
        BY <1>1, <1>2, <1>6, <2>1, <2>5
      <2>6. QED
        BY <2>2, <2>3, <2>4, <2>5
    <1>8. QED
      BY <1>1, <1>5, <1>7 DEF c

(* What is left of a queue when its head is cut off.                       *)
LEMMA CutIs ==
    ASSUME NEW S, NEW s \in Seq(S), IsInjective(s), NEW m \in 0..Len(s)
    PROVE  /\ SubSeq(s, m + 1, Len(s)) \in Seq(S) /\ IsInjective(SubSeq(s, m + 1, Len(s)))
           /\ ToSet(SubSeq(s, m + 1, Len(s))) = ToSet(s) \ {s[i] : i \in 1..m}
           /\ DOMAIN SubSeq(s, 1, m) = 1..m /\ \A i \in 1..m : SubSeq(s, 1, m)[i] = s[i] /\ s[i] \in ToSet(s)
    <1> DEFINE n == Len(s)
               c == SubSeq(s, m + 1, n)
               d == SubSeq(s, 1, m)
    <1>1. n \in Nat /\ m \in Nat /\ m <= n /\ DOMAIN s = 1..n
      OBVIOUS
    <1>2. c \in Seq(S) /\ DOMAIN c = 1..(n - m) /\ \A i \in 1..(n - m) : c[i] = s[i + m]
      <2>1. \A i \in (m + 1)..n : i \in 1..n
        BY <1>1
      <2>2. c \in Seq(S)
        BY <1>1
      <2>3. Len(c) = n - m
        <3>1. s \in Seq(S) /\ n = Len(s) /\ m + 1 \in Nat
          BY <1>1
        <3> HIDE DEF n
        <3>2. Len(SubSeq(s, m + 1, n)) = IF m + 1 <= n THEN n - (m + 1) + 1 ELSE 0
          BY <1>1, <3>1
        <3>3. QED
          BY <1>1, <3>2
      <2>4. \A i \in 1..(n - m) : c[i] = s[i + m]
        BY <1>1
      <2>5. QED
        BY <2>2, <2>3, <2>4
    <1>3. DOMAIN d = 1..m /\ \A i \in 1..m : d[i] = s[i]
      BY <1>1
    <1> HIDE DEF n, c, d
    <1>4. \A i \in 1..(n - m) : i + m \in 1..n /\ i + m \notin 1..m
      BY <1>1
    <1>5. \A i \in 1..n : i \notin 1..m => i - m \in 1..(n - m) /\ (i - m) + m = i
      BY <1>1
    <1>6. \A i \in 1..m : i \in 1..n
      BY <1>1
    <1>7. ToSet(c) = ToSet(s) \ {s[i] : i \in 1..m}
      <2>1. ASSUME NEW x \in ToSet(c) PROVE x \in ToSet(s) /\ \A i \in 1..m : s[i] # x
        <3>1. PICK j \in 1..(n - m) : x = s[j + m]
          BY <1>2 DEF ToSet
        <3>2. j + m \in 1..n /\ j + m \notin 1..m
          BY <1>4
        <3>3. \A i \in 1..m : s[i] # s[j + m]
          BY <1>1, <1>6, <3>2 DEF IsInjective
        <3>4. QED
          BY <1>1, <3>1, <3>2, <3>3 DEF ToSet
      <2>2. ASSUME NEW x \in ToSet(s), \A i \in 1..m : s[i] # x PROVE x \in ToSet(c)
        <3>1. PICK j \in 1..n : x = s[j]
          BY <1>1 DEF ToSet
        <3>2. j - m \in 1..(n - m) /\ (j - m) + m = j
          BY <1>5, <2>2, <3>1
        <3>3. c[j - m] = x
          BY <1>2, <3>1, <3>2
        <3>4. QED
          BY <1>2, <3>2, <3>3 DEF ToSet
      <2>3. QED
        BY <2>1, <2>2
    <1>8. IsInjective(c)
      <2>1. SUFFICES ASSUME NEW i \in 1..(n - m), NEW j \in 1..(n - m), c[i] = c[j] PROVE i = j
        BY <1>2 DEF IsInjective
      <2>2. i + m = j + m
        BY <1>1, <1>2, <1>4, <2>1 DEF IsInjective
      <2>3. QED
        BY <1>1, <2>2
    <1>9. \A i \in 1..m : s[i] \in ToSet(s)
      BY <1>1, <1>6 DEF ToSet
    <1>10. QED
      BY <1>2, <1>3, <1>7, <1>8, <1>9 DEF n, c, d

(* The chain without its last block.                                       *)
LEMMA ChainShrinks ==
    ASSUME ChainSound, chain # <<>>, chain' = Front(chain)
    PROVE  LET b == Last(chain)
           IN  /\ ChainSound' /\ ChainTx(chain) = ChainTx(chain') \cup ToSet(b)
               /\ ChainTx(chain') \cap ToSet(b) = {} /\ b \in Block /\ IsInjective(b)
    <1> DEFINE n == Len(chain)
               b == Last(chain)
    <1>1. /\ n \in Nat /\ n >= 1 /\ DOMAIN chain = 1..n /\ b = chain[n] /\ b \in Block
          /\ chain' \in Seq(Block) /\ DOMAIN chain' = 1..(n - 1) /\ \A i \in 1..(n - 1) : chain'[i] = chain[i]
      <2>1. chain \in Seq(Block)
        BY DEF ChainSound
      <2>2. n \in Nat /\ n >= 1 /\ DOMAIN chain = 1..n /\ b = chain[n]
        BY <2>1 DEF Last
      <2>3. chain' = SubSeq(chain, 1, n - 1)
        BY DEF Front
      <2>4. Len(chain') = n - 1 /\ chain' \in Seq(Block) /\ \A i \in 1..(n - 1) : chain'[i] = chain[i]
        BY <2>1, <2>2, <2>3
      <2> HIDE DEF n, b
      <2>5. n \in 1..n /\ DOMAIN chain' = 1..(n - 1)
        BY <2>2, <2>4
      <2>6. QED
        BY <2>1, <2>2, <2>4, <2>5
    <1> HIDE DEF n, b
    <1>2. \A i \in 1..n : i = n \/ i \in 1..(n - 1)
      BY <1>1
    <1>3. n \in 1..n /\ \A i \in 1..(n - 1) : i \in 1..n /\ i # n
      BY <1>1
    <1>4. ChainTx(chain) = ChainTx(chain') \cup ToSet(b)
      BY <1>1, <1>2, <1>3 DEF ChainTx
    <1>5. \A i, j \in 1..n : i # j => ToSet(chain[i]) \cap ToSet(chain[j]) = {}
      BY <1>1 DEF ChainSound
    <1>6. ChainTx(chain') \cap ToSet(b) = {}
      BY <1>1, <1>3, <1>5 DEF ChainTx
    <1>7. IsInjective(b) /\ \A i \in DOMAIN chain' : IsInjective(chain'[i])
      BY <1>1, <1>3 DEF ChainSound
    <1>8. \A i, j \in DOMAIN chain' : i # j => ToSet(chain'[i]) \cap ToSet(chain'[j]) = {}
      BY <1>1, <1>3, <1>5
    <1>9. \A i \in DOMAIN chain' : \A t \in ToSet(chain'[i]) : \A s \in Sources(t) \ {Base} :
              \E j \in 1..i : s \in ToSet(chain'[j])
      <2>1. SUFFICES ASSUME NEW i \in 1..(n - 1), NEW t \in ToSet(chain[i]), NEW s \in Sources(t) \ {Base}
                     PROVE  \E j \in 1..i : s \in ToSet(chain'[j])
        BY <1>1
      <2>2. PICK j \in 1..i : s \in ToSet(chain[j])
        BY <1>1, <1>3, <2>1 DEF ChainSound
      <2>3. j \in 1..(n - 1)
        BY <1>1
      <2>4. QED
        BY <1>1, <2>2, <2>3
    <1>10. Apart(ChainTx(chain'), ChainTx(chain'))
      BY <1>4 DEF ChainSound, Apart
    <1>11. ChainSound'
      BY <1>1, <1>7, <1>8, <1>9, <1>10 DEF ChainSound
    <1>12. QED
      BY <1>1, <1>4, <1>6, <1>7, <1>11 DEF b

(* What the queue has no room for takes what depends on it out of the pool.*)
LEMMA SoundExcess ==
    ASSUME NEW q, NEW C, NEW W, NEW X, NEW E, E = {}, Sound(q, E, E, C, W, X),
           NEW seq, NEW n \in Nat, DOMAIN seq = 1..n, \A i \in 1..n : seq[i] \notin InPool(q)
    PROVE  LET r == RecursiveFold(q, seq, E)
           IN  /\ Sound(r, E, E, C, W, X) /\ InPool(r) \subseteq InPool(q)
               /\ \A i \in 1..n : \A u \in InPool(r) : seq[i] \notin Sources(u)
    <1> DEFINE k == <<"recursive", E>>
    <1>2. PICK h : Steps(h, n, k, seq, q) /\ h[n] = RecursiveFold(q, seq, E)
      BY RecursiveTurns
    <1>3. h[0] = q /\ \A i \in 1..n : h[i] = removeRecursive(h[i - 1], seq[i])
      <2>1. h[0] = q /\ \A i \in 1..n : h[i] = Turn(k, h[i - 1], seq[i])
        <3> HIDE DEF k
        <3>1. QED
          BY <1>2 DEF Steps
      <2>2. QED
        BY <2>1 DEF Turn
    <1> HIDE DEF k
    <1> DEFINE Fit(z, i) == /\ Sound(z, E, E, C, W, X) /\ InPool(z) \subseteq InPool(q)
                            /\ \A j \in 1..i : \A u \in InPool(z) : seq[j] \notin Sources(u)
               T == {i \in 0..n : Fit(h[i], i)}
    <1>4. 0 \in T
      BY <1>3
    <1>5. ASSUME NEW i \in 1..n, i - 1 \in T PROVE i \in T
      <2> DEFINE z == h[i - 1]
                 t == seq[i]
                 r == removeRecursive(z, t)
      <2>1. h[i] = r
        BY <1>3
      <2>2. Sound(z, E, E, C, W, X) /\ InPool(z) \subseteq InPool(q)
            /\ \A j \in 1..(i - 1) : \A u \in InPool(z) : seq[j] \notin Sources(u)
        BY <1>5
      <2> HIDE DEF z
      <2>3. t \notin InPool(z) /\ t \notin E /\ (\A u \in E : t \notin Sources(u)) /\ E \subseteq E
        BY <2>2
      <2> HIDE DEF t
      <2>4. Sound(r, E, E, C, W, X) /\ Less(r, z) /\ \A u \in InPool(r) : t \notin Sources(u)
        BY <2>2, <2>3, SoundRecursive
      <2> HIDE DEF r
      <2>5. InPool(r) \subseteq InPool(z)
        BY <2>4 DEF Less
      <2>6. ASSUME NEW j \in 1..i PROVE \A u \in InPool(r) : seq[j] \notin Sources(u)
        <3>1. j = i \/ j \in 1..(i - 1)
          OBVIOUS
        <3>2. QED
          BY <2>2, <2>4, <2>5, <3>1 DEF t
      <2>7. QED
        BY <2>1, <2>2, <2>4, <2>5, <2>6
    <1>6. n \in T
      <2> HIDE DEF T
      <2>1. 0..n \subseteq T
        BY <1>4, <1>5, UpTo
      <2>2. QED
        BY <2>1
    <1>7. QED
      BY <1>2, <1>6

(* The pool once the last block is off the chain: it waits for the block's *)
(* transactions.                                                           *)
LEMMA SoundUnmined ==
    ASSUME NEW q, NEW C, NEW B, NEW D, NEW Q, NEW E, E = {}, Sound(q, E, E, C, Q, E), C = D \cup B
    PROVE  Sound(q, E, E, D, Q \cup B, E)
    <1>1. Supplied(q, D, Q \cup B)
      BY DEF Sound, Supplied, Coin
    <1>2. InPool(q) \cap D = {} /\ Free(q, D)
      BY DEF Sound, Free, Names
    <1>3. QED
      BY <1>1, <1>2 DEF Sound

(* It no longer waits for what nothing in it spends.                       *)
LEMMA SoundFewer ==
    ASSUME NEW q, NEW H, NEW M, NEW C, NEW W, NEW X, Sound(q, H, M, C, W, X), NEW V,
           \A u \in InPool(q) : Sources(u) \cap V = {}
    PROVE  Sound(q, H, M, C, W \ V, X)
    <1>1. Supplied(q, C, W \ V)
      <2>1. SUFFICES ASSUME NEW u \in InPool(q), NEW o \in Spends(u)
                     PROVE  o[1] \in InPool(q) \cup (W \ V) \/ Coin(C, o)
        BY DEF Supplied
      <2>2. o[1] \in Sources(u)
        BY DEF Sources, Spends
      <2>3. QED
        BY <2>2 DEF Sound, Supplied
    <1>2. QED
      BY <1>1 DEF Sound

(* The queue with the block's transactions.                                *)
Requeued(queue, D, p) ==
    /\ queue \in Seq(Tx) /\ IsInjective(queue)
    /\ ToSet(queue) \cap (D \cup InPool(p)) = {}
    /\ Apart(ToSet(queue), ToSet(queue) \cup InPool(p))
    /\ \A t \in ToSet(queue) : Sources(t) \cap InPool(p) = {}
    /\ Apart(ToSet(queue), D)

Unmined(q, C, D, s, b, E) ==
    /\ E = {} /\ Sound(q, E, E, C, ToSet(s), E) /\ Requeued(s, C, q)
    /\ b \in Seq(Tx) /\ IsInjective(b) /\ C = D \cup ToSet(b) /\ D \cap ToSet(b) = {}
    /\ Rooted(C) /\ C \subseteq Tx /\ Apart(C, C)

(* The transactions of a disconnected block join the queue.                *)
LEMMA RequeuedIs ==
    ASSUME NEW q, NEW C, NEW D, NEW s, NEW b, NEW E, Unmined(q, C, D, s, b, E)
    PROVE  Requeued(s \o Reverse(b), D, q) /\ ToSet(s \o Reverse(b)) = ToSet(s) \cup ToSet(b)
    <1> DEFINE Q == ToSet(s)
               B == ToSet(b)
               c == s \o Reverse(b)
    <1>0. /\ E = {} /\ Sound(q, E, E, C, ToSet(s), E) /\ Requeued(s, C, q)
          /\ b \in Seq(Tx) /\ IsInjective(b) /\ C = D \cup ToSet(b) /\ D \cap ToSet(b) = {}
          /\ Rooted(C) /\ C \subseteq Tx /\ Apart(C, C)
      BY DEF Unmined
    <1>1. /\ s \in Seq(Tx) /\ IsInjective(s) /\ Q \cap (C \cup InPool(q)) = {} /\ Apart(Q, Q \cup InPool(q))
          /\ (\A t \in Q : Sources(t) \cap InPool(q) = {}) /\ Apart(Q, C)
      BY <1>0 DEF Requeued
    <1>2. Reverse(b) \in Seq(Tx) /\ IsInjective(Reverse(b)) /\ ToSet(Reverse(b)) = B
      BY <1>0, ReverseIs
    <1>3. c \in Seq(Tx) /\ IsInjective(c) /\ ToSet(c) = Q \cup B
      <2>1. Q \cap ToSet(Reverse(b)) = {}
        BY <1>0, <1>1, <1>2
      <2>2. QED
        BY <1>1, <1>2, <2>1, ConcatIs
    <1>4. InPool(q) \cap C = {} /\ Base \notin InPool(q) /\ Base \notin Q
      <2>1. InPool(q) \cap C = {} /\ InPool(q) \subseteq Tx
        BY <1>0 DEF Sound, WellFormed
      <2>2. Q \subseteq Tx
        BY <1>1 DEF ToSet
      <2>3. QED
        BY <2>1, <2>2, TxAssumption
    <1> HIDE DEF Q, B, c
    <1>5. B \subseteq C /\ C = D \cup B /\ D \cap B = {}
      BY <1>0 DEF B
    <1>6. ASSUME NEW t \in B PROVE Sources(t) \subseteq C \cup {Base}
      BY <1>0, <1>5 DEF Rooted
    <1>7. ASSUME NEW t \in B, NEW u \in InPool(q) PROVE Spends(t) \cap Spends(u) = {}
      <2>1. SUFFICES ASSUME NEW o \in Spends(t), o \in Spends(u) PROVE FALSE
        OBVIOUS
      <2>2. o[1] \in C \cup {Base}
        BY <1>6 DEF Sources, Spends
      <2>3. o[1] \notin InPool(q) \cup Q
        BY <1>1, <1>4, <2>2
      <2>4. Coin(C, o)
        BY <1>0, <2>1, <2>3 DEF Sound, Supplied, Q
      <2>5. QED
        BY <1>5, <2>4 DEF Coin
    <1>8. Apart(Q \cup B, Q \cup B \cup InPool(q))
      <2>1. SUFFICES ASSUME NEW t \in Q \cup B, NEW u \in Q \cup B \cup InPool(q), t # u
                     PROVE  Spends(t) \cap Spends(u) = {}
        BY DEF Apart
      <2>2. CASE t \in Q /\ u \in Q \cup InPool(q)
        BY <1>1, <2>1, <2>2 DEF Apart
      <2>3. CASE t \in Q /\ u \in B
        BY <1>1, <1>5, <2>1, <2>3 DEF Apart
      <2>4. CASE t \in B /\ u \in Q
        <3>1. Spends(u) \cap Spends(t) = {}
          BY <1>1, <1>5, <2>1, <2>4 DEF Apart
        <3>2. QED
          BY <3>1
      <2>5. CASE t \in B /\ u \in B
        BY <1>0, <1>5, <2>1, <2>5 DEF Apart
      <2>6. CASE t \in B /\ u \in InPool(q)
        BY <1>7, <2>6
      <2>7. QED
        BY <2>2, <2>3, <2>4, <2>5, <2>6
    <1>9. Apart(Q \cup B, D)
      <2>1. SUFFICES ASSUME NEW t \in Q \cup B, NEW u \in D, t # u PROVE Spends(t) \cap Spends(u) = {}
        BY DEF Apart
      <2>2. u \in C
        BY <1>5
      <2>3. CASE t \in Q
        BY <1>1, <2>1, <2>2, <2>3 DEF Apart
      <2>4. CASE t \in B
        BY <1>0, <1>5, <2>1, <2>2, <2>4 DEF Apart
      <2>5. QED
        BY <2>3, <2>4
    <1>10. (Q \cup B) \cap (D \cup InPool(q)) = {}
      BY <1>1, <1>4, <1>5
    <1>11. \A t \in Q \cup B : Sources(t) \cap InPool(q) = {}
      <2>1. \A t \in B : Sources(t) \cap InPool(q) = {}
        BY <1>4, <1>6
      <2>2. QED
        BY <1>1, <2>1
    <1>12. QED
      BY <1>3, <1>8, <1>9, <1>10, <1>11 DEF Requeued, c, Q, B

(* Disconnecting a block keeps the invariant: the pool waits for its       *)
(* transactions.                                                           *)
LEMMA StepDisconnect ==
    ASSUME IInv, DisconnectTip
    PROVE  IInv'
    <1> DEFINE C == ChainTx(chain)
               D == ChainTx(chain')
               b == Last(chain)
               E == {}
               queue == disconnectpool \o Reverse(b)
               m == IF Len(queue) > MaxDisconnected THEN Len(queue) - MaxDisconnected ELSE 0
               cut == SubSeq(queue, 1, m)
               V == {queue[i] : i \in 1..m}
    <1>1. /\ phase \in {"idle", "disconnect"} /\ chain # <<>> /\ chain' = Front(chain) /\ phase' = "disconnect"
          /\ vHashUpdate' = vHashUpdate /\ file' = file
          /\ disconnectpool' = SubSeq(queue, m + 1, Len(queue))
          /\ pool' = RecursiveFold(pool, cut, E)
      BY DEF DisconnectTip, RecursiveFold
    <1>2. /\ ChainSound /\ QueueSound /\ AgainSound /\ PoolSound /\ FileSound
          /\ vHashUpdate = <<>> /\ Again = {} /\ Again' = {} /\ vHashUpdate' = <<>>
      <2>1. ChainSound /\ QueueSound /\ AgainSound /\ PoolSound /\ FileSound
        BY DEF IInv
      <2>2. vHashUpdate = <<>>
        BY <1>1, <2>1 DEF AgainSound
      <2>3. QED
        BY <1>1, <2>1, <2>2 DEF Again, ToSet
    <1> HIDE DEF queue, m, cut, V
    <1>3. /\ ChainSound' /\ C = D \cup ToSet(b) /\ D \cap ToSet(b) = {} /\ b \in Seq(Tx) /\ IsInjective(b)
          /\ Rooted(C) /\ C \subseteq Tx /\ Apart(C, C)
      <2>1. ChainSound' /\ C = D \cup ToSet(b) /\ D \cap ToSet(b) = {} /\ b \in Block /\ IsInjective(b)
        BY <1>1, <1>2, ChainShrinks
      <2>2. Rooted(C) /\ C \subseteq Tx
        BY <1>2, ChainRooted
      <2>3. Apart(C, C)
        BY <1>2 DEF ChainSound
      <2> HIDE DEF C, D, b
      <2>4. QED
        BY <2>1, <2>2, <2>3, TxAssumption
    <1>4. E = {} /\ Sound(pool, E, E, C, ToSet(disconnectpool), E)
      BY <1>2 DEF PoolSound, Queued
    <1>5. Requeued(disconnectpool, C, pool)
      <2>1. Apart(Queued, C)
        <3>1. CASE phase = "disconnect"
          BY <1>2, <3>1 DEF QueueSound
        <3>2. CASE phase = "idle"
          <4>1. Queued = {}
            BY <1>2, <3>2 DEF QueueSound, Queued, ToSet
          <4>2. QED
            BY <4>1 DEF Apart
        <3>3. QED
          BY <1>1, <3>1, <3>2
      <2>2. disconnectpool \in Seq(Tx) /\ IsInjective(disconnectpool) /\ Queued \cap (C \cup InPool(pool)) = {}
            /\ Apart(Queued, Queued \cup InPool(pool)) /\ \A t \in Queued : Sources(t) \cap InPool(pool) = {}
        BY <1>2 DEF QueueSound
      <2>3. QED
        BY <2>1, <2>2 DEF Requeued, Queued
    <1> HIDE DEF C, D, b, E
    <1>6. Requeued(queue, D, pool) /\ ToSet(queue) = Queued \cup ToSet(b)
      <2>1. Unmined(pool, C, D, disconnectpool, b, E)
        BY <1>3, <1>4, <1>5 DEF Unmined
      <2>2. QED
        BY <2>1, RequeuedIs DEF queue, Queued
    <1>7. queue \in Seq(Tx) /\ IsInjective(queue) /\ m \in 0..Len(queue)
      <2>1. queue \in Seq(Tx) /\ IsInjective(queue) /\ MaxDisconnected \in Nat
        BY <1>6, TxAssumption DEF Requeued
      <2>2. QED
        BY <2>1 DEF m
    <1>8. /\ disconnectpool' \in Seq(Tx) /\ IsInjective(disconnectpool') /\ Queued' = ToSet(queue) \ V
          /\ DOMAIN cut = 1..m /\ \A i \in 1..m : cut[i] = queue[i] /\ queue[i] \in ToSet(queue)
      <2>1. disconnectpool' = SubSeq(queue, m + 1, Len(queue))
        BY <1>1
      <2>2. /\ SubSeq(queue, m + 1, Len(queue)) \in Seq(Tx) /\ IsInjective(SubSeq(queue, m + 1, Len(queue)))
            /\ ToSet(SubSeq(queue, m + 1, Len(queue))) = ToSet(queue) \ {queue[i] : i \in 1..m}
            /\ DOMAIN SubSeq(queue, 1, m) = 1..m
            /\ \A i \in 1..m : SubSeq(queue, 1, m)[i] = queue[i] /\ queue[i] \in ToSet(queue)
        BY <1>7, CutIs
      <2>3. Queued' = ToSet(disconnectpool')
        BY DEF Queued
      <2>4. QED
        BY <2>1, <2>2, <2>3 DEF cut, V
    <1>9. Sound(pool, E, E, D, ToSet(queue), E)
      <2> DEFINE B == ToSet(b)
      <2>1. C = D \cup B /\ E = {} /\ Sound(pool, E, E, C, Queued, E) /\ ToSet(queue) = Queued \cup B
        BY <1>3, <1>4, <1>6 DEF Queued
      <2> HIDE DEF B
      <2>2. Sound(pool, E, E, D, Queued \cup B, E)
        BY <2>1, SoundUnmined
      <2>3. QED
        BY <2>1, <2>2
    <1>10. /\ Sound(pool', E, E, D, ToSet(queue), E) /\ InPool(pool') \subseteq InPool(pool)
           /\ \A i \in 1..m : \A u \in InPool(pool') : cut[i] \notin Sources(u)
      <2>1. \A i \in 1..m : cut[i] \notin InPool(pool)
        BY <1>6, <1>8 DEF Requeued
      <2>2. m \in Nat
        BY <1>7
      <2>3. QED
        BY <1>1, <1>4, <1>8, <1>9, <2>1, <2>2, SoundExcess
    <1>11. Sound(pool', E, E, D, Queued', E)
      <2>1. \A u \in InPool(pool') : Sources(u) \cap V = {}
        BY <1>8, <1>10 DEF V
      <2>2. Sound(pool', E, E, D, ToSet(queue) \ V, E)
        BY <1>10, <2>1, SoundFewer
      <2>3. QED
        BY <1>8, <2>2
    <1>12. PoolSound'
      BY <1>1, <1>2, <1>4, <1>11 DEF PoolSound, D
    <1>13. QueueSound'
      <2>1. Queued' \subseteq ToSet(queue)
        BY <1>8
      <2>2. Queued' \cap (D \cup InPool(pool')) = {}
        BY <1>6, <1>10, <2>1 DEF Requeued
      <2>3. Apart(Queued', Queued' \cup InPool(pool')) /\ Apart(Queued', D)
        BY <1>6, <1>10, <2>1 DEF Requeued, Apart
      <2>4. \A t \in Queued' : Sources(t) \cap InPool(pool') \subseteq Again'
        BY <1>6, <1>10, <2>1 DEF Requeued
      <2>5. phase' # "idle"
        BY <1>1
      <2>6. QED
        BY <1>8, <2>2, <2>3, <2>4, <2>5 DEF QueueSound, D
    <1>14. AgainSound'
      <2>1. <<>> \in Seq(Tx) /\ DOMAIN <<>> = {}
        OBVIOUS
      <2>2. QED
        BY <1>2, <2>1 DEF AgainSound, IsInjective
    <1>15. FileSound'
      BY <1>1, <1>2 DEF FileSound
    <1>16. QED
      BY <1>1, <1>3, <1>12, <1>13, <1>14, <1>15 DEF IInv

-----------------------------------------------------------------------------
(* Accepting the transactions of disconnected blocks again.                *)
LEMMA FrontIs ==
    ASSUME NEW S, NEW s \in Seq(S), s # <<>>, IsInjective(s)
    PROVE  /\ Front(s) \in Seq(S) /\ IsInjective(Front(s)) /\ Last(s) \in S
           /\ Last(s) \in ToSet(s) /\ ToSet(Front(s)) = ToSet(s) \ {Last(s)}
    <1> DEFINE n == Len(s)
               f == Front(s)
               t == Last(s)
    <1>1. n \in Nat /\ n >= 1 /\ DOMAIN s = 1..n /\ t = s[n] /\ n \in 1..n
      BY DEF Last
    <1>2. f = SubSeq(s, 1, n - 1)
      BY DEF Front
    <1>3. f \in Seq(S) /\ DOMAIN f = 1..(n - 1) /\ \A i \in 1..(n - 1) : f[i] = s[i]
      BY <1>1, <1>2
    <1>4. t \in S
      BY <1>1
    <1> HIDE DEF n, f, t
    <1>5. \A i \in 1..n : i = n \/ i \in 1..(n - 1)
      BY <1>1
    <1>6. \A i \in 1..(n - 1) : i \in 1..n /\ i # n
      BY <1>1
    <1>7. IsInjective(f)
      BY <1>1, <1>3, <1>6 DEF IsInjective
    <1>8. t \in ToSet(s)
      BY <1>1 DEF ToSet
    <1>9. ToSet(f) = ToSet(s) \ {t}
      <2>1. \A i \in 1..(n - 1) : s[i] # t
        BY <1>1, <1>6 DEF IsInjective
      <2>2. QED
        BY <1>1, <1>3, <1>5, <1>6, <2>1 DEF ToSet
    <1>10. QED
      BY <1>3, <1>4, <1>7, <1>8, <1>9 DEF f, t

(* The turn of the loop, when the transaction is acceptable.               *)
LEMMA SoundAgain ==
    ASSUME IInv, NEW t \in Queued, Admitted(pool, chain, t)
    PROVE  LET r == Tracked(Stored(pool, t), t)
           IN  /\ Sound(r, Again \cup {t}, Again \cup {t}, ChainTx(chain), Queued \ {t}, {})
               /\ InPool(r) \subseteq InPool(pool) \cup {t} /\ Again \cup {t} \subseteq InPool(r)
               /\ t \notin Sources(t) /\ Sources(t) \cap Queued = {}
    <1> DEFINE C == ChainTx(chain)
               H == Again
               L == {t}
               X == {}
               Q == Queued
               W2 == Q \ {t}
               r == Stored(pool, t)
    <1>1. /\ ChainSound /\ QueueSound /\ AgainSound /\ Sound(pool, H, H, C, Q, X)
      BY DEF IInv, PoolSound
    <1>2. /\ Rooted(C) /\ C \subseteq Tx /\ Base \notin Tx
      BY <1>1, ChainRooted, TxAssumption
    <1>3. /\ WellFormed(pool) /\ SpendsKnown(pool) /\ InPool(pool) \subseteq Tx /\ InPool(pool) \cap C = {}
          /\ Supplied(pool, C, Q)
      BY <1>1 DEF Sound, WellFormed
    <1>4. /\ Q \cap (C \cup InPool(pool)) = {} /\ Apart(Q, Q \cup InPool(pool)) /\ Q \subseteq Tx
          /\ Sources(t) \cap InPool(pool) \subseteq H /\ H \subseteq InPool(pool)
          /\ \A u \in H : Sources(u) \cap Q = {}
      BY <1>1 DEF QueueSound, AgainSound, Queued, ToSet
    <1>5. /\ t \in Tx /\ t \notin C /\ t \notin Sources(t)
      BY <1>2, <1>3, AdmittedApart
    <1>6. /\ t \notin InPool(pool) /\ Replaceable(pool, t) /\ (Issue[t] # None => Issue[t] \notin Names(C))
          /\ (\A o \in Spends(t) : o[1] \in InPool(pool) \/ Coin(C, o)) /\ Open(pool, t)
      BY DEF Admitted
    <1> HIDE DEF C, H, X, Q, r
    <1>7. Conflicts(pool, t) \cap H = {}
      <2>1. Conflicts(pool, t) = {u \in InPool(pool) : Spends(u) \cap Spends(t) # {}}
        BY <1>3, <1>6, ConflictsGo
      <2>2. \A u \in InPool(pool) : Spends(t) \cap Spends(u) = {}
        BY <1>4, <1>6 DEF Apart, Q
      <2>3. QED
        BY <2>1, <2>2
    <1>8. t \notin H /\ Q \subseteq W2 \cup {t} /\ L = {t} /\ L # {} /\ \A u \in H : t \notin Sources(u)
      BY <1>4, <1>6 DEF Q
    <1> HIDE DEF L, W2
    <1>9. Storable(pool, H, C, Q, X, t, L, W2)
      BY <1>1, <1>4, <1>5, <1>6, <1>7, <1>8 DEF Storable
    <1>10. Storing(pool, H, C, X, t, L, W2, r)
      BY <1>9, SoundStored DEF r
    <1>11. /\ Sound(r, H \cup L, H \cup L, C, W2, {t}) /\ t \in InPool(r)
           /\ InPool(r) \subseteq InPool(pool) \cup {t} /\ H \subseteq InPool(r)
           /\ Part(r.mapAssetToHash, pool.mapAssetToHash) /\ Part(r.mapReissuedAssets, pool.mapReissuedAssets)
      <2>1. X \cup {t} = {t}
        BY DEF X
      <2>2. QED
        BY <1>10, <2>1 DEF Storing
    <1>12. Open(r, t)
      BY <1>6, <1>11, OpenLess
    <1>13. Sound(Tracked(r, t), H \cup L, H \cup L, C, W2, {}) /\ InPool(Tracked(r, t)) = InPool(r)
      BY <1>11, <1>12, SoundTracked
    <1>14. Sources(t) \cap Q = {}
      <2>1. SUFFICES ASSUME NEW o \in Spends(t), o[1] \in Q PROVE FALSE
        BY DEF Sources, Spends
      <2>2. o[1] \in C \cup {Base}
        BY <1>4, <1>6, <2>1 DEF Coin
      <2>3. QED
        BY <1>2, <1>4, <2>1, <2>2
    <1>15. QED
      BY <1>5, <1>11, <1>13, <1>14 DEF r, H, C, L, Q, W2

(* A turn of UpdateMempoolForReorg keeps the invariant, whether the        *)
(* transaction is accepted or what depends on it goes.                     *)
LEMMA StepReAccept ==
    ASSUME IInv, ReAccept
    PROVE  IInv'
    <1> DEFINE t == Last(disconnectpool)
               C == ChainTx(chain)
               Q == Queued
               A == Again
    <1>1. /\ disconnectpool # <<>> /\ disconnectpool' = Front(disconnectpool) /\ phase' = "update"
          /\ chain' = chain /\ file' = file
          /\ \/ /\ Acceptable(pool, chain, t, TRUE) /\ pool' = Tracked(Stored(pool, t), t)
                /\ vHashUpdate' = Append(vHashUpdate, t)
             \/ pool' = removeRecursive(pool, t) /\ vHashUpdate' = vHashUpdate
      BY DEF ReAccept
    <1>2. ChainSound /\ QueueSound /\ AgainSound /\ PoolSound /\ FileSound /\ Sound(pool, A, A, C, Q, {})
      BY DEF IInv, PoolSound
    <1>3. /\ disconnectpool' \in Seq(Tx) /\ IsInjective(disconnectpool') /\ Queued' = Q \ {t} /\ t \in Q /\ t \in Tx
      <2>1. disconnectpool \in Seq(Tx) /\ IsInjective(disconnectpool)
        BY <1>2 DEF QueueSound
      <2>2. QED
        BY <1>1, <2>1, FrontIs DEF Queued
    <1> HIDE DEF t
    <1>4. /\ Q \cap (C \cup InPool(pool)) = {} /\ Apart(Q, Q \cup InPool(pool)) /\ A \subseteq InPool(pool)
          /\ \A u \in Q : Sources(u) \cap InPool(pool) \subseteq A
          /\ \A u \in A : Sources(u) \cap Q = {}
      BY <1>2 DEF QueueSound, AgainSound
    <1>5. ChainSound' /\ FileSound' /\ ChainTx(chain') = C /\ phase' \in {"idle", "disconnect", "connect", "update"}
          /\ phase' # "idle" /\ phase' # "disconnect"
      BY <1>1, <1>2 DEF ChainSound, FileSound
    <1> HIDE DEF C, Q, A
    <1>6. CASE /\ Acceptable(pool, chain, t, TRUE) /\ pool' = Tracked(Stored(pool, t), t)
               /\ vHashUpdate' = Append(vHashUpdate, t)
      <2>1. Admitted(pool, chain, t)
        BY <1>6, AdmittedIs, Zenon
      <2>2. /\ Sound(pool', A \cup {t}, A \cup {t}, C, Q \ {t}, {})
            /\ InPool(pool') \subseteq InPool(pool) \cup {t} /\ A \cup {t} \subseteq InPool(pool')
            /\ t \notin Sources(t) /\ Sources(t) \cap Q = {}
        BY <1>3, <1>6, <2>1, SoundAgain DEF A, C, Q
      <2>3. /\ vHashUpdate' \in Seq(Tx) /\ IsInjective(vHashUpdate') /\ Again' = A \cup {t}
        <3>1. vHashUpdate \in Seq(Tx) /\ IsInjective(vHashUpdate)
          BY <1>2 DEF AgainSound
        <3>2. t \notin ToSet(vHashUpdate)
          BY <1>3, <1>4 DEF A, Again
        <3>3. QED
          BY <1>3, <1>6, <3>1, <3>2, ToSetAppend DEF A, Again
      <2>4. \A i, j \in DOMAIN vHashUpdate' : i <= j => vHashUpdate'[j] \notin Sources(vHashUpdate'[i])
        <3> DEFINE v == vHashUpdate
                   n == Len(v)
        <3>1. /\ n \in Nat /\ DOMAIN v = 1..n /\ DOMAIN vHashUpdate' = 1..(n + 1)
              /\ vHashUpdate'[n + 1] = t /\ \A i \in 1..n : vHashUpdate'[i] = v[i]
          <4>1. v \in Seq(Tx)
            BY <1>2 DEF AgainSound
          <4>2. QED
            BY <1>6, <4>1
        <3>2. \A i, j \in DOMAIN v : i <= j => v[j] \notin Sources(v[i])
          BY <1>2 DEF AgainSound
        <3> HIDE DEF n
        <3>3. \A i \in 1..n : v[i] \in A
          BY <3>1 DEF A, Again, ToSet
        <3>4. \A i \in 1..n : t \notin Sources(v[i])
          BY <1>3, <1>4, <3>3
        <3> HIDE DEF v
        <3>5. SUFFICES ASSUME NEW i \in 1..(n + 1), NEW j \in 1..(n + 1), i <= j
                       PROVE  vHashUpdate'[j] \notin Sources(vHashUpdate'[i])
          BY <3>1
        <3>6. CASE j \in 1..n
          <4>1. i \in 1..n
            BY <3>1, <3>5, <3>6
          <4>2. QED
            BY <3>1, <3>2, <3>5, <3>6, <4>1
        <3>7. CASE j = n + 1 /\ i \in 1..n
          BY <3>1, <3>4, <3>7
        <3>8. CASE j = n + 1 /\ i = n + 1
          BY <2>2, <3>1, <3>8
        <3>9. QED
          BY <3>1, <3>5, <3>6, <3>7, <3>8
      <2>5. AgainSound'
        <3>1. \A u \in Again' : Sources(u) \cap Queued' = {}
          BY <1>3, <1>4, <2>2, <2>3
        <3>2. Again' \subseteq InPool(pool')
          BY <2>2, <2>3
        <3>3. QED
          BY <1>1, <2>3, <2>4, <3>1, <3>2 DEF AgainSound
      <2>6. QueueSound'
        <3>1. Queued' \cap (C \cup InPool(pool')) = {}
          BY <1>3, <1>4, <2>2
        <3>2. Apart(Queued', Queued' \cup InPool(pool'))
          BY <1>3, <1>4, <2>2 DEF Apart
        <3>3. \A u \in Queued' : Sources(u) \cap InPool(pool') \subseteq Again'
          BY <1>3, <1>4, <2>2, <2>3
        <3>4. QED
          BY <1>3, <1>5, <3>1, <3>2, <3>3 DEF QueueSound
      <2>7. PoolSound'
        BY <1>3, <1>5, <2>2, <2>3 DEF PoolSound
      <2>8. QED
        BY <1>5, <2>5, <2>6, <2>7 DEF IInv
    <1>7. CASE pool' = removeRecursive(pool, t) /\ vHashUpdate' = vHashUpdate
      <2> DEFINE r == removeRecursive(pool, t)
                 X == {}
      <2>1. Again' = A /\ t \notin A /\ t \notin InPool(pool) /\ \A u \in A : t \notin Sources(u)
        BY <1>3, <1>4, <1>7 DEF Again, A
      <2>2. /\ Sound(r, A, A, C, Q, X) /\ Less(r, pool) /\ A \cap InPool(pool) \subseteq InPool(r)
            /\ \A u \in InPool(r) : t \notin Sources(u)
        <3>1. Sound(pool, A, A, C, Q, X) /\ A \subseteq A
          BY <1>2
        <3> HIDE DEF X, r
        <3>2. QED
          BY <2>1, <3>1, SoundRecursive DEF r
      <2> HIDE DEF r
      <2>3. Sound(r, A, A, C, Q \ {t}, X)
        <3> DEFINE V == {t}
        <3>1. \A u \in InPool(r) : Sources(u) \cap V = {}
          BY <2>2
        <3> HIDE DEF V, X
        <3>2. Sound(r, A, A, C, Q \ V, X)
          BY <2>2, <3>1, SoundFewer
        <3>3. QED
          BY <3>2 DEF V
      <2>4. pool' = r /\ InPool(r) \subseteq InPool(pool) /\ A \subseteq InPool(r)
        BY <1>4, <1>7, <2>2 DEF r, Less
      <2>5. AgainSound'
        <3>1. \A u \in Again' : Sources(u) \cap Queued' = {}
          BY <1>3, <1>4, <2>1
        <3>2. vHashUpdate' \in Seq(Tx) /\ IsInjective(vHashUpdate') /\ Again' \subseteq InPool(pool')
              /\ \A i, j \in DOMAIN vHashUpdate' : i <= j => vHashUpdate'[j] \notin Sources(vHashUpdate'[i])
          BY <1>2, <1>7, <2>1, <2>4 DEF AgainSound
        <3>3. QED
          BY <1>1, <3>1, <3>2 DEF AgainSound
      <2>6. QueueSound'
        <3>1. Queued' \cap (C \cup InPool(pool')) = {}
          BY <1>3, <1>4, <2>4
        <3>2. Apart(Queued', Queued' \cup InPool(pool'))
          BY <1>3, <1>4, <2>4 DEF Apart
        <3>3. \A u \in Queued' : Sources(u) \cap InPool(pool') \subseteq Again'
          BY <1>3, <1>4, <2>1, <2>4
        <3>4. QED
          BY <1>3, <1>5, <3>1, <3>2, <3>3 DEF QueueSound
      <2>7. PoolSound'
        BY <1>3, <1>5, <2>1, <2>3, <2>4 DEF PoolSound
      <2>8. QED
        BY <1>5, <2>5, <2>6, <2>7 DEF IInv
    <1>8. QED
      BY <1>1, <1>6, <1>7

-----------------------------------------------------------------------------
(* The end of a reorganisation.  New links from t to the entries of K; the *)
(* totals may change, the fees do not.                                     *)
Linking(q, t, K, r) ==
    /\ WellFormed(q) /\ t \in InPool(q) /\ K \in SUBSET InPool(q)
    /\ r = [mapTx |-> r.mapTx, mapLinks |-> r.mapLinks, mapNextTx |-> r.mapNextTx,
            mapDeltas |-> r.mapDeltas, mapAssetToHash |-> r.mapAssetToHash,
            mapReissuedAssets |-> r.mapReissuedAssets]
    /\ r.mapNextTx = q.mapNextTx /\ r.mapDeltas = q.mapDeltas
    /\ r.mapAssetToHash = q.mapAssetToHash /\ r.mapReissuedAssets = q.mapReissuedAssets
    /\ r.mapTx \in [InPool(q) -> Entry] /\ \A k \in InPool(q) : r.mapTx[k].delta = q.mapTx[k].delta
    /\ r.mapLinks = [k \in InPool(q) |->
          [parents |-> IF k \in K THEN Parents(q)[k] \cup {t} ELSE Parents(q)[k],
           children |-> IF k = t THEN Children(q)[k] \cup K ELSE Children(q)[k]]]

(* New links leave a well formed pool.                                     *)
LEMMA LinkingIs ==
    ASSUME NEW q, NEW t, NEW K, NEW r, Linking(q, t, K, r)
    PROVE  /\ InPool(r) = InPool(q) /\ WellFormed(r)
           /\ \A k \in InPool(q) :
                 /\ Parents(r)[k] = IF k \in K THEN Parents(q)[k] \cup {t} ELSE Parents(q)[k]
                 /\ Children(r)[k] = IF k = t THEN Children(q)[k] \cup K ELSE Children(q)[k]
           /\ r.mapNextTx = q.mapNextTx /\ r.mapDeltas = q.mapDeltas
           /\ r.mapAssetToHash = q.mapAssetToHash /\ r.mapReissuedAssets = q.mapReissuedAssets
    <1>1. /\ r.mapNextTx = q.mapNextTx /\ r.mapDeltas = q.mapDeltas
          /\ r.mapAssetToHash = q.mapAssetToHash /\ r.mapReissuedAssets = q.mapReissuedAssets
      BY DEF Linking
    <1>2. InPool(r) = InPool(q)
      BY DEF Linking, InPool
    <1>3. \A k \in InPool(q) :
             /\ Parents(r)[k] = IF k \in K THEN Parents(q)[k] \cup {t} ELSE Parents(q)[k]
             /\ Children(r)[k] = IF k = t THEN Children(q)[k] \cup K ELSE Children(q)[k]
      BY <1>2 DEF Linking, Parents, Children
    <1>4. \A k \in InPool(q) : Parents(q)[k] \subseteq InPool(q) /\ Children(q)[k] \subseteq InPool(q)
      BY PoolGraph DEF Linking
    <1>5. r.mapLinks \in [InPool(r) -> [parents : SUBSET InPool(r), children : SUBSET InPool(r)]]
      BY <1>2, <1>4 DEF Linking
    <1>6. \A x, y \in InPool(r) : y \in Children(r)[x] <=> x \in Parents(r)[y]
      <2>1. \A x, y \in InPool(q) : y \in Children(q)[x] <=> x \in Parents(q)[y]
        BY DEF Linking, WellFormed
      <2>2. t \in InPool(q) /\ K \in SUBSET InPool(q)
        BY DEF Linking
      <2>3. ASSUME NEW x \in InPool(q), NEW y \in InPool(q) PROVE y \in Children(r)[x] <=> x \in Parents(r)[y]
        <3>1. y \in Children(r)[x] <=> y \in Children(q)[x] \/ (x = t /\ y \in K)
          BY <1>3
        <3>2. x \in Parents(r)[y] <=> x \in Parents(q)[y] \/ (x = t /\ y \in K)
          BY <1>3
        <3>3. QED
          BY <2>1, <3>1, <3>2
      <2>4. QED
        BY <1>2, <2>3
    <1>7. r = [mapTx |-> r.mapTx, mapLinks |-> r.mapLinks, mapNextTx |-> r.mapNextTx,
               mapDeltas |-> r.mapDeltas, mapAssetToHash |-> r.mapAssetToHash,
               mapReissuedAssets |-> r.mapReissuedAssets]
      BY DEF Linking
    <1>8. WellFormed(r)
      <2>1. /\ InPool(q) \subseteq Tx
            /\ IsMap(q.mapNextTx) /\ IsMap(q.mapDeltas) /\ IsMap(q.mapAssetToHash) /\ IsMap(q.mapReissuedAssets)
            /\ IsFiniteSet(DOMAIN q.mapDeltas) /\ \A u \in DOMAIN q.mapDeltas : q.mapDeltas[u] \in Nat
        BY DEF Linking, WellFormed
      <2>2. r.mapTx \in [InPool(r) -> Entry]
        BY <1>2 DEF Linking
      <2>3. QED
        BY <1>1, <1>2, <1>5, <1>6, <1>7, <2>1, <2>2 DEF WellFormed
    <1>9. QED
      BY <1>1, <1>2, <1>3, <1>8

(* What is below and above an entry then.                                  *)
LEMMA LinkingReach ==
    ASSUME NEW q, NEW t, NEW K, NEW r, Linking(q, t, K, r), NEW N, N = Reach(InPool(q), Children(q), K), t \notin N
    PROVE  \A x \in InPool(q) :
              /\ Down(r, x) = IF t \in Down(q, x) THEN Down(q, x) \cup N ELSE Down(q, x)
              /\ Up(r, x) = IF x \in N THEN Up(q, x) \cup Up(q, t) ELSE Up(q, x)
    <1> DEFINE V == InPool(q)
               nx == Children(q)
               pv == Parents(q)
               nx2 == Children(r)
               pv2 == Parents(r)
    <1>1. /\ InPool(r) = V /\ WellFormed(r) /\ WellFormed(q) /\ t \in V /\ K \in SUBSET V
          /\ \A k \in V : /\ pv2[k] = IF k \in K THEN pv[k] \cup {t} ELSE pv[k]
                          /\ nx2[k] = IF k = t THEN nx[k] \cup K ELSE nx[k]
      <2>1. WellFormed(q) /\ t \in V /\ K \in SUBSET V
        BY DEF Linking
      <2>2. InPool(r) = V /\ WellFormed(r)
        BY LinkingIs
      <2>3. \A k \in InPool(q) :
                 /\ Parents(r)[k] = IF k \in K THEN Parents(q)[k] \cup {t} ELSE Parents(q)[k]
                 /\ Children(r)[k] = IF k = t THEN Children(q)[k] \cup K ELSE Children(q)[k]
        BY LinkingIs
      <2>4. QED
        BY <2>1, <2>2, <2>3
    <1>2. Opposite(V, nx, pv) /\ nx2 \in [V -> SUBSET V] /\ pv2 \in [V -> SUBSET V]
      BY <1>1, PoolGraph
    <1>3. /\ Up(q, t) = Reach(V, pv, {t})
          /\ \A x : /\ Up(q, x) = Reach(V, pv, {x}) /\ Down(q, x) = Reach(V, nx, {x})
                    /\ Up(r, x) = Reach(V, pv2, {x}) /\ Down(r, x) = Reach(V, nx2, {x})
      BY <1>1 DEF Up, Down
    <1> HIDE DEF V, nx, pv, nx2, pv2
    <1>4. N = Reach(V, nx, K)
      BY DEF V, nx
    <1>5. Joined(V, nx, pv, t, K, nx2, pv2)
      BY <1>1, <1>2, <1>4 DEF Joined
    <1>6. JoinedReach(V, nx, pv, t, K, nx2, pv2)
      BY <1>5, ReachJoined
    <1>7. QED
      BY <1>3, <1>4, <1>6 DEF JoinedReach, V

(* Midway: the entries of M are still to be linked to their children that  *)
(* are not of H.                                                           *)
UpSoFar(q, H, M, x) == IF x \in H THEN Up(q, x) ELSE Up(q, x) \ M
DownSoFar(q, H, M, x) == IF x \in M THEN Down(q, x) \cap H ELSE Down(q, x)
Mending(q, H, M) ==
    /\ WellFormed(q) /\ SpendsKnown(q) /\ Linked(q, H, M) /\ M \subseteq H /\ H \subseteq InPool(q)
    /\ \A x \in InPool(q) : Counts(q, x, UpSoFar(q, H, M, x), DownSoFar(q, H, M, x))
    /\ \A u \in M : Sources(u) \cap H \subseteq M

(* What hangs below and above t, when it is its turn.                      *)
LEMMA MendingReach ==
    ASSUME NEW q, NEW H, NEW M, Mending(q, H, M), NEW t \in M, NEW K, K \subseteq InPool(q) \ H,
           NEW N, N = Reach(InPool(q), Children(q), K)
    PROVE  /\ N \subseteq InPool(q) \ H /\ t \notin N /\ K \subseteq N
           /\ Up(q, t) \subseteq M
           /\ \A x \in InPool(q) \ M : t \notin Down(q, x) /\ Down(q, x) \cap M = {}
    <1> DEFINE V == InPool(q)
               nx == Children(q)
               pv == Parents(q)
    <1>1. Opposite(V, nx, pv) /\ nx \in [V -> SUBSET V] /\ pv \in [V -> SUBSET V]
      BY PoolGraph DEF Mending
    <1>2. M \subseteq H /\ H \subseteq V /\ Linked(q, H, M) /\ \A u \in M : Sources(u) \cap H \subseteq M
      BY DEF Mending
    <1>3. \A x \in H : pv[x] \subseteq H
      BY <1>2 DEF Linked
    <1>4. \A x \in M : pv[x] \subseteq M
      BY <1>2 DEF Linked
    <1> HIDE DEF V, nx, pv
    <1>5. \A x \in V \ H : nx[x] \subseteq V \ H
      BY <1>1, <1>2, <1>3 DEF Opposite
    <1>6. \A x \in V \ M : nx[x] \subseteq V \ M
      BY <1>1, <1>2, <1>4 DEF Opposite
    <1>7. N = Reach(V, nx, K)
      BY DEF V, nx
    <1>8. K \in SUBSET V /\ K \subseteq V \ H /\ t \in V
      BY <1>2 DEF V
    <1>9. N \subseteq V \ H /\ K \subseteq N
      <2> DEFINE T == V \ H
      <2>1. K \subseteq T /\ \A x \in V \cap T : nx[x] \subseteq T
        BY <1>5, <1>8
      <2> HIDE DEF T
      <2>2. Reach(V, nx, K) \subseteq T
        BY <1>1, <1>8, <2>1, ReachLeast
      <2>3. K \subseteq N
        BY <1>1, <1>7, <1>8, ReachIs
      <2>4. QED
        BY <1>7, <2>2, <2>3 DEF T
    <1>10. Up(q, t) \subseteq M
      <2>1. t \in M /\ \A x \in V \cap M : pv[x] \subseteq M
        BY <1>4
      <2>2. Reach(V, pv, {t}) \subseteq M
        BY <1>1, <1>8, <2>1, ReachOneLeast
      <2>3. QED
        BY <2>2 DEF Up, V, pv
    <1>11. ASSUME NEW x \in V \ M PROVE Down(q, x) \subseteq V \ M
      <2> DEFINE T == V \ M
      <2>1. x \in V /\ x \in T /\ \A y \in V \cap T : nx[y] \subseteq T
        BY <1>6
      <2> HIDE DEF T
      <2>2. Reach(V, nx, {x}) \subseteq T
        BY <1>1, <2>1, ReachOneLeast
      <2>3. QED
        BY <2>2 DEF Down, T, V, nx
    <1>12. QED
      BY <1>2, <1>9, <1>10, <1>11 DEF V

(* The children of t that were in the pool all along.                      *)
Hanging(q, H, t) == {u \in InPool(q) : t \in Sources(u)} \ H

(* UpdateForDescendants links them, and counts what hangs below t then.    *)
Relinked(q, H, t, r) ==
    /\ Linking(q, t, Hanging(q, H, t), r)
    /\ \A k \in InPool(q) : r.mapTx[k] =
          IF k \in Down(r, t) \ H
          THEN [delta |-> q.mapTx[k].delta, nAnc |-> q.mapTx[k].nAnc + 1,
                feeAnc |-> q.mapTx[k].feeAnc + ModifiedFee(q, t),
                nDesc |-> q.mapTx[k].nDesc, feeDesc |-> q.mapTx[k].feeDesc]
          ELSE IF k = t
          THEN [delta |-> q.mapTx[k].delta, nAnc |-> q.mapTx[k].nAnc, feeAnc |-> q.mapTx[k].feeAnc,
                nDesc |-> q.mapTx[k].nDesc + Cardinality(Down(r, t) \ H),
                feeDesc |-> q.mapTx[k].feeDesc + FeesOf(q, Down(r, t) \ H)]
          ELSE q.mapTx[k]

(* The spenders mapNextTx gives are the children.                          *)
LEMMA SpendersAre ==
    ASSUME NEW q, SpendsKnown(q), NEW t
    PROVE  {q.mapNextTx[o] : o \in {o \in DOMAIN q.mapNextTx : o[1] = t}} = {u \in InPool(q) : t \in Sources(u)}
    <1> DEFINE spenders == {q.mapNextTx[o] : o \in {o \in DOMAIN q.mapNextTx : o[1] = t}}
    <1>1. ASSUME NEW o \in DOMAIN q.mapNextTx, o[1] = t
          PROVE  q.mapNextTx[o] \in InPool(q) /\ t \in Sources(q.mapNextTx[o])
      <2>1. PICK u \in InPool(q) : o \in Spends(u)
        BY DEF SpendsKnown
      <2>2. q.mapNextTx[o] = u
        BY <2>1 DEF SpendsKnown
      <2>3. QED
        BY <1>1, <2>1, <2>2 DEF Sources, Spends
    <1>2. ASSUME NEW u \in InPool(q), t \in Sources(u) PROVE u \in spenders
      <2>1. PICK o \in Spends(u) : o[1] = t
        BY <1>2 DEF Sources, Spends
      <2>2. o \in DOMAIN q.mapNextTx /\ q.mapNextTx[o] = u
        BY <2>1 DEF SpendsKnown
      <2>3. QED
        BY <2>1, <2>2
    <1>3. QED
      BY <1>1, <1>2

(* UpdateForDescendants does what Relinked says.                           *)
LEMMA RelinkedIs ==
    ASSUME NEW q, WellFormed(q), SpendsKnown(q), NEW H, NEW t \in H, t \in InPool(q)
    PROVE  Relinked(q, H, t, UpdateForDescendants(q, t, H))
    <1> DEFINE spenders == {q.mapNextTx[o] : o \in {o \in DOMAIN q.mapNextTx : o[1] = t}}
               K == spenders \ H
               links == [k \in DOMAIN q.mapLinks |->
                     [parents  |-> q.mapLinks[k].parents \cup (IF k \in K THEN {t} ELSE {}),
                      children |-> q.mapLinks[k].children \cup (IF k = t THEN K ELSE {})]]
               z == [q EXCEPT !.mapLinks = links]
               B == CalculateDescendants(z, z.mapLinks[t].children) \ H
               tx == [k \in InPool(q) |->
                CASE k \in B -> MoreAncestors(q.mapTx[k], 1, ModifiedFee(q, t))
                  [] k = t -> MoreDescendants(q.mapTx[k], Cardinality(B), FeesOf(q, B))
                  [] OTHER -> q.mapTx[k]]
               r == UpdateForDescendants(q, t, H)
    <1>1. K = Hanging(q, H, t)
      BY SpendersAre DEF Hanging
    <1>2. r = [z EXCEPT !.mapTx = tx]
      BY DEF UpdateForDescendants
    <1> HIDE DEF r, tx, B, K
    <1>3. links = [k \in InPool(q) |->
          [parents |-> IF k \in K THEN Parents(q)[k] \cup {t} ELSE Parents(q)[k],
           children |-> IF k = t THEN Children(q)[k] \cup K ELSE Children(q)[k]]]
      <2>1. DOMAIN q.mapLinks = InPool(q)
        BY DEF WellFormed
      <2>2. QED
        BY <2>1 DEF Parents, Children
    <1>4. q = [mapTx |-> q.mapTx, mapLinks |-> q.mapLinks, mapNextTx |-> q.mapNextTx,
               mapDeltas |-> q.mapDeltas, mapAssetToHash |-> q.mapAssetToHash,
               mapReissuedAssets |-> q.mapReissuedAssets]
      BY DEF WellFormed
    <1> HIDE DEF links
    <1>5. z = [mapTx |-> q.mapTx, mapLinks |-> links, mapNextTx |-> q.mapNextTx,
               mapDeltas |-> q.mapDeltas, mapAssetToHash |-> q.mapAssetToHash,
               mapReissuedAssets |-> q.mapReissuedAssets]
      BY <1>4
    <1> HIDE DEF z
    <1>6. r = [mapTx |-> tx, mapLinks |-> links, mapNextTx |-> q.mapNextTx,
               mapDeltas |-> q.mapDeltas, mapAssetToHash |-> q.mapAssetToHash,
               mapReissuedAssets |-> q.mapReissuedAssets]
      BY <1>2, <1>5
    <1>7. K \in SUBSET InPool(q)
      BY <1>1 DEF Hanging
    <1>8. Linking(q, t, K, z)
      <2>1. z.mapTx \in [InPool(q) -> Entry] /\ \A k \in InPool(q) : z.mapTx[k].delta = q.mapTx[k].delta
        BY <1>5 DEF WellFormed
      <2>2. /\ z.mapLinks = links /\ z.mapNextTx = q.mapNextTx /\ z.mapDeltas = q.mapDeltas
            /\ z.mapAssetToHash = q.mapAssetToHash /\ z.mapReissuedAssets = q.mapReissuedAssets
            /\ z.mapTx = q.mapTx
        BY <1>5
      <2>3. z = [mapTx |-> z.mapTx, mapLinks |-> z.mapLinks, mapNextTx |-> z.mapNextTx,
                 mapDeltas |-> z.mapDeltas, mapAssetToHash |-> z.mapAssetToHash,
                 mapReissuedAssets |-> z.mapReissuedAssets]
        BY <1>5, <2>2
      <2>4. QED
        BY <1>3, <1>7, <2>1, <2>2, <2>3 DEF Linking
    <1>9. B = Down(z, t) \ H /\ B \in SUBSET InPool(q)
      <2>1. WellFormed(z) /\ InPool(z) = InPool(q)
        BY <1>8, LinkingIs
      <2>2. Children(z) \in [InPool(z) -> SUBSET InPool(z)]
        BY <2>1, PoolGraph
      <2>3. z.mapLinks[t].children = Children(z)[t]
        BY <2>1 DEF Children
      <2>4. Children(z)[t] \in SUBSET InPool(z)
        BY <2>1, <2>2
      <2>5. CalculateDescendants(z, Children(z)[t]) = Reach(InPool(z), Children(z), Children(z)[t])
        BY <2>1, <2>4, DescendantsAre
      <2>6. Down(z, t) = {t} \cup Reach(InPool(z), Children(z), Children(z)[t])
        BY <2>1, <2>2, ReachStep DEF Down
      <2>7. Reach(InPool(z), Children(z), Children(z)[t]) \subseteq InPool(z)
        BY <2>2, <2>4, ReachIs
      <2>8. QED
        BY <2>1, <2>3, <2>5, <2>6, <2>7 DEF B
    <1>10. ModifiedFee(q, t) \in Nat /\ FeesOf(q, B) \in Nat /\ Cardinality(B) \in Nat
      BY <1>9, FeesAre, FS_CardinalityType
    <1>11. ASSUME NEW k \in InPool(q)
           PROVE  /\ tx[k] = IF k \in B
                     THEN [delta |-> q.mapTx[k].delta, nAnc |-> q.mapTx[k].nAnc + 1,
                           feeAnc |-> q.mapTx[k].feeAnc + ModifiedFee(q, t),
                           nDesc |-> q.mapTx[k].nDesc, feeDesc |-> q.mapTx[k].feeDesc]
                     ELSE IF k = t
                     THEN [delta |-> q.mapTx[k].delta, nAnc |-> q.mapTx[k].nAnc, feeAnc |-> q.mapTx[k].feeAnc,
                           nDesc |-> q.mapTx[k].nDesc + Cardinality(B),
                           feeDesc |-> q.mapTx[k].feeDesc + FeesOf(q, B)]
                     ELSE q.mapTx[k]
                  /\ tx[k] \in Entry /\ tx[k].delta = q.mapTx[k].delta
      <2> DEFINE e == q.mapTx[k]
                 f == ModifiedFee(q, t)
                 n == Cardinality(B)
                 g == FeesOf(q, B)
      <2>1. e \in Entry
        BY DEF WellFormed
      <2>2. tx[k] = IF k \in B THEN MoreAncestors(e, 1, f) ELSE IF k = t THEN MoreDescendants(e, n, g) ELSE e
        <3>1. k = t => k \notin B
          BY DEF B
        <3>2. tx[k] = CASE k \in B -> MoreAncestors(e, 1, f) [] k = t -> MoreDescendants(e, n, g) [] OTHER -> e
          BY DEF tx
        <3> DEFINE a == MoreAncestors(e, 1, f)
                   d == MoreDescendants(e, n, g)
        <3> HIDE DEF e, a, d
        <3>3. tx[k] = CASE k \in B -> a [] k = t -> d [] OTHER -> e
          BY <3>2 DEF a, d
        <3>4. tx[k] = IF k \in B THEN a ELSE IF k = t THEN d ELSE e
          BY <3>1, <3>3
        <3>5. QED
          BY <3>4 DEF a, d
      <2>3. f \in Nat /\ n \in Nat /\ g \in Nat
        BY <1>10
      <2> HIDE DEF e, f, n, g
      <2>4. MoreAncestors(e, 1, f) = [delta |-> e.delta, nAnc |-> e.nAnc + 1, feeAnc |-> e.feeAnc + f,
                                      nDesc |-> e.nDesc, feeDesc |-> e.feeDesc]
        <3> DEFINE m == MoreAncestors(e, 1, f)
        <3>1. m = [e EXCEPT !.nAnc = @ + 1, !.feeAnc = @ + f]
          BY DEF MoreAncestors
        <3> HIDE DEF m
        <3>2. m = [delta |-> e.delta, nAnc |-> e.nAnc + 1, feeAnc |-> e.feeAnc + f,
                   nDesc |-> e.nDesc, feeDesc |-> e.feeDesc]
          BY <2>1, <2>3, <3>1 DEF Entry
        <3>3. QED
          BY <3>2 DEF m
      <2>5. MoreDescendants(e, n, g) = [delta |-> e.delta, nAnc |-> e.nAnc, feeAnc |-> e.feeAnc,
                                        nDesc |-> e.nDesc + n, feeDesc |-> e.feeDesc + g]
        <3> DEFINE m == MoreDescendants(e, n, g)
        <3>1. m = [e EXCEPT !.nDesc = @ + n, !.feeDesc = @ + g]
          BY DEF MoreDescendants
        <3> HIDE DEF m
        <3>2. m = [delta |-> e.delta, nAnc |-> e.nAnc, feeAnc |-> e.feeAnc,
                   nDesc |-> e.nDesc + n, feeDesc |-> e.feeDesc + g]
          BY <2>1, <2>3, <3>1 DEF Entry
        <3>3. QED
          BY <3>2 DEF m
      <2>6. tx[k] = IF k \in B
                     THEN [delta |-> e.delta, nAnc |-> e.nAnc + 1, feeAnc |-> e.feeAnc + f,
                           nDesc |-> e.nDesc, feeDesc |-> e.feeDesc]
                     ELSE IF k = t
                     THEN [delta |-> e.delta, nAnc |-> e.nAnc, feeAnc |-> e.feeAnc,
                           nDesc |-> e.nDesc + n, feeDesc |-> e.feeDesc + g]
                     ELSE e
        BY <2>2, <2>4, <2>5
      <2>7. tx[k] \in Entry /\ tx[k].delta = e.delta
        BY <2>1, <2>3, <2>6 DEF Entry
      <2>8. QED
        BY <2>6, <2>7 DEF e, f, n, g
    <1>12. Linking(q, t, K, r) /\ r.mapTx = tx /\ r.mapLinks = links
      <2>1. /\ r.mapLinks = links /\ r.mapNextTx = q.mapNextTx /\ r.mapDeltas = q.mapDeltas
            /\ r.mapAssetToHash = q.mapAssetToHash /\ r.mapReissuedAssets = q.mapReissuedAssets
            /\ r.mapTx = tx
        BY <1>6
      <2>2. r = [mapTx |-> r.mapTx, mapLinks |-> r.mapLinks, mapNextTx |-> r.mapNextTx,
                 mapDeltas |-> r.mapDeltas, mapAssetToHash |-> r.mapAssetToHash,
                 mapReissuedAssets |-> r.mapReissuedAssets]
        BY <1>6, <2>1
      <2>3. tx \in [InPool(q) -> Entry]
        <3>1. tx = [k \in InPool(q) |-> tx[k]]
          BY DEF tx
        <3>2. QED
          BY <1>11, <3>1
      <2>4. \A k \in InPool(q) : r.mapTx[k].delta = q.mapTx[k].delta
        BY <1>11, <2>1
      <2>5. QED
        BY <1>3, <1>7, <2>1, <2>2, <2>3, <2>4 DEF Linking
    <1>13. Down(r, t) = Down(z, t)
      <2>1. InPool(r) = InPool(z)
        BY <1>8, <1>12, LinkingIs
      <2>2. r.mapLinks = z.mapLinks
        BY <1>5, <1>12
      <2>3. QED
        BY <2>1, <2>2 DEF Down, Children
    <1>14. QED
      BY <1>1, <1>9, <1>11, <1>12, <1>13 DEF Relinked, r

(* One turn of UpdateTransactionsFromBlock.                                *)
LEMMA MendingTurn ==
    ASSUME NEW q, NEW H, NEW M, Mending(q, H, M), NEW t \in M, \A u \in M : t \notin Sources(u),
           NEW r, Relinked(q, H, t, r)
    PROVE  Mending(r, H, M \ {t}) /\ InPool(r) = InPool(q)
    <1> DEFINE K == Hanging(q, H, t)
               N == Reach(InPool(q), Children(q), K)
               V == InPool(q)
               B == Down(r, t) \ H
               L == M \ {t}
    <1>1. /\ WellFormed(q) /\ SpendsKnown(q) /\ Linked(q, H, M) /\ M \subseteq H /\ H \subseteq V
          /\ \A x \in V : Counts(q, x, UpSoFar(q, H, M, x), DownSoFar(q, H, M, x))
          /\ \A u \in M : Sources(u) \cap H \subseteq M
      BY DEF Mending
    <1>2. Linking(q, t, K, r)
      BY DEF Relinked
    <1>3. K \subseteq V \ H /\ t \in V /\ t \in H
      BY <1>1 DEF Hanging
    <1>4. /\ N \subseteq V \ H /\ t \notin N /\ Up(q, t) \subseteq M
          /\ \A x \in V \ M : t \notin Down(q, x)
      <2> HIDE DEF K
      <2>1. QED
        BY <1>3, MendingReach
    <1>5. \A x \in V :
              /\ Down(r, x) = IF t \in Down(q, x) THEN Down(q, x) \cup N ELSE Down(q, x)
              /\ Up(r, x) = IF x \in N THEN Up(q, x) \cup Up(q, t) ELSE Up(q, x)
      <2> HIDE DEF K
      <2>1. QED
        BY <1>2, <1>4, LinkingReach
    <1>6. /\ InPool(r) = V /\ WellFormed(r) /\ r.mapNextTx = q.mapNextTx /\ r.mapDeltas = q.mapDeltas
      BY <1>2, LinkingIs
    <1>7. \A k \in V : Parents(r)[k] = IF k \in K THEN Parents(q)[k] \cup {t} ELSE Parents(q)[k]
      <2> HIDE DEF K, V
      <2>1. \A k \in InPool(q) :
                 /\ Parents(r)[k] = IF k \in K THEN Parents(q)[k] \cup {t} ELSE Parents(q)[k]
                 /\ Children(r)[k] = IF k = t THEN Children(q)[k] \cup K ELSE Children(q)[k]
        BY <1>2, LinkingIs
      <2>2. QED
        BY <2>1 DEF V
    <1>8. \A u \in V : u \in K <=> t \in Sources(u) /\ u \notin H
      BY DEF Hanging
    <1> HIDE DEF K, N, V
    <1>9. SpendsKnown(r)
      BY <1>1, <1>6 DEF SpendsKnown, V
    <1>10. Linked(r, H, L)
      <2>1. ASSUME NEW u \in V, u \in H
            PROVE  Parents(r)[u] = Sources(u) \cap V /\ Parents(r)[u] \subseteq H
        BY <1>1, <1>7, <1>8, <2>1 DEF Linked, V
      <2>2. ASSUME NEW u \in V, u \notin H PROVE Parents(r)[u] = (Sources(u) \cap V) \ L
        <3>1. Parents(q)[u] = (Sources(u) \cap V) \ M
          BY <1>1, <2>2 DEF Linked, V
        <3>2. CASE u \in K
          <4>1. Parents(r)[u] = ((Sources(u) \cap V) \ M) \cup {t} /\ t \in Sources(u)
            BY <1>7, <1>8, <3>1, <3>2
          <4>2. QED
            BY <1>3, <4>1
        <3>3. CASE u \notin K
          <4>1. Parents(r)[u] = (Sources(u) \cap V) \ M /\ t \notin Sources(u)
            BY <1>7, <1>8, <2>2, <3>1, <3>3
          <4>2. QED
            BY <4>1
        <3>4. QED
          BY <3>2, <3>3
      <2>3. QED
        BY <1>6, <2>1, <2>2 DEF Linked
    <1>11. ASSUME NEW x \in V
           PROVE  /\ Up(q, x) \in SUBSET V /\ Down(q, x) \in SUBSET V
                  /\ Up(r, x) \in SUBSET V /\ Down(r, x) \in SUBSET V /\ x \in Down(q, x)
                  /\ t \in Up(r, x) <=> x \in Down(r, t)
      <2>1. /\ Opposite(V, Children(q), Parents(q)) /\ Opposite(V, Children(r), Parents(r))
            /\ Children(q) \in [V -> SUBSET V] /\ Parents(q) \in [V -> SUBSET V]
            /\ Children(r) \in [V -> SUBSET V] /\ Parents(r) \in [V -> SUBSET V]
        BY <1>1, <1>6, PoolGraph DEF V
      <2>2. /\ Up(q, x) \in SUBSET V /\ Down(q, x) \in SUBSET V /\ x \in Down(q, x)
            /\ Up(r, x) \in SUBSET V /\ Down(r, x) \in SUBSET V
        BY <1>6, <2>1, ReachOne DEF Up, Down, V
      <2>3. x \in Reach(V, Children(r), {t}) <=> t \in Reach(V, Parents(r), {x})
        BY <1>3, <2>1, ReachDual
      <2>4. QED
        BY <1>6, <2>2, <2>3 DEF Up, Down
    <1>12. ASSUME NEW x \in V
           PROVE  UpSoFar(r, H, L, x) = IF x \in B THEN UpSoFar(q, H, M, x) \cup {t} ELSE UpSoFar(q, H, M, x)
      <2>1. CASE x \in H
        BY <1>4, <1>5, <2>1 DEF UpSoFar
      <2>2. CASE x \notin H
        <3>1. UpSoFar(r, H, L, x) = Up(r, x) \ L /\ UpSoFar(q, H, M, x) = Up(q, x) \ M
          BY <2>2 DEF UpSoFar
        <3>2. Up(r, x) = IF x \in N THEN Up(q, x) \cup Up(q, t) ELSE Up(q, x)
          BY <1>5
        <3>3. x \in B <=> t \in Up(r, x)
          BY <1>11, <2>2
        <3>4. QED
          BY <1>4, <3>1, <3>2, <3>3
      <2>3. QED
        BY <2>1, <2>2
    <1>13. ASSUME NEW x \in V, x # t PROVE DownSoFar(r, H, L, x) = DownSoFar(q, H, M, x)
      <2>1. CASE x \in M
        <3>1. DownSoFar(r, H, L, x) = Down(r, x) \cap H /\ DownSoFar(q, H, M, x) = Down(q, x) \cap H
          BY <1>13, <2>1 DEF DownSoFar
        <3>2. QED
          BY <1>4, <1>5, <3>1
      <2>2. CASE x \notin M
        BY <1>4, <1>5, <2>2 DEF DownSoFar
      <2>3. QED
        BY <2>1, <2>2
    <1>14. /\ DownSoFar(r, H, L, t) = Down(r, t) /\ DownSoFar(q, H, M, t) = Down(r, t) \ B
           /\ t \notin UpSoFar(q, H, M, t) \/ t \notin B
      <2>1. Down(r, t) = Down(q, t) \cup N
        BY <1>3, <1>5, <1>11
      <2>2. QED
        BY <1>3, <1>4, <2>1 DEF DownSoFar
    <1>15. ASSUME NEW x \in V PROVE UpSoFar(q, H, M, x) \in SUBSET V /\ DownSoFar(q, H, M, x) \in SUBSET V
      BY <1>11 DEF UpSoFar, DownSoFar
    <1>16. ASSUME NEW S \in SUBSET V PROVE FeesOf(r, S) = FeesOf(q, S)
      <2>1. S \in SUBSET InPool(q) /\ S \subseteq InPool(r) /\ \A u \in S : r.mapTx[u].delta = q.mapTx[u].delta
        BY <1>2, <1>6 DEF Linking, V
      <2>2. QED
        BY <1>1, <1>6, <2>1, FeesSame
    <1>17. ASSUME NEW x \in V
           PROVE  Counts(r, x, UpSoFar(r, H, L, x), DownSoFar(r, H, L, x))
      <2> DEFINE e == q.mapTx[x]
                 up == UpSoFar(q, H, M, x)
                 dn == DownSoFar(q, H, M, x)
                 D == Down(r, t)
      <2>1. /\ e.delta = Delta(q, x) /\ e.nAnc = Cardinality(up) /\ e.feeAnc = FeesOf(q, up)
            /\ e.nDesc = Cardinality(dn) /\ e.feeDesc = FeesOf(q, dn)
        BY <1>1 DEF Counts
      <2>2. r.mapTx[x] =
              IF x \in B
              THEN [delta |-> e.delta, nAnc |-> e.nAnc + 1, feeAnc |-> e.feeAnc + ModifiedFee(q, t),
                    nDesc |-> e.nDesc, feeDesc |-> e.feeDesc]
              ELSE IF x = t
              THEN [delta |-> e.delta, nAnc |-> e.nAnc, feeAnc |-> e.feeAnc,
                    nDesc |-> e.nDesc + Cardinality(B), feeDesc |-> e.feeDesc + FeesOf(q, B)]
              ELSE e
        BY DEF Relinked, V
      <2>3. Delta(r, x) = Delta(q, x)
        BY <1>6 DEF Delta
      <2>4. up \in SUBSET V /\ dn \in SUBSET V /\ D \in SUBSET V /\ B \in SUBSET D
        BY <1>3, <1>11, <1>15
      <2>5. FeesOf(r, up) = FeesOf(q, up) /\ FeesOf(r, dn) = FeesOf(q, dn) /\ FeesOf(r, D) = FeesOf(q, D)
        BY <1>16, <2>4
      <2>6. CASE x \in B
        <3>1. UpSoFar(r, H, L, x) = up \cup {t} /\ x # t /\ x \notin H
          BY <1>3, <1>12, <2>6
        <3>2. DownSoFar(r, H, L, x) = dn
          BY <1>13, <3>1
        <3>3. t \notin up
          BY <3>1 DEF UpSoFar
        <3> HIDE DEF up, dn, e, D, B, L
        <3>4. /\ FeesOf(q, up \cup {t}) = FeesOf(q, up) + ModifiedFee(q, t)
              /\ Cardinality(up \cup {t}) = Cardinality(up) + 1
          BY <1>1, <1>3, <2>4, <3>3, FeesWith DEF V
        <3>5. FeesOf(r, up \cup {t}) = FeesOf(q, up \cup {t})
          BY <1>3, <1>16, <2>4
        <3>6. r.mapTx[x] = [delta |-> e.delta, nAnc |-> e.nAnc + 1, feeAnc |-> e.feeAnc + ModifiedFee(q, t),
                            nDesc |-> e.nDesc, feeDesc |-> e.feeDesc]
          BY <2>2, <2>6
        <3>7. QED
          BY <2>1, <2>3, <2>5, <3>1, <3>2, <3>4, <3>5, <3>6 DEF Counts
      <2>7. CASE x = t
        <3>1. x \notin B
          BY <1>3, <2>7
        <3>2. UpSoFar(r, H, L, x) = up
          BY <1>12, <3>1
        <3>3. DownSoFar(r, H, L, x) = D /\ dn = D \ B
          BY <1>14, <2>7
        <3> HIDE DEF up, dn, e, D, B, L
        <3>4. /\ FeesOf(q, D \ B) = FeesOf(q, D) - FeesOf(q, B) /\ Cardinality(D \ B) = Cardinality(D) - Cardinality(B)
              /\ FeesOf(q, D) \in Nat /\ FeesOf(q, B) \in Nat /\ Cardinality(D) \in Nat /\ Cardinality(B) \in Nat
          BY <1>1, <2>4, FeesWithout DEF V
        <3>5. r.mapTx[x] = [delta |-> e.delta, nAnc |-> e.nAnc, feeAnc |-> e.feeAnc,
                            nDesc |-> e.nDesc + Cardinality(B), feeDesc |-> e.feeDesc + FeesOf(q, B)]
          BY <2>2, <2>7, <3>1
        <3>6. e.nDesc + Cardinality(B) = Cardinality(D) /\ e.feeDesc + FeesOf(q, B) = FeesOf(q, D)
          BY <2>1, <3>3, <3>4
        <3>7. QED
          BY <2>1, <2>3, <2>5, <3>2, <3>3, <3>5, <3>6 DEF Counts
      <2>8. CASE x \notin B /\ x # t
        <3>1. r.mapTx[x] = e /\ UpSoFar(r, H, L, x) = up /\ DownSoFar(r, H, L, x) = dn
          BY <1>12, <1>13, <2>2, <2>8
        <3> HIDE DEF up, dn, e
        <3>2. QED
          BY <2>1, <2>3, <2>5, <3>1 DEF Counts
      <2>9. QED
        BY <2>6, <2>7, <2>8
    <1>18. /\ L \subseteq H /\ \A u \in L : Sources(u) \cap H \subseteq L
      BY <1>1
    <1>19. QED
      <2> HIDE DEF L
      <2>1. Mending(r, H, L)
        BY <1>1, <1>6, <1>9, <1>10, <1>17, <1>18 DEF Mending
      <2>2. QED
        BY <1>6, <2>1 DEF L, V

(* Before the first turn and after the last one.                           *)
LEMMA MendingFirst ==
    ASSUME NEW q, NEW H, NEW C, NEW W, NEW X, Sound(q, H, H, C, W, X), H \subseteq InPool(q)
    PROVE  Mending(q, H, H)
    <1> DEFINE V == InPool(q)
               nx == Children(q)
               pv == Parents(q)
    <1>1. WellFormed(q) /\ SpendsKnown(q) /\ Linked(q, H, H) /\ Counted(q)
      BY DEF Sound
    <1>2. Opposite(V, nx, pv) /\ nx \in [V -> SUBSET V] /\ pv \in [V -> SUBSET V]
      BY <1>1, PoolGraph
    <1>3. \A x \in V : (x \in H => pv[x] \subseteq H) /\ (x \notin H => pv[x] \cap H = {})
      BY <1>1 DEF Linked
    <1>4. \A x : Up(q, x) = Reach(V, pv, {x}) /\ Down(q, x) = Reach(V, nx, {x})
      BY DEF Up, Down
    <1> HIDE DEF nx, pv
    <1>5. ASSUME NEW x \in V, x \notin H PROVE Up(q, x) \ H = Up(q, x)
      <2> DEFINE T == V \ H
      <2>1. x \in T /\ \A y \in V \cap T : pv[y] \subseteq T
        BY <1>2, <1>3, <1>5
      <2> HIDE DEF T, V
      <2>2. Reach(V, pv, {x}) \subseteq T
        BY <1>2, <2>1, ReachOneLeast
      <2>3. QED
        BY <1>4, <2>2 DEF T
    <1>6. ASSUME NEW x \in V, x \in H PROVE Down(q, x) \cap H = Down(q, x)
      <2>1. x \in H /\ \A y \in V \cap H : nx[y] \subseteq H
        BY <1>2, <1>3, <1>6 DEF Opposite
      <2> HIDE DEF V
      <2>2. Reach(V, nx, {x}) \subseteq H
        BY <1>2, <2>1, ReachOneLeast
      <2>3. QED
        BY <1>4, <2>2
    <1>7. \A x \in V : UpSoFar(q, H, H, x) = Up(q, x) /\ DownSoFar(q, H, H, x) = Down(q, x)
      BY <1>5, <1>6 DEF UpSoFar, DownSoFar
    <1>8. QED
      BY <1>1, <1>7 DEF Mending, Counted

(* When none is left to link, links and totals are exact.                  *)
LEMMA MendingLast ==
    ASSUME NEW q, NEW H, NEW E, E = {}, Mending(q, H, E)
    PROVE  WellFormed(q) /\ SpendsKnown(q) /\ Linked(q, E, E) /\ Counted(q)
    <1>1. Linked(q, E, E)
      BY DEF Mending, Linked
    <1>2. \A x \in InPool(q) : UpSoFar(q, H, E, x) = Up(q, x) /\ DownSoFar(q, H, E, x) = Down(q, x)
      BY DEF UpSoFar, DownSoFar
    <1>3. QED
      BY <1>1, <1>2 DEF Mending, Counted

(* UpdateTransactionsFromBlock completes the links and the totals.         *)
Unmended(q, v, C, W, X) ==
    /\ Sound(q, ToSet(v), ToSet(v), C, W, X) /\ v \in Seq(Tx) /\ IsInjective(v) /\ ToSet(v) \subseteq InPool(q)
    /\ \A i, j \in DOMAIN v : i <= j => v[j] \notin Sources(v[i])
Claiming(q, z) ==
    InPool(z) = InPool(q) /\ z.mapAssetToHash = q.mapAssetToHash /\ z.mapReissuedAssets = q.mapReissuedAssets

(* UpdateTransactionsFromBlock mends the pool: it is called with the       *)
(* transactions parents first and goes through them last one first.        *)
LEMMA SoundMended ==
    ASSUME NEW q, NEW v, NEW C, NEW W, NEW X, Unmended(q, v, C, W, X), NEW E, E = {}
    PROVE  Sound(UpdateTransactionsFromBlock(q, v), E, E, C, W, X)
    <1> DEFINE n == Len(v)
               H == ToSet(v)
               w == Reverse(v)
               r == UpdateTransactionsFromBlock(q, v)
               k == <<"update", H>>
    <1>1. /\ Sound(q, H, H, C, W, X) /\ v \in Seq(Tx) /\ IsInjective(v) /\ H \subseteq InPool(q)
          /\ \A i, j \in DOMAIN v : i <= j => v[j] \notin Sources(v[i])
      BY DEF Unmended
    <1>2. n \in Nat /\ DOMAIN v = 1..n
      BY <1>1
    <1>3. DOMAIN w = 1..n /\ \A i \in 1..n : w[i] = v[(n - i) + 1] /\ (n - i) + 1 \in 1..n
      BY <1>2 DEF Reverse
    <1>4. r = UpdateFold(q, w, H)
      BY DEF UpdateTransactionsFromBlock, UpdateFold
    <1> HIDE DEF r, w, n
    <1>5. PICK h : Steps(h, n, k, w, q) /\ h[n] = UpdateFold(q, w, H)
      <2> HIDE DEF H
      <2>1. QED
        BY <1>2, <1>3, UpdateTurns
    <1>6. h[0] = q /\ \A i \in 1..n : h[i] = UpdateForDescendants(h[i - 1], w[i], H)
      <2>1. h[0] = q /\ \A i \in 1..n : h[i] = Turn(k, h[i - 1], w[i])
        <3> HIDE DEF k
        <3>1. QED
          BY <1>5 DEF Steps
      <2>2. QED
        BY <2>1 DEF Turn
    <1> HIDE DEF k
    <1> DEFINE Left(i) == {v[j] : j \in 1..(n - i)}
               Fit(z, i) == Mending(z, H, Left(i)) /\ Claiming(q, z)
               T == {i \in 0..n : Fit(h[i], i)}
    <1>7. 0 \in T
      <2>1. Left(0) = H
        BY <1>2 DEF ToSet
      <2>2. Mending(q, H, H)
        <3> HIDE DEF H
        <3>1. QED
          BY <1>1, MendingFirst
      <2>3. QED
        <3>1. Fit(q, 0)
          BY <2>1, <2>2 DEF Claiming
        <3> HIDE DEF Fit
        <3>2. QED
          BY <1>2, <1>6, <3>1
    <1>8. ASSUME NEW i \in 1..n, i - 1 \in T PROVE i \in T
      <2> DEFINE z == h[i - 1]
                 M == Left(i - 1)
                 t == w[i]
                 y == UpdateForDescendants(z, t, H)
      <2>1. h[i] = y
        BY <1>6
      <2>2. Mending(z, H, M) /\ Claiming(q, z)
        BY <1>8
      <2>3. t = v[(n - i) + 1] /\ (n - i) + 1 \in 1..n
        BY <1>3
      <2>4. t \in M
        BY <1>2, <2>3
      <2>5. ASSUME NEW u \in M PROVE t \notin Sources(u)
        <3>1. PICK j \in 1..(n - (i - 1)) : u = v[j]
          OBVIOUS
        <3>2. j \in 1..n /\ j <= (n - i) + 1
          BY <1>2
        <3>3. QED
          BY <1>1, <1>2, <2>3, <3>1, <3>2
      <2>6. Left(i) = M \ {t}
        <3>1. \A j \in 1..(n - i) : j \in 1..(n - (i - 1)) /\ j \in 1..n /\ j # (n - i) + 1
          BY <1>2
        <3>2. \A j \in 1..(n - (i - 1)) : j \in 1..(n - i) \/ j = (n - i) + 1
          BY <1>2
        <3>3. \A j \in 1..n : v[j] = t => j = (n - i) + 1
          BY <1>1, <1>2, <2>3 DEF IsInjective
        <3>4. QED
          BY <2>3, <3>1, <3>2, <3>3
      <2>7. M \subseteq H /\ WellFormed(z) /\ SpendsKnown(z) /\ H \subseteq InPool(z)
        BY <2>2 DEF Mending
      <2> HIDE DEF z, t, M, H, y, Left
      <2>8. Relinked(z, H, t, y)
        BY <2>4, <2>7, RelinkedIs DEF y
      <2>9. Mending(y, H, M \ {t}) /\ InPool(y) = InPool(z)
        BY <2>2, <2>4, <2>5, <2>8, MendingTurn
      <2>10. y.mapAssetToHash = z.mapAssetToHash /\ y.mapReissuedAssets = z.mapReissuedAssets
        BY <2>8 DEF Relinked, Linking
      <2>11. QED
        BY <2>1, <2>2, <2>6, <2>9, <2>10 DEF Claiming
    <1>9. n \in T
      <2> HIDE DEF T
      <2>1. 0..n \subseteq T
        BY <1>2, <1>7, <1>8, UpTo
      <2>2. QED
        BY <1>2, <2>1
    <1>10. Mending(r, H, E) /\ Claiming(q, r)
      <2>1. Left(n) = {}
        BY <1>2
      <2>2. QED
        BY <1>4, <1>5, <1>9, <2>1
    <1>11. WellFormed(r) /\ SpendsKnown(r) /\ Linked(r, E, E) /\ Counted(r)
      <2> HIDE DEF H
      <2>1. QED
        BY <1>10, MendingLast
    <1>12. Supplied(r, C, W) /\ InPool(r) \cap C = {} /\ Claimed(r, X) /\ Free(r, C)
      BY <1>1, <1>10 DEF Sound, Claiming, Supplied, Claimed, Free
    <1>13. QED
      BY <1>11, <1>12 DEF Sound, r

(* removeForReorg takes out what is not final.                             *)
LEMMA SoundForReorg ==
    ASSUME NEW q, NEW C, NEW W, NEW X, NEW E, E = {}, Sound(q, E, E, C, W, X), NEW ch \in Seq(Block)
    PROVE  LET r == removeForReorg(q, Len(ch) + 1)
           IN  Sound(r, E, E, C, W, X) /\ Ripe(r, ch)
    <1> DEFINE F == {t \in InPool(q) : LockHeight[t] > Len(ch) + 1}
               S == CalculateDescendants(q, F)
               r == RemoveStaged(q, S, FALSE)
    <1>1. removeForReorg(q, Len(ch) + 1) = r
      BY DEF removeForReorg
    <1>2. F \in SUBSET InPool(q) /\ F \cap E = {} /\ E \subseteq E
      OBVIOUS
    <1>3. \A t \in InPool(q) \ F : ~(LockHeight[t] > Len(ch) + 1)
      OBVIOUS
    <1> HIDE DEF F
    <1>4. Sound(r, E, E, C, W, X) /\ InPool(r) = InPool(q) \ S /\ F \subseteq S
      BY <1>2, SoundBelow
    <1> HIDE DEF r, S
    <1>5. \A t \in InPool(r) : ~(LockHeight[t] > Len(ch) + 1)
      BY <1>3, <1>4
    <1>6. Ripe(r, ch)
      <2>1. InPool(r) \subseteq Tx
        BY <1>4 DEF Sound, WellFormed
      <2>2. \A t \in InPool(r) : LockHeight[t] \in Nat
        BY <2>1, TxAssumption
      <2>3. QED
        BY <1>5, <2>2 DEF Ripe
    <1>7. QED
      BY <1>1, <1>4, <1>6

(* The end of a reorganisation keeps the invariant: the pool is mended,    *)
(* and what is not final goes.                                             *)
LEMMA StepFinishReorg ==
    ASSUME IInv, FinishReorg
    PROVE  IInv'
    <1> DEFINE E == {}
               C == ChainTx(chain)
               q == UpdateTransactionsFromBlock(pool, vHashUpdate)
               p == removeForReorg(q, Len(chain) + 1)
    <1>1. /\ disconnectpool = <<>> /\ disconnectpool' = <<>> /\ vHashUpdate' = <<>> /\ phase' = "idle"
          /\ chain' = chain /\ file' = file
      BY DEF FinishReorg
    <1>2. PICK old \in SUBSET InPool(p) : pool' \in LimitMempoolSize(p, old)
      BY Zenon DEF FinishReorg
    <1>3. Queued = E /\ Queued' = E /\ Again' = E
      BY <1>1 DEF Queued, Again, ToSet
    <1>4. ChainSound /\ AgainSound /\ chain \in Seq(Block) /\ Sound(pool, Again, Again, C, E, E)
      BY <1>3 DEF IInv, PoolSound, ChainSound
    <1> HIDE DEF E
    <1>5. Unmended(pool, vHashUpdate, C, E, E)
      BY <1>4 DEF Unmended, AgainSound, Again
    <1>6. Sound(q, E, E, C, E, E)
      BY <1>5, SoundMended DEF E
    <1> HIDE DEF q
    <1>7. Sound(p, E, E, C, E, E) /\ Ripe(p, chain)
      BY <1>4, <1>6, SoundForReorg DEF E
    <1> HIDE DEF p
    <1>8. Sound(pool', E, E, C, E, E) /\ Less(pool', p)
      <2>1. Sound(p, {}, {}, C, E, E)
        BY <1>7 DEF E
      <2>2. Sound(pool', {}, {}, C, E, E) /\ Less(pool', p)
        BY <1>2, <2>1, SoundLimit
      <2>3. QED
        BY <2>2 DEF E
    <1>9. Ripe(pool', chain)
      BY <1>7, <1>8 DEF Ripe, Less
    <1>10. ChainSound' /\ FileSound'
      BY <1>1 DEF IInv, ChainSound, FileSound
    <1>11. QueueSound'
      BY <1>1, <1>3 DEF QueueSound, IsInjective, Apart, E
    <1>12. AgainSound'
      BY <1>1, <1>3 DEF AgainSound, IsInjective, E
    <1>13. PoolSound'
      BY <1>1, <1>3, <1>8, <1>9 DEF PoolSound, Ripe, E
    <1>14. QED
      BY <1>1, <1>10, <1>11, <1>12, <1>13 DEF IInv

-----------------------------------------------------------------------------
(* The pool is sound at every step of every run: when transactions are     *)
(* accepted, replaced and evicted, blocks connected and disconnected, and  *)
(* a reorganisation interrupted by LoadMempool or not.                     *)
LEMMA StepKeeps ==
    ASSUME Unrivalled, IInv, [Next]_vars
    PROVE  IInv'
    <1>1. CASE \E t \in Tx : AcceptToMemoryPool(t)
      BY <1>1, StepAccept
    <1>2. CASE \E b \in Block : ConnectTip(b)
      BY <1>2, StepConnect
    <1>3. CASE DisconnectTip
      BY <1>3, StepDisconnect
    <1>4. CASE ReAccept
      BY <1>4, StepReAccept
    <1>5. CASE FinishReorg
      BY <1>5, StepFinishReorg
    <1>6. CASE \E t \in Prioritised : Prioritise(t)
      BY <1>6, StepPrioritise
    <1>7. CASE Restart
      BY <1>7, StepRestart
    <1>8. CASE LoadDelta
      BY <1>8, StepLoadDelta
    <1>9. CASE LoadTx
      BY <1>9, StepLoadTx
    <1>10. CASE LoadDeltas
      BY <1>10, StepLoadDeltas
    <1>11. CASE UNCHANGED vars
      <2>1. UNCHANGED <<chain, phase, disconnectpool, vHashUpdate, file>> /\ pool' = pool
        BY <1>11 DEF vars
      <2>2. Queued' = Queued /\ Again' = Again
        BY <2>1 DEF Queued, Again
      <2>3. ChainSound' /\ QueueSound' /\ AgainSound' /\ FileSound'
        BY <2>1, <2>2 DEF IInv, ChainSound, QueueSound, AgainSound, FileSound
      <2>4. PoolSound'
        BY <2>1, <2>2 DEF IInv, PoolSound
      <2>5. QED
        BY <2>1, <2>3, <2>4 DEF IInv
    <1>12. QED
      BY <1>1, <1>2, <1>3, <1>4, <1>5, <1>6, <1>7, <1>8, <1>9, <1>10, <1>11 DEF Next

(* IInv, which is inductive, holds in every state: the chain, the queue of *)
(* disconnected transactions, the transactions accepted again and the pool *)
(* fit together.                                                           *)
THEOREM Invariant ==
    ASSUME Unrivalled
    PROVE  Spec => []IInv
    <1>1. Init => IInv
      BY StartsSound
    <1>2. IInv /\ [Next]_vars => IInv'
      BY StepKeeps
    <1>3. QED
      BY <1>1, <1>2, PTL DEF Spec

(* The links of the pool and mapNextTx are those its transactions' inputs  *)
(* define: UpdateTransactionsFromBlock leaves no link out.                 *)
THEOREM LinksRight ==
    ASSUME Unrivalled
    PROVE  Spec => []LinksExact
    <1>1. IInv => LinksExact
      <2>1. SUFFICES ASSUME IInv, phase = "idle"
            PROVE  /\ pool.mapLinks = [t \in InPool(pool) |->
                         [parents |-> Sources(t) \cap InPool(pool),
                          children |-> {u \in InPool(pool) : t \in Sources(u)}]]
                   /\ DOMAIN pool.mapNextTx = UNION {ToSet(vin[t]) : t \in InPool(pool)}
                   /\ \A t \in InPool(pool) : \A o \in ToSet(vin[t]) : pool.mapNextTx[o] = t
        BY DEF LinksExact
      <2>2. WellFormed(pool) /\ SpendsKnown(pool) /\ Linked(pool, {}, {})
        BY <2>1, IdleIs DEF Idle, Sound
      <2>3. \A t \in InPool(pool) : Parents(pool)[t] = Sources(t) \cap InPool(pool)
        BY <2>2 DEF Linked
      <2>4. ASSUME NEW t \in InPool(pool)
            PROVE  Children(pool)[t] = {u \in InPool(pool) : t \in Sources(u)}
        <3>1. Children(pool)[t] \subseteq InPool(pool)
          BY <2>2, PoolGraph
        <3>2. \A u \in InPool(pool) : u \in Children(pool)[t] <=> t \in Parents(pool)[u]
          BY <2>2 DEF WellFormed
        <3>3. QED
          BY <2>3, <3>1, <3>2
      <2>5. /\ pool.mapLinks \in [InPool(pool) -> [parents : SUBSET InPool(pool), children : SUBSET InPool(pool)]]
            /\ \A t \in InPool(pool) : /\ pool.mapLinks[t].parents = Parents(pool)[t]
                                       /\ pool.mapLinks[t].children = Children(pool)[t]
        BY <2>2 DEF WellFormed, Parents, Children
      <2>6. ASSUME NEW t \in InPool(pool)
            PROVE  pool.mapLinks[t] = [parents |-> Sources(t) \cap InPool(pool),
                                       children |-> {u \in InPool(pool) : t \in Sources(u)}]
        BY <2>3, <2>4, <2>5
      <2>7. pool.mapLinks = [t \in InPool(pool) |-> [parents |-> Sources(t) \cap InPool(pool),
                                       children |-> {u \in InPool(pool) : t \in Sources(u)}]]
        BY <2>5, <2>6
      <2>8. QED
        BY <2>2, <2>7 DEF SpendsKnown, Spends
    <1>2. QED
      BY <1>1, Invariant, PTL

(* Every entry's ancestor and descendant totals are what its links make    *)
(* them, during a reorganisation too: what UpdateForRemoveFromMempool      *)
(* subtracts was counted before.                                           *)
THEOREM TotalsRight ==
    ASSUME Unrivalled
    PROVE  Spec => []TotalsExact
    <1>1. IInv => TotalsExact
      <2>1. SUFFICES ASSUME IInv, NEW t \in InPool(pool)
            PROVE  LET up == CalculateAncestors(pool, {t})
                       down == CalculateDescendants(pool, {t})
                   IN  pool.mapTx[t] = [delta |-> Delta(pool, t),
                             nAnc |-> Cardinality(up), feeAnc |-> FeesOf(pool, up),
                             nDesc |-> Cardinality(down), feeDesc |-> FeesOf(pool, down)]
        BY DEF TotalsExact
      <2>2. WellFormed(pool) /\ Counted(pool)
        BY <2>1 DEF IInv, PoolSound, Sound
      <2>3. {t} \in SUBSET InPool(pool)
        OBVIOUS
      <2>4. CalculateAncestors(pool, {t}) = Up(pool, t) /\ CalculateDescendants(pool, {t}) = Down(pool, t)
        BY <2>2, <2>3, AncestorsAre, DescendantsAre DEF Up, Down
      <2>5. Counts(pool, t, Up(pool, t), Down(pool, t)) /\ pool.mapTx[t] \in Entry
        BY <2>2 DEF Counted, WellFormed
      <2> DEFINE e == pool.mapTx[t]
      <2> HIDE DEF e
      <2>6. e = [delta |-> e.delta, nAnc |-> e.nAnc, feeAnc |-> e.feeAnc, nDesc |-> e.nDesc, feeDesc |-> e.feeDesc]
        BY <2>5 DEF e, Entry
      <2>7. /\ e.delta = Delta(pool, t)
            /\ e.nAnc = Cardinality(Up(pool, t)) /\ e.feeAnc = FeesOf(pool, Up(pool, t))
            /\ e.nDesc = Cardinality(Down(pool, t)) /\ e.feeDesc = FeesOf(pool, Down(pool, t))
        BY <2>5 DEF Counts, e
      <2>8. QED
        BY <2>4, <2>6, <2>7 DEF e
    <1>2. QED
      BY <1>1, Invariant, PTL

(* Whatever is in the pool can be mined with its ancestors: its inputs are *)
(* there, the chain does not hold it, and it is final.                     *)
THEOREM InputsThere ==
    ASSUME Unrivalled
    PROVE  Spec => []InputsAvailable
    <1>1. IInv => InputsAvailable
      <2>1. SUFFICES ASSUME IInv, phase = "idle", NEW t \in InPool(pool)
            PROVE  /\ t \notin ChainTx(chain) /\ LockHeight[t] <= Len(chain) + 1
                   /\ \A o \in ToSet(vin[t]) : o[1] \in InPool(pool) \/ HaveCoin(chain, o)
        BY DEF InputsAvailable
      <2>2. /\ Supplied(pool, ChainTx(chain), {}) /\ InPool(pool) \cap ChainTx(chain) = {} /\ Ripe(pool, chain)
        BY <2>1, IdleIs DEF Idle, Sound
      <2>3. QED
        BY <2>2 DEF Supplied, Ripe, Coin, HaveCoin, Spends
    <1>2. QED
      BY <1>1, Invariant, PTL

(* The pool's asset names are claimed by the transactions that issue them, *)
(* free in the chain, and released with them; every reissue holds its lock.*)
THEOREM ClaimsRight ==
    ASSUME Unrivalled
    PROVE  Spec => []ClaimsExact
    <1>1. IInv => ClaimsExact
      <2>1. SUFFICES ASSUME IInv, phase = "idle"
            PROVE  /\ \A t \in InPool(pool) : Issue[t] # None =>
                         /\ Issue[t] \in DOMAIN pool.mapAssetToHash /\ pool.mapAssetToHash[Issue[t]] = t
                         /\ Issue[t] \notin Issued(chain)
                   /\ ToSet(pool.mapAssetToHash) \subseteq InPool(pool)
                   /\ \A t \in InPool(pool) : Reissue[t] # None =>
                         /\ Reissue[t] \in DOMAIN pool.mapReissuedAssets
                         /\ pool.mapReissuedAssets[Reissue[t]] = t
        BY DEF ClaimsExact
      <2>2. Claimed(pool, {}) /\ Free(pool, ChainTx(chain))
        BY <2>1, IdleIs DEF Idle, Sound
      <2>3. Issued(chain) = Names(ChainTx(chain))
        BY DEF Issued, Names
      <2>4. ToSet(pool.mapAssetToHash) \subseteq InPool(pool)
        BY <2>2 DEF Claimed, ToSet
      <2>5. QED
        BY <2>2, <2>3, <2>4 DEF Claimed, Free
    <1>2. QED
      BY <1>1, Invariant, PTL
=============================================================================
