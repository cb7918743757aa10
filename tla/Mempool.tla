------------------------------- MODULE Mempool -------------------------------
(***************************************************************************)
(* The memory pool (CTxMemPool in src/src/txmempool.cpp) and the code of   *)
(* src/src/validation.cpp that feeds it: transactions accepted from peers, *)
(* blocks connected and disconnected, the transactions of disconnected     *)
(* blocks accepted again, fees prioritised, old and cheap packages         *)
(* evicted, and the pool saved and loaded over a restart.                  *)
(*                                                                         *)
(* The pool keeps, beside its transactions, four things that repeat each   *)
(* other: the links between parents and children, every entry's totals     *)
(* over its ancestors and descendants, the outputs spent, and the asset    *)
(* names claimed.  During a reorganisation the links are knowingly wrong;  *)
(* UpdateTransactionsFromBlock mends them.                                 *)
(*                                                                         *)
(* All transactions have the same size, so that sizes add up as counts do. *)
(* cs_main is held from the first disconnection of a reorganisation to its *)
(* end; only LoadMempool gets in between, to restore fee deltas with       *)
(* pool.cs alone.                                                          *)
(***************************************************************************)
EXTENDS Integers, FiniteSets, FiniteSetsExt, Sequences, SequencesExt, Functions

CONSTANTS
    Tx,                 \* the transactions there may be
    Base,               \* source of the coins that were always there
    vin,                \* the outputs a transaction spends: a sequence of <<source, n>>
    Fee,                \* the fee it pays
    Coinbase,           \* coinbase transactions
    Standard,           \* those that pass the policy checks
    Signals,            \* those that signal replacement in nSequence
    LockHeight,         \* first height at which it is final
    Issue, Reissue,     \* name of the asset it issues or reissues, or None
    BaseAssets,         \* names issued below the base
    Block,              \* the blocks there may be: sequences of transactions
    None,
    EnableReplacement,  \* fEnableReplacement
    MinRelayFee,        \* minRelayTxFee, and the fee a replacement must add
    AncestorLimit, DescendantLimit,
    MaxMempool,         \* -maxmempool, as a number of transactions
    MaxDisconnected,    \* MAX_DISCONNECTED_TX_POOL_SIZE, as a number of transactions
    MaxHeight,          \* bound on the blocks above the base
    Prioritised,        \* transactions the operator may prioritise, once each
    MaxRestarts         \* bound on restarts

Outpoint == (Tx \cup {Base}) \X Nat
Sources(t) == {o[1] : o \in ToSet(vin[t])}

ASSUME TxAssumption ==
    /\ IsFiniteSet(Tx) /\ Base \notin Tx /\ Coinbase \subseteq Tx /\ MaxDisconnected \in Nat
    /\ vin \in [Tx -> Seq(Outpoint)] /\ Fee \in [Tx -> Nat] /\ LockHeight \in [Tx -> Nat]
    /\ \A t \in Tx : vin[t] = <<>> <=> t \in Coinbase
    /\ Block \subseteq Seq(Tx) /\ Standard \subseteq Tx \ Coinbase
    /\ \A b \in Block : \A i \in DOMAIN b : b[i] \in Coinbase => i = 1

VARIABLES
    chain,          \* the blocks of the active chain above the base
    pool,           \* the members of CTxMemPool, and mapReissuedAssets
    phase,          \* "idle", or how far a reorganisation is
    disconnectpool, \* DisconnectedBlockTransactions::queuedTx, oldest first
    vHashUpdate,    \* transactions of disconnected blocks accepted again
    file,           \* what LoadMempool has still to read of mempool.dat
    restarts

vars == <<chain, pool, phase, disconnectpool, vHashUpdate, file, restarts>>

(* std::map: erase, operator[], and insert, which keeps what is there.     *)
Without(f, S) == Restrict(f, DOMAIN f \ S)
Put(f, k, v) == [x \in DOMAIN f \cup {k} |-> IF x = k THEN v ELSE f[x]]
Insert(f, K, v) == [x \in DOMAIN f \cup K |-> IF x \in DOMAIN f THEN f[x] ELSE v]

EmptyPool == [mapTx |-> <<>>, mapLinks |-> <<>>, mapNextTx |-> <<>>, mapDeltas |-> <<>>,
              mapAssetToHash |-> <<>>, mapReissuedAssets |-> <<>>]
InPool(p) == DOMAIN p.mapTx
Loaded == [txs |-> <<>>, deltas |-> <<>>]

-----------------------------------------------------------------------------
(* Ancestors and descendants, along mapLinks.                              *)

Closure(p, Step(_), S) ==
    LET depth == Cardinality(InPool(p))
        within[n \in 0..depth] ==
            IF n = 0 THEN S ELSE within[n - 1] \cup UNION {Step(t) : t \in within[n - 1]}
    IN  within[depth]
CalculateAncestors(p, S) == Closure(p, LAMBDA t : p.mapLinks[t].parents, S)
CalculateDescendants(p, S) == Closure(p, LAMBDA t : p.mapLinks[t].children, S)

ModifiedFee(p, t) == Fee[t] + p.mapTx[t].delta
FeesOf(p, S) == MapThenSumSet(LAMBDA t : ModifiedFee(p, t), S)
Delta(p, t) == IF t \in DOMAIN p.mapDeltas THEN p.mapDeltas[t] ELSE 0

(* UpdateAncestorState and UpdateDescendantState, by a number of           *)
(* transactions and their fees.                                            *)
MoreAncestors(e, n, fees) == [e EXCEPT !.nAnc = @ + n, !.feeAnc = @ + fees]
MoreDescendants(e, n, fees) == [e EXCEPT !.nDesc = @ + n, !.feeDesc = @ + fees]

(* UpdateForRemoveFromMempool: every entry that stays forgets the removed  *)
(* ones, its ancestors only if updateDescendants.                          *)
UpdateForRemoval(p, S, updateDescendants) ==
    LET below == [r \in S |-> IF updateDescendants THEN CalculateDescendants(p, {r}) ELSE {}]
        above == [r \in S |-> CalculateAncestors(p, {r})]
        up(k)   == {r \in S : k \in below[r]}
        down(k) == {r \in S : k \in above[r]}
    IN  [p EXCEPT
           !.mapTx = [k \in DOMAIN @ \ S |->
                        MoreAncestors(
                          MoreDescendants(@[k], -Cardinality(down(k)), -FeesOf(p, down(k))),
                          -Cardinality(up(k)), -FeesOf(p, up(k)))],
           !.mapLinks = [k \in DOMAIN @ \ S |->
                        [parents  |-> @[k].parents \ {r \in S : k \in p.mapLinks[r].children},
                         children |-> @[k].children \ {r \in S : k \in p.mapLinks[r].parents}]]]

(* RemoveStaged, with removeUnchecked for each of S.                       *)
RemoveStaged(p, S, updateDescendants) ==
    LET q == UpdateForRemoval(p, S, updateDescendants)
    IN  [q EXCEPT !.mapNextTx = Without(@, UNION {ToSet(vin[t]) : t \in S}),
                  !.mapAssetToHash = RestrictValues(@, LAMBDA t : t \notin S),
                  !.mapReissuedAssets = RestrictValues(@, LAMBDA t : t \notin S)]

(* Mutant of removeRecursive: what is not in the pool has no spenders.     *)
MutRemoveRecursive(p, t) ==
    RemoveStaged(p, CalculateDescendants(p, {t} \cap InPool(p)), FALSE)

(* removeRecursive: the transaction with its descendants, or, if it is not *)
(* in the pool, whatever spends its outputs.                               *)
removeRecursive(p, t) ==
    LET spenders == {p.mapNextTx[o] : o \in {o \in DOMAIN p.mapNextTx : o[1] = t}}
        from == IF t \in InPool(p) THEN {t} ELSE spenders
    IN  RemoveStaged(p, CalculateDescendants(p, from), FALSE)

ClearPrioritisation(p, t) == [p EXCEPT !.mapDeltas = Without(@, {t})]

removeConflicts(p, t) ==
    LET remove(q, o) ==
            IF o \notin DOMAIN q.mapNextTx THEN q
            ELSE LET c == q.mapNextTx[o]
                 IN  IF c = t THEN q ELSE removeRecursive(ClearPrioritisation(q, c), c)
    IN  FoldLeft(remove, p, vin[t])

(* Mutant of removeConfirmed: its descendants go on counting it.           *)
MutRemoveConfirmed(p, t) ==
    LET q == IF t \in InPool(p) THEN RemoveStaged(p, {t}, FALSE) ELSE p
    IN  ClearPrioritisation(removeConflicts(q, t), t)

(* The loop of removeForBlock, for a transaction of the block and for one  *)
(* whose asset the block has issued.                                       *)
removeConfirmed(p, t) ==
    LET q == IF t \in InPool(p) THEN RemoveStaged(p, {t}, TRUE) ELSE p
    IN  ClearPrioritisation(removeConflicts(q, t), t)

(* Mutant of removeForBlock: a rival issue stays in the pool.              *)
MutRemoveForBlock(p, b) == FoldLeft(removeConfirmed, p, b)

(* removeForBlock; a rival issue is removed like a confirmed transaction.  *)
removeForBlock(p, b) ==
    LET names == {Issue[t] : t \in ToSet(b)} \ {None}
        trans == {p.mapAssetToHash[n] : n \in names \cap DOMAIN p.mapAssetToHash} \cap InPool(p)
    IN  FoldSet(LAMBDA t, q : removeConfirmed(q, t), FoldLeft(removeConfirmed, p, b), trans)

-----------------------------------------------------------------------------
(* What the active chain holds.                                            *)

ChainTx(ch) == UNION {ToSet(ch[i]) : i \in DOMAIN ch}
HaveCoin(ch, o) == /\ o[1] \in ChainTx(ch) \cup {Base}
                   /\ \A t \in ChainTx(ch) : o \notin ToSet(vin[t])
Issued(ch) == BaseAssets \cup ({Issue[t] : t \in ChainTx(ch)} \ {None})

(* CheckTxAssets: mapReissuedAssets is consulted for blocks as well.       *)
CheckTxAssets(p, ch, t, fCheckMempool) ==
    /\ Issue[t] # None => /\ Issue[t] \notin Issued(ch)
                          /\ fCheckMempool => Issue[t] \notin DOMAIN p.mapAssetToHash
    /\ Reissue[t] # None => /\ Reissue[t] \in Issued(ch)
                            /\ Reissue[t] \in DOMAIN p.mapReissuedAssets
                                  => p.mapReissuedAssets[Reissue[t]] = t

-----------------------------------------------------------------------------
(* AcceptToMemoryPoolWorker.                                               *)

Conflicts(p, t) == {p.mapNextTx[o] : o \in ToSet(vin[t]) \cap DOMAIN p.mapNextTx}
SetAncestors(p, t) == CalculateAncestors(p, Sources(t) \cap InPool(p))

(* The rules for replacing transactions of the pool.                       *)
MayReplace(p, t) ==
    LET direct == Conflicts(p, t)
        all == CalculateDescendants(p, direct)
        fees == Fee[t] + Delta(p, t)
    IN  /\ direct # {} => EnableReplacement /\ direct \subseteq Signals
        /\ direct \cap SetAncestors(p, t) = {}
        /\ \A c \in direct : fees > ModifiedFee(p, c)
        /\ direct # {} => (Sources(t) \cap InPool(p)) \subseteq UNION {Sources(c) : c \in direct}
        /\ direct # {} => fees - FeesOf(p, all) >= MinRelayFee

WithinLimits(p, t) ==
    /\ Cardinality(SetAncestors(p, t)) + 1 <= AncestorLimit
    /\ \A a \in SetAncestors(p, t) : p.mapTx[a].nDesc + 1 <= DescendantLimit

Acceptable(p, ch, t, bypass_limits) ==
    /\ t \in Standard /\ LockHeight[t] <= Len(ch) + 1
    /\ t \notin InPool(p)
    /\ \A o \in ToSet(vin[t]) : o[1] \in InPool(p) \/ HaveCoin(ch, o)
    /\ CheckTxAssets(p, ch, t, TRUE)
    /\ bypass_limits \/ Fee[t] + Delta(p, t) >= MinRelayFee
    /\ WithinLimits(p, t)
    /\ MayReplace(p, t)

(* addUnchecked: the entry starts without children, whoever spends it.     *)
addUnchecked(p, t) ==
    LET parents == Sources(t) \cap InPool(p)
        ancestors == SetAncestors(p, t)
        fee == Fee[t] + Delta(p, t)
        entry == [delta |-> Delta(p, t), nDesc |-> 1, feeDesc |-> fee,
                  nAnc |-> 1 + Cardinality(ancestors), feeAnc |-> fee + FeesOf(p, ancestors)]
    IN  [p EXCEPT
           !.mapTx = Put([k \in DOMAIN p.mapTx |->
                 IF k \in ancestors THEN MoreDescendants(p.mapTx[k], 1, fee) ELSE p.mapTx[k]], t, entry),
           !.mapLinks = Put([k \in DOMAIN p.mapLinks |->
                 IF k \in parents THEN [p.mapLinks[k] EXCEPT !.children = @ \cup {t}] ELSE p.mapLinks[k]],
                 t, [parents |-> parents, children |-> {}]),
           !.mapNextTx = Insert(p.mapNextTx, ToSet(vin[t]), t)]

Stored(p, t) ==
    addUnchecked(RemoveStaged(p, CalculateDescendants(p, Conflicts(p, t)), FALSE), t)

(* The asset maps, once the transaction has survived the limits.           *)
Tracked(p, t) ==
    IF t \notin InPool(p) THEN p
    ELSE [p EXCEPT !.mapReissuedAssets = IF Reissue[t] # None THEN Insert(@, {Reissue[t]}, t) ELSE @,
                   !.mapAssetToHash = IF Issue[t] # None THEN Put(@, Issue[t], t) ELSE @]

(* Expire: the entries of S are too old; entry times bear no relation to   *)
(* the links, for a transaction accepted again is younger than its         *)
(* children and LoadMempool restores old times.                            *)
Expire(p, S) == RemoveStaged(p, CalculateDescendants(p, S), FALSE)

(* CompareTxMemPoolEntryByDescendantScore, up to the entry times that      *)
(* break ties: a scores lower than b.                                      *)
ScoresLower(p, a, b) ==
    LET score(t) == LET e == p.mapTx[t]
                    IN  IF e.feeDesc > ModifiedFee(p, t) * e.nDesc THEN <<e.feeDesc, e.nDesc>>
                        ELSE <<ModifiedFee(p, t), 1>>
    IN  score(a)[1] * score(b)[2] < score(b)[1] * score(a)[2]
Cheapest(p) == {a \in InPool(p) : \A b \in InPool(p) : ~ScoresLower(p, b, a)}

(* TrimToSize: the pools it may end with.                                  *)
TrimToSize(p) ==
    LET trim(q) == IF Cardinality(InPool(q)) <= MaxMempool THEN {q}
                   ELSE {RemoveStaged(q, CalculateDescendants(q, {t}), FALSE) : t \in Cheapest(q)}
        after[n \in 0..Cardinality(Tx)] ==
            IF n = 0 THEN {p} ELSE UNION {trim(q) : q \in after[n - 1]}
    IN  after[Cardinality(Tx)]

LimitMempoolSize(p, old) == TrimToSize(Expire(p, old \cap InPool(p)))

-----------------------------------------------------------------------------
Init ==
    /\ chain = <<>> /\ pool = EmptyPool /\ phase = "idle"
    /\ disconnectpool = <<>> /\ vHashUpdate = <<>>
    /\ file = Loaded /\ restarts = 0

(* A transaction comes from a peer, the wallet or the RPC interface.       *)
AcceptToMemoryPool(t) ==
    /\ phase = "idle"
    /\ Acceptable(pool, chain, t, FALSE)
    /\ \E old \in SUBSET InPool(pool) :
          \E p \in LimitMempoolSize(Stored(pool, t), old) : pool' = Tracked(p, t)
    /\ UNCHANGED <<chain, phase, disconnectpool, vHashUpdate, file, restarts>>

(* ConnectBlock finds nothing wrong with the block's transactions.         *)
ConnectBlock(p, ch, b) ==
    \A i \in DOMAIN b :
       LET before == Append(ch, SubSeq(b, 1, i - 1))
       IN  /\ b[i] \notin ChainTx(before) /\ LockHeight[b[i]] <= Len(ch) + 1
           /\ \A o \in ToSet(vin[b[i]]) : HaveCoin(before, o)
           /\ CheckTxAssets(p, before, b[i], FALSE)

(* DisconnectedBlockTransactions::removeForBlock.                          *)
StillQueued(queue, b) ==
    FoldLeft(LAMBDA kept, t : IF t \in ToSet(b) THEN kept ELSE Append(kept, t), <<>>, queue)

ConnectTip(b) ==
    /\ phase \in {"idle", "disconnect", "connect"}
    /\ Len(chain) < MaxHeight
    /\ ConnectBlock(pool, chain, b)
    /\ chain' = Append(chain, b)
    /\ pool' = removeForBlock([pool EXCEPT !.mapReissuedAssets =
                                  RestrictValues(@, LAMBDA t : t \notin ToSet(b))], b)
    /\ disconnectpool' = StillQueued(disconnectpool, b)
    /\ phase' = IF phase = "idle" THEN "idle" ELSE "connect"
    /\ UNCHANGED <<vHashUpdate, file, restarts>>

(* The block's transactions are queued last one first; the earliest        *)
(* entries are given up when there are too many.                           *)
DisconnectTip ==
    /\ phase \in {"idle", "disconnect"}
    /\ chain # <<>>
    /\ LET queue == disconnectpool \o Reverse(Last(chain))
           excess == IF Len(queue) > MaxDisconnected THEN Len(queue) - MaxDisconnected ELSE 0
       IN  /\ disconnectpool' = SubSeq(queue, excess + 1, Len(queue))
           /\ pool' = FoldLeft(removeRecursive, pool, SubSeq(queue, 1, excess))
    /\ chain' = Front(chain)
    /\ phase' = "disconnect"
    /\ UNCHANGED <<vHashUpdate, file, restarts>>

(* UpdateMempoolForReorg, one turn of its loop: the earliest transaction   *)
(* of the chain is accepted again, or what depends on it goes.             *)
ReAccept ==
    /\ phase # "idle" /\ disconnectpool # <<>>
    /\ LET t == Last(disconnectpool)
       IN  IF Acceptable(pool, chain, t, TRUE)
           THEN /\ pool' = Tracked(Stored(pool, t), t)
                /\ vHashUpdate' = Append(vHashUpdate, t)
           ELSE /\ pool' = removeRecursive(pool, t)
                /\ UNCHANGED vHashUpdate
    /\ disconnectpool' = Front(disconnectpool)
    /\ phase' = "update"
    /\ UNCHANGED <<chain, file, restarts>>

(* UpdateTransactionsFromBlock, for one of hashes: link it to the children *)
(* that were in the pool all along, and count its descendants that were.   *)
UpdateForDescendants(p, t, hashes) ==
    LET children == {p.mapNextTx[o] : o \in {o \in DOMAIN p.mapNextTx : o[1] = t}} \ hashes
        linked == [p EXCEPT !.mapLinks = [k \in DOMAIN p.mapLinks |->
                     [parents  |-> p.mapLinks[k].parents \cup (IF k \in children THEN {t} ELSE {}),
                      children |-> p.mapLinks[k].children \cup (IF k = t THEN children ELSE {})]]]
        below == CalculateDescendants(linked, linked.mapLinks[t].children) \ hashes
    IN  IF t \notin InPool(p) THEN p
        ELSE [linked EXCEPT !.mapTx = [k \in InPool(p) |->
                CASE k \in below -> MoreAncestors(p.mapTx[k], 1, ModifiedFee(p, t))
                  [] k = t -> MoreDescendants(p.mapTx[k], Cardinality(below), FeesOf(p, below))
                  [] OTHER -> p.mapTx[k]]]

(* Mutant of UpdateTransactionsFromBlock: only the first one is linked.    *)
MutUpdateTransactionsFromBlock(p, hashes) ==
    IF hashes = <<>> THEN p ELSE UpdateForDescendants(p, Head(hashes), ToSet(hashes))

UpdateTransactionsFromBlock(p, hashes) ==
    FoldLeft(LAMBDA q, t : UpdateForDescendants(q, t, ToSet(hashes)), p, Reverse(hashes))

(* removeForReorg: what is not final at the new height goes.               *)
removeForReorg(p, height) ==
    RemoveStaged(p, CalculateDescendants(p, {t \in InPool(p) : LockHeight[t] > height}), FALSE)

(* The rest of UpdateMempoolForReorg.                                      *)
FinishReorg ==
    /\ phase # "idle" /\ disconnectpool = <<>>
    /\ LET p == removeForReorg(UpdateTransactionsFromBlock(pool, vHashUpdate), Len(chain) + 1)
       IN  \E old \in SUBSET InPool(p) : pool' \in LimitMempoolSize(p, old)
    /\ vHashUpdate' = <<>>
    /\ phase' = "idle"
    /\ UNCHANGED <<chain, disconnectpool, file, restarts>>

(* PrioritiseTransaction adds to the fee a transaction counts with.        *)
PrioritiseTransaction(p, t, d) ==
    LET above == CalculateAncestors(p, {t}) \ {t}
        below == CalculateDescendants(p, {t}) \ {t}
        q == [p EXCEPT !.mapDeltas = Put(p.mapDeltas, t, Delta(p, t) + d)]
        more == Delta(q, t) - p.mapTx[t].delta
        entry(k) == IF k = t THEN [MoreAncestors(MoreDescendants(p.mapTx[t], 0, more), 0, more)
                                      EXCEPT !.delta = Delta(q, t)]
                    ELSE p.mapTx[k]
    IN  IF t \notin InPool(p) THEN q
        ELSE [q EXCEPT !.mapTx = [k \in InPool(p) |->
                MoreAncestors(MoreDescendants(entry(k), 0, IF k \in above THEN d ELSE 0),
                              0, IF k \in below THEN d ELSE 0)]]

(* prioritisetransaction, also while the file is loaded.  The second and   *)
(* third conjuncts are the bound: once for each transaction, and a         *)
(* priority saved in the file counts.                                      *)
Prioritise(t) ==
    /\ phase = "idle" /\ Delta(pool, t) = 0 /\ t \notin DOMAIN file.deltas
    /\ pool' = PrioritiseTransaction(pool, t, 1)
    /\ UNCHANGED <<chain, phase, disconnectpool, vHashUpdate, file, restarts>>

(* GetSortedDepthAndScore: fewer ancestors first, then higher fees, then   *)
(* by hash.                                                                *)
DumpOrders(p) ==
    LET before(s, t) == \/ p.mapTx[s].nAnc < p.mapTx[t].nAnc
                        \/ p.mapTx[s].nAnc = p.mapTx[t].nAnc /\ ModifiedFee(p, s) >= ModifiedFee(p, t)
    IN  {order \in SetToSeqs(InPool(p)) :
            \A i, j \in DOMAIN order : i < j => before(order[i], order[j])}

(* Shutdown saves the pool, parents first (DumpMempool), and               *)
(* mapReissuedAssets (WriteReissuedMempoolState); the node starts with an  *)
(* empty pool and that map.                                                *)
Restart ==
    /\ phase = "idle" /\ file = Loaded /\ restarts < MaxRestarts
    /\ \E order \in DumpOrders(pool) : file' = [txs |-> order, deltas |-> pool.mapDeltas]
    /\ pool' = [EmptyPool EXCEPT !.mapReissuedAssets = pool.mapReissuedAssets]
    /\ restarts' = restarts + 1
    /\ UNCHANGED <<chain, phase, disconnectpool, vHashUpdate>>

(* LoadMempool: each transaction of the file gets its delta, without       *)
(* cs_main, ...                                                            *)
LoadDelta ==
    /\ file.txs # <<>>
    /\ LET t == Head(file.txs)
       IN  /\ t \in DOMAIN file.deltas
           /\ pool' = PrioritiseTransaction(pool, t, file.deltas[t])
           /\ file' = [file EXCEPT !.deltas = Without(@, {t})]
    /\ UNCHANGED <<chain, phase, disconnectpool, vHashUpdate, restarts>>

(* ... and is accepted, unless it is too old or no longer acceptable.      *)
LoadTx ==
    /\ phase = "idle" /\ file.txs # <<>>
    /\ LET t == Head(file.txs)
       IN  /\ t \notin DOMAIN file.deltas
           /\ \/ UNCHANGED pool
              \/ /\ Acceptable(pool, chain, t, FALSE)
                 /\ \E old \in SUBSET InPool(pool) :
                       \E p \in LimitMempoolSize(Stored(pool, t), old) : pool' = Tracked(p, t)
    /\ file' = [file EXCEPT !.txs = Tail(@)]
    /\ UNCHANGED <<chain, phase, disconnectpool, vHashUpdate, restarts>>

(* The deltas of transactions that were not in the pool come last.         *)
LoadDeltas ==
    /\ file.txs = <<>> /\ file.deltas # <<>>
    /\ pool' = FoldSet(LAMBDA t, p : PrioritiseTransaction(p, t, file.deltas[t]), pool, DOMAIN file.deltas)
    /\ file' = Loaded
    /\ UNCHANGED <<chain, phase, disconnectpool, vHashUpdate, restarts>>

Next ==
    \/ \E t \in Tx : AcceptToMemoryPool(t)
    \/ \E b \in Block : ConnectTip(b)
    \/ DisconnectTip
    \/ ReAccept
    \/ FinishReorg
    \/ \E t \in Prioritised : Prioritise(t)
    \/ Restart
    \/ LoadDelta
    \/ LoadTx
    \/ LoadDeltas

Spec == Init /\ [][Next]_vars

-----------------------------------------------------------------------------
(* The links are those the transactions' inputs define, and mapNextTx      *)
(* holds every input of the pool once (the asserts of CTxMemPool::check),  *)
(* whenever no reorganisation is under way.                                *)
LinksExact ==
    phase = "idle" =>
        /\ pool.mapLinks = [t \in InPool(pool) |->
               [parents |-> Sources(t) \cap InPool(pool),
                children |-> {u \in InPool(pool) : t \in Sources(u)}]]
        /\ DOMAIN pool.mapNextTx = UNION {ToSet(vin[t]) : t \in InPool(pool)}
        /\ \A t \in InPool(pool) : \A o \in ToSet(vin[t]) : pool.mapNextTx[o] = t

(* Every entry counts exactly the ancestors and descendants mapLinks gives *)
(* it, with their fees and deltas, in the middle of a reorganisation too:  *)
(* UpdateForRemoveFromMempool subtracts what it finds along mapLinks.      *)
TotalsExact ==
    \A t \in InPool(pool) :
        LET up == CalculateAncestors(pool, {t})
            down == CalculateDescendants(pool, {t})
        IN  pool.mapTx[t] = [delta |-> Delta(pool, t),
                             nAnc |-> Cardinality(up), feeAnc |-> FeesOf(pool, up),
                             nDesc |-> Cardinality(down), feeDesc |-> FeesOf(pool, down)]

(* Every transaction of the pool can be mined with its ancestors: its      *)
(* inputs are unspent coins or outputs of the pool, it is not in the       *)
(* chain, and it is final (the HaveCoin assert of CTxMemPool::check).      *)
InputsAvailable ==
    phase = "idle" =>
        \A t \in InPool(pool) :
            /\ t \notin ChainTx(chain) /\ LockHeight[t] <= Len(chain) + 1
            /\ \A o \in ToSet(vin[t]) : o[1] \in InPool(pool) \/ HaveCoin(chain, o)

(* The asset names the pool's transactions issue are claimed by them, are  *)
(* free in the chain, and nothing else is claimed; every reissue of the    *)
(* pool holds its asset's lock.                                            *)
ClaimsExact ==
    phase = "idle" =>
        /\ \A t \in InPool(pool) : Issue[t] # None =>
              /\ Issue[t] \in DOMAIN pool.mapAssetToHash /\ pool.mapAssetToHash[Issue[t]] = t
              /\ Issue[t] \notin Issued(chain)
        /\ ToSet(pool.mapAssetToHash) \subseteq InPool(pool)
        /\ \A t \in InPool(pool) : Reissue[t] # None =>
              /\ Reissue[t] \in DOMAIN pool.mapReissuedAssets
              /\ pool.mapReissuedAssets[Reissue[t]] = t
=============================================================================
