------------------------------ MODULE AssetData ------------------------------
(***************************************************************************)
(* Issued assets, what reissuing changes of them, and the verifier strings *)
(* of restricted ones (CAssetsCache in src/src/assets/assets.cpp, AddCoins *)
(* in src/src/coins.cpp, ConnectBlock and DisconnectBlock in               *)
(* src/src/validation.cpp).                                                *)
(*                                                                         *)
(* A block is applied to an empty cache whose lookups fall through to      *)
(* passets, the LRU caches and the databases; Flush merges it into         *)
(* passets; DumpCacheToDatabase writes passets out.  What a reissue        *)
(* replaces is kept as the block's undo data.                              *)
(*                                                                         *)
(* A reissue in the memory pool locks its asset: mapReissuedAssets names   *)
(* it, and CheckTxAssets refuses another one, in the pool and in a block.  *)
(* Of the pool only these locks are here.  A transaction stands for its    *)
(* content; two with the same content are one.                             *)
(*                                                                         *)
(* Amounts, balances and heights are left out: of an asset's data the      *)
(* model keeps its units, its IPFS hash and whether it can be reissued.    *)
(* Crashes between the entries of a dump are in AssetTags.                 *)
(***************************************************************************)
EXTENDS Integers, Sequences, SequencesExt

CONSTANTS
    Asset,
    Restricted,     \* assets that have a verifier string
    Units,          \* unit settings, larger is finer
    Hash,           \* IPFS hashes
    Verifier,       \* verifier strings
    Block,          \* the blocks there may be: sequences of transactions
    Relayed,        \* reissues the memory pool may be offered
    None,           \* nothing: no entry, no hash, a field left unchanged
    Gone,           \* a verifier entry that erases
    MaxBlocks       \* bound on the length of the chain

Data == [units : Units, ipfs : Hash \cup {None}, reissuable : BOOLEAN]
Issue == [kind : {"issue"}, asset : Asset, units : Units, ipfs : Hash \cup {None},
          reissuable : BOOLEAN, verifier : Verifier \cup {None}]
Reissue == [kind : {"reissue"}, asset : Asset, units : Units \cup {None}, ipfs : Hash \cup {None},
            reissuable : BOOLEAN, verifier : Verifier \cup {None}]

ASSUME BlockAssumption ==
    /\ Restricted \subseteq Asset /\ Units \subseteq Nat
    /\ Block \subseteq Seq(Issue \cup Reissue)
    /\ Relayed \subseteq Reissue
    /\ \A b \in Block : \A i \in DOMAIN b :
          /\ b[i].asset \notin Restricted => b[i].verifier = None
          /\ b[i].asset \in Restricted /\ b[i].kind = "issue" => b[i].verifier # None
    /\ None \notin Units \cup Hash \cup Verifier \cup Data /\ Gone \notin Verifier \cup {None}
    /\ MaxBlocks \in Nat

VARIABLES
    chain,      \* blocks of the active chain, with undo data and the state before each
    passets,    \* the global CAssetsCache
    lru, vlru,  \* passetsCache and passetsVerifierCache
    db, vdb,    \* asset data in passetsdb, verifier strings in prestricteddb
    mapReissuedAssets   \* the pool's reissue of each asset, or None

vars == <<chain, passets, lru, vlru, db, vdb, mapReissuedAssets>>

-----------------------------------------------------------------------------
(* What a chain says of every asset: its data and verifier string.         *)

Entry == [data : Data, verifier : Verifier \cup {None}]
Or(x, old) == IF x # None THEN x ELSE old
Reissued(d, tx) == [units |-> Or(tx.units, d.units), ipfs |-> Or(tx.ipfs, d.ipfs),
                    reissuable |-> tx.reissuable]
Fresh(tx) == [units |-> tx.units, ipfs |-> tx.ipfs, reissuable |-> tx.reissuable]

(* ContextualCheckReissueAsset: the asset can be reissued, and its units   *)
(* do not shrink.                                                          *)
CanReissue(d, tx) == d.reissuable /\ (tx.units # None => tx.units >= d.units)

LedgerTx(state, tx) ==
    [state EXCEPT ![tx.asset] =
        IF tx.kind = "issue" THEN [data |-> Fresh(tx), verifier |-> tx.verifier]
        ELSE [data |-> Reissued(@.data, tx), verifier |-> Or(tx.verifier, @.verifier)]]

LedgerAfter(state, b) == FoldLeft(LedgerTx, state, b)

LedgerAccepts(state, b) ==
    \A i \in DOMAIN b :
        LET entry == LedgerAfter(state, SubSeq(b, 1, i - 1))[b[i].asset]
        IN IF b[i].kind = "issue" THEN entry = None ELSE entry # None /\ CanReissue(entry.data, b[i])

Ledger == IF chain = <<>> THEN [a \in Asset |-> None]
          ELSE LedgerAfter(chain[Len(chain)].prior, chain[Len(chain)].txs)

-----------------------------------------------------------------------------
(* CAssetsCache, as far as these entries go.                               *)

Nothing == [a \in Asset |-> None]
EmptyCache == [add |-> Nothing,             \* setNewAssetsToAdd
               rem |-> {},                  \* setNewAssetsToRemove
               reissued |-> Nothing,        \* mapReissuedAssetData
               reAdd |-> {}, reRem |-> {},  \* setNewReissueToAdd, setNewReissueToRemove
               vAdd |-> Nothing,            \* setNewRestrictedVerifierToAdd
               vRem |-> Nothing]            \* setNewRestrictedVerifierToRemove

(* The first of several places that has an entry.                          *)
First(places) ==
    LET i == SelectInSeq(places, LAMBDA x : x # None) IN IF i = 0 THEN None ELSE places[i]

(* CheckIfAssetExists, with the duplicate check its callers ask for.       *)
CheckIfAssetExists(own, a) ==
    /\ a \notin own.rem \cup passets.rem
    /\ First(<<own.add[a], passets.add[a], lru[a], db[a]>>) # None

(* GetAssetMetaDataIfExists: reissued data comes before anything else.     *)
GetAssetMetaData(own, a) ==
    LET reissued == First(<<own.reissued[a], passets.reissued[a]>>)
    IN IF reissued # None \/ a \in own.rem \cup passets.rem THEN reissued
       ELSE First(<<own.add[a], passets.add[a], lru[a], db[a]>>)

(* GetAssetVerifierStringIfExists.                                         *)
GetVerifier(own, a) ==
    LET found == First(<<own.vRem[a], passets.vRem[a], own.vAdd[a], passets.vAdd[a], vlru[a], vdb[a]>>)
    IN IF found = Gone THEN None ELSE found

(* Assets of a block whose entry these lookups read from the database into *)
(* the LRU cache.                                                          *)
Assets(b) == {b[i].asset : i \in DOMAIN b}
Fetched(A) == {a \in A : a \notin passets.rem /\ First(<<passets.add[a], lru[a]>>) = None}
FetchedVerifier(A) ==
    {a \in A : First(<<passets.vRem[a], passets.vAdd[a], vlru[a]>>) = None}
Fill(cache, from, A) == [a \in Asset |-> IF a \in A THEN from[a] ELSE cache[a]]

-----------------------------------------------------------------------------
(* Connecting: AddCoins for one transaction, on the block's own cache.     *)

(* AddRestrictedVerifier: an entry already in the set is kept.             *)
AddRestrictedVerifier(own, a, v) ==
    [own EXCEPT !.vRem[a] = None, !.vAdd[a] = Or(@, v)]

AddNewAsset(own, tx) ==
    LET c == [own EXCEPT !.add[tx.asset] = Fresh(tx), !.rem = @ \ {tx.asset}]
    IN IF tx.verifier = None THEN c ELSE AddRestrictedVerifier(c, tx.asset, tx.verifier)

AddReissueAsset(own, tx) ==
    LET c == [own EXCEPT !.reissued[tx.asset] = Reissued(GetAssetMetaData(own, tx.asset), tx),
                         !.reRem = @ \ {tx}, !.reAdd = @ \cup {tx}]
    IN IF tx.verifier = None THEN c ELSE AddRestrictedVerifier(c, tx.asset, tx.verifier)

(* CBlockAssetUndo, written only for a reissue that changes something.     *)
AssetUndo(own, tx) ==
    LET d == GetAssetMetaData(own, tx.asset)
    IN IF tx.kind = "issue" \/ {tx.units, tx.ipfs, tx.verifier} = {None} THEN <<>>
       ELSE << [asset |-> tx.asset,
                fIPFS |-> tx.ipfs # None, ipfs |-> d.ipfs,
                fUnits |-> tx.units # None, units |-> d.units,
                fVerifier |-> tx.verifier # None, verifier |-> GetVerifier(own, tx.asset)] >>

(* bad-tx-reissue-chaining-not-allowed: the lock is another transaction's. *)
LockedOut(tx) == tx.kind = "reissue" /\ mapReissuedAssets[tx.asset] \notin {None, tx}

(* Mutant of CheckTx: reissuing is allowed by the data before the block.   *)
MutCheckTx(own, issued, tx) ==
    IF tx.kind = "issue" THEN ~CheckIfAssetExists(own, tx.asset)
    ELSE /\ issued[tx.asset] /\ ~LockedOut(tx)
         /\ CanReissue(First(<<lru[tx.asset], db[tx.asset], GetAssetMetaData(own, tx.asset)>>), tx)

(* CheckTxAssets: an issue needs an unused name; a reissue needs its       *)
(* asset's data and spends the owner token, a coin that is there when the  *)
(* chain has the issue.                                                    *)
CheckTx(own, issued, tx) ==
    IF tx.kind = "issue" THEN ~CheckIfAssetExists(own, tx.asset)
    ELSE LET d == GetAssetMetaData(own, tx.asset)
         IN issued[tx.asset] /\ ~LockedOut(tx) /\ d # None /\ CanReissue(d, tx)

(* ConnectBlock's loop: a transaction is checked and then applied.         *)
ConnectTx(acc, tx) ==
    IF ~(acc.ok /\ CheckTx(acc.own, acc.issued, tx)) THEN [acc EXCEPT !.ok = FALSE]
    ELSE [ok     |-> TRUE,
          own    |-> IF tx.kind = "issue" THEN AddNewAsset(acc.own, tx)
                     ELSE AddReissueAsset(acc.own, tx),
          undo   |-> acc.undo \o AssetUndo(acc.own, tx),
          issued |-> [acc.issued EXCEPT ![tx.asset] = TRUE]]

ConnectBlock(b) ==
    FoldLeft(ConnectTx, [ok |-> TRUE, own |-> EmptyCache, undo |-> <<>>,
                         issued |-> [a \in Asset |-> Ledger[a] # None]], b)

-----------------------------------------------------------------------------
(* Disconnecting: DisconnectBlock for one transaction.                     *)

(* RemoveRestrictedVerifier: an entry already in the set is kept.          *)
RemoveRestrictedVerifier(own, a, v) ==
    [own EXCEPT !.vAdd[a] = None, !.vRem[a] = Or(@, v)]

RemoveNewAsset(own, tx) ==
    LET c == IF CheckIfAssetExists(own, tx.asset)
               THEN [own EXCEPT !.add[tx.asset] = None, !.rem = @ \cup {tx.asset}] ELSE own
    IN IF tx.verifier = None THEN c ELSE RemoveRestrictedVerifier(c, tx.asset, Gone)

(* Mutant of RemoveReissueAsset: the undo data is not consulted.           *)
MutRemoveReissueAsset(own, tx, undo) ==
    LET d == GetAssetMetaData(own, tx.asset)
    IN IF ~CheckIfAssetExists(own, tx.asset) THEN own
       ELSE [own EXCEPT !.reissued[tx.asset] = [d EXCEPT !.reissuable = TRUE],
                        !.reAdd = @ \ {tx}, !.reRem = @ \cup {tx}]

(* RemoveReissueAsset: the first undo record of the asset is used.         *)
RemoveReissueAsset(own, tx, undo) ==
    LET a == tx.asset
        d == GetAssetMetaData(own, a)
        i == SelectInSeq(undo, LAMBDA u : u.asset = a)
        old == IF i = 0 THEN d
               ELSE [d EXCEPT !.ipfs = IF undo[i].fIPFS THEN undo[i].ipfs ELSE @,
                              !.units = IF undo[i].fUnits THEN undo[i].units ELSE @]
        c == [own EXCEPT !.reissued[a] = [old EXCEPT !.reissuable = TRUE],
                         !.reAdd = @ \ {tx}, !.reRem = @ \cup {tx}]
    IN IF ~CheckIfAssetExists(own, a) THEN own
       ELSE IF i # 0 /\ undo[i].fVerifier THEN RemoveRestrictedVerifier(c, a, undo[i].verifier)
       ELSE c

DisconnectBlock(block) ==
    FoldRight(LAMBDA tx, own : IF tx.kind = "issue" THEN RemoveNewAsset(own, tx)
                               ELSE RemoveReissueAsset(own, tx, block.undo),
              block.txs, EmptyCache)

-----------------------------------------------------------------------------
(* Flush: the cache of a block is merged into passets.  An asset already   *)
(* in setNewAssetsToAdd is kept.                                           *)
Flush(own) ==
    [add      |-> [a \in Asset |-> IF a \in own.rem THEN None ELSE Or(passets.add[a], own.add[a])],
     rem      |-> {a \in passets.rem : own.add[a] = None} \cup own.rem,
     reissued |-> [a \in Asset |-> Or(own.reissued[a], passets.reissued[a])],
     reAdd    |-> (passets.reAdd \cup own.reAdd) \ own.reRem,
     reRem    |-> (passets.reRem \ own.reAdd) \cup own.reRem,
     vAdd     |-> [a \in Asset |-> IF own.vRem[a] # None THEN None ELSE Or(own.vAdd[a], passets.vAdd[a])],
     vRem     |-> [a \in Asset |-> IF own.vRem[a] # None THEN own.vRem[a]
                                   ELSE IF own.vAdd[a] # None THEN None ELSE passets.vRem[a]]]

Init ==
    /\ chain = <<>>
    /\ passets = EmptyCache
    /\ lru = Nothing /\ vlru = Nothing /\ db = Nothing /\ vdb = Nothing
    /\ mapReissuedAssets = Nothing

(* A block is connected: it is checked, the locks of its own reissues go,  *)
(* and its cache is flushed.                                               *)
ConnectTip(b) ==
    LET result == ConnectBlock(b)
    IN /\ Len(chain) < MaxBlocks
       /\ result.ok
       /\ chain' = Append(chain, [txs |-> b, undo |-> result.undo, prior |-> Ledger])
       /\ passets' = Flush(result.own)
       /\ lru' = Fill(lru, db, Fetched({a \in Assets(b) : passets.reissued[a] = None}))
       /\ vlru' = Fill(vlru, vdb, FetchedVerifier(Assets(b) \cap Restricted))
       /\ mapReissuedAssets' =
              [a \in Asset |-> IF mapReissuedAssets[a] \in ToSet(b) THEN None ELSE mapReissuedAssets[a]]
       /\ UNCHANGED <<db, vdb>>

DisconnectTip ==
    /\ chain # <<>>
    /\ chain' = SubSeq(chain, 1, Len(chain) - 1)
    /\ passets' = Flush(DisconnectBlock(chain[Len(chain)]))
    /\ lru' = Fill(lru, db, Fetched(Assets(chain[Len(chain)].txs)))
    /\ UNCHANGED <<vlru, db, vdb, mapReissuedAssets>>

(* AcceptToMemoryPool of a reissue, be it new or back from a block that    *)
(* was disconnected.  The current verifier string is looked up when the    *)
(* amount grows.                                                           *)
AcceptReissue(tx) ==
    /\ CheckTx(EmptyCache, [a \in Asset |-> Ledger[a] # None], tx)
    /\ mapReissuedAssets' = [mapReissuedAssets EXCEPT ![tx.asset] = tx]
    /\ lru' = Fill(lru, db, Fetched({a \in {tx.asset} : passets.reissued[a] = None}))
    /\ \E A \in SUBSET ({tx.asset} \cap Restricted) : vlru' = Fill(vlru, vdb, FetchedVerifier(A))
    /\ UNCHANGED <<chain, passets, db, vdb>>

(* removeUnchecked of a reissue that leaves the pool without a block.      *)
RemoveReissue(a) ==
    /\ mapReissuedAssets[a] # None
    /\ mapReissuedAssets' = [mapReissuedAssets EXCEPT ![a] = None]
    /\ UNCHANGED <<chain, passets, lru, vlru, db, vdb>>

(* Lookups that concern no block, and evictions for other assets' sake.    *)
Lookup(a) ==
    /\ lru' = Fill(lru, db, Fetched({a}))
    /\ vlru' = Fill(vlru, vdb, FetchedVerifier({a}))
    /\ UNCHANGED <<chain, passets, db, vdb, mapReissuedAssets>>

Evict(a) ==
    /\ \/ lru' = [lru EXCEPT ![a] = None] /\ UNCHANGED vlru
       \/ vlru' = [vlru EXCEPT ![a] = None] /\ UNCHANGED lru
    /\ UNCHANGED <<chain, passets, db, vdb, mapReissuedAssets>>

(* Assets whose reissued data DumpCacheToDatabase writes: an undone        *)
(* reissue is skipped when the issue is removed too.                       *)
DumpedReissues ==
    {a \in Asset : /\ passets.reissued[a] # None
                   /\ \/ \E tx \in passets.reAdd : tx.asset = a
                      \/ a \notin passets.rem /\ \E tx \in passets.reRem : tx.asset = a}

(* Mutant of DumpedCache: the LRU cache keeps the data a reissue replaces. *)
MutDumpedCache ==
    [a \in Asset |-> IF passets.add[a] # None THEN passets.add[a]
                     ELSE IF a \in passets.rem THEN None ELSE lru[a]]

(* passetsCache after the dump: removed assets are erased from it, new     *)
(* ones put, reissued ones erased.                                         *)
DumpedCache ==
    [a \in Asset |-> IF a \in DumpedReissues THEN None
                     ELSE IF passets.add[a] # None THEN passets.add[a]
                     ELSE IF a \in passets.rem THEN None ELSE lru[a]]

(* DumpCacheToDatabase and ClearDirtyCache: removed assets (with their     *)
(* verifiers), new assets, reissues, verifiers added, verifiers removed.   *)
DumpCacheToDatabase ==
    /\ db' = [a \in Asset |-> IF a \in DumpedReissues THEN passets.reissued[a]
                              ELSE IF passets.add[a] # None THEN passets.add[a]
                              ELSE IF a \in passets.rem THEN None ELSE db[a]]
    /\ lru' = DumpedCache
    /\ vdb' = [a \in Asset |-> IF passets.vRem[a] = Gone THEN None
                               ELSE IF a \in passets.rem THEN First(<<passets.vRem[a], passets.vAdd[a]>>)
                               ELSE First(<<passets.vRem[a], passets.vAdd[a], vdb[a]>>)]
    /\ vlru' = [a \in Asset |-> IF First(<<passets.vRem[a], passets.vAdd[a]>>) # None THEN None
                                ELSE vlru[a]]
    /\ passets' = EmptyCache
    /\ UNCHANGED <<chain, mapReissuedAssets>>

Next ==
    \/ \E b \in Block : ConnectTip(b)
    \/ DisconnectTip
    \/ \E tx \in Relayed : AcceptReissue(tx)
    \/ \E a \in Asset : RemoveReissue(a) \/ Lookup(a) \/ Evict(a)
    \/ DumpCacheToDatabase

Spec == Init /\ [][Next]_vars
-----------------------------------------------------------------------------
(* Types.                                                                  *)
TypeOK ==
    /\ \A i \in DOMAIN chain : chain[i].txs \in Block /\ chain[i].prior \in [Asset -> Entry \cup {None}]
    /\ passets \in [add : [Asset -> Data \cup {None}], rem : SUBSET Asset,
                    reissued : [Asset -> Data \cup {None}],
                    reAdd : SUBSET Reissue, reRem : SUBSET Reissue,
                    vAdd : [Asset -> Verifier \cup {None}], vRem : [Asset -> Verifier \cup {None, Gone}]]
    /\ lru \in [Asset -> Data \cup {None}] /\ db \in [Asset -> Data \cup {None}]
    /\ vlru \in [Asset -> Verifier \cup {None}] /\ vdb \in [Asset -> Verifier \cup {None}]
    /\ mapReissuedAssets \in [Asset -> Relayed \cup {None}]

(* Whatever has been connected, disconnected, dumped, cached and evicted,  *)
(* passets knows of exactly the assets the active chain has issued, with   *)
(* the data and the verifier string the chain has given them.  It is so    *)
(* for chains in which one transaction issues a name, and blocks in which  *)
(* one at most sets an asset's units, hash or verifier string.             *)
AssetsExact ==
    \A a \in Asset :
        /\ CheckIfAssetExists(EmptyCache, a) <=> Ledger[a] # None
        /\ Ledger[a] # None => /\ GetAssetMetaData(EmptyCache, a) = Ledger[a].data
                               /\ GetVerifier(EmptyCache, a) = Ledger[a].verifier

(* Whether ConnectBlock accepts a block depends on the chain and on the    *)
(* locks of the pool's reissues, and on nothing else: not on what was      *)
(* connected and undone before, nor on dumps, look-ups and evictions.  It  *)
(* is so for blocks that do not both issue and reissue an asset.           *)
AcceptsExactly ==
    \A b \in Block :
        ConnectBlock(b).ok <=> LedgerAccepts(Ledger, b) /\ ~\E tx \in ToSet(b) : LockedOut(tx)

(* That the chain alone decides, as a rule of consensus must.  It is false *)
(* of the code: a reissue in this node's pool locks a block's reissue out. *)
ChainDecides == \A b \in Block : ConnectBlock(b).ok <=> LedgerAccepts(Ledger, b)

(* An LRU cache never has an entry the database does not have.             *)
CachesAgree == \A a \in Asset : lru[a] \in {None, db[a]} /\ vlru[a] \in {None, vdb[a]}
=============================================================================
