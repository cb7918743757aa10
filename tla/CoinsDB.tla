------------------------------- MODULE CoinsDB -------------------------------
(***************************************************************************)
(* The chainstate on disk and crashes (src/src/txdb.cpp, FlushStateToDisk  *)
(* and ReplayBlocks in src/src/validation.cpp).                            *)
(*                                                                         *)
(* Blocks are connected and disconnected in memory.  A flush writes the    *)
(* block index, then the coins in batches, each atomic, then the assets.   *)
(* The node can die between any two writes, also while it repairs at       *)
(* startup what an earlier crash left half written.                        *)
(*                                                                         *)
(* A coin is represented by the block that created it.  That a cache on    *)
(* top of the database holds the coins it should is shown in CoinsCache.   *)
(***************************************************************************)
EXTENDS Integers, FiniteSets

CONSTANTS
    Block, Genesis, Parent,
    Height,         \* nHeight
    Outpoint,
    Creates,        \* the outputs each block creates
    Spends,         \* the outputs each block spends, its own ones included
    Spent,          \* no coin
    Null,           \* the null hash
    MaxCrashes      \* bound on the number of crashes

ASSUME ChainAssumption ==
    /\ Genesis \in Block /\ Parent \in [Block -> Block] /\ Parent[Genesis] = Genesis
    /\ Height \in [Block -> Nat] /\ \A b \in Block \ {Genesis} : Height[b] = Height[Parent[b]] + 1
    /\ Creates \in [Block -> SUBSET Outpoint] /\ Spends \in [Block -> SUBSET Outpoint]
    /\ Creates[Genesis] = {} /\ Spends[Genesis] = {}
    /\ Spent \notin Block /\ Null \notin Block
    /\ MaxCrashes \in Nat

VARIABLES
    coins,      \* coins in the database
    best,       \* DB_BEST_BLOCK
    heads,      \* DB_HEAD_BLOCKS: <<new, old>> while a flush is under way, else <<>>
    disk,       \* what the block index on disk has of each block
    assetDb,    \* blocks whose asset changes are in the asset database
    mem,        \* what the block index in memory has of each block
    tip,        \* chainActive.Tip()
    assets,     \* blocks whose asset changes passets knows of
    phase,      \* what the node is doing
    target,     \* hashBlock of the BatchWrite under way
    image,      \* the coins that BatchWrite is to leave
    crashes     \* crashes so far

vars == <<coins, best, heads, disk, assetDb, mem, tip, assets, phase, target, image, crashes>>
store == <<coins, best, heads, disk, assetDb>>

Have == {"none", "data", "undo"}
Phases == {"running", "flushing", "dumping", "down", "replaying", "failed"}

-----------------------------------------------------------------------------
Ancestors[b \in Block] == IF b = Genesis THEN {b} ELSE {b} \cup Ancestors[Parent[b]]

(* ConnectBlock, or RollforwardBlock, which may find its changes made.     *)
Forward(b, c) ==
    [o \in Outpoint |-> IF o \in Spends[b] THEN Spent ELSE IF o \in Creates[b] THEN b ELSE c[o]]

(* The coins after a block.                                                *)
After[b \in Block] ==
    IF b = Genesis THEN [o \in Outpoint |-> Spent] ELSE Forward(b, After[Parent[b]])

(* No block creates an output that is there unspent: a coinbase names its  *)
(* height (ContextualCheckBlock), so its id is new on a branch, and so are *)
(* the ids of the transactions that spend it, and of those after them.     *)
ASSUME OverwriteAssumption ==
    \A b \in Block : \A o \in Creates[b] : After[Parent[b]][o] = Spent

(* DisconnectBlock: outputs are removed and the inputs restored from the   *)
(* undo data, whether or not the database had the block's changes.         *)
Back(b, c) ==
    [o \in Outpoint |-> IF o \in Creates[b] THEN Spent
                        ELSE IF o \in Spends[b] THEN After[Parent[b]][o] ELSE c[o]]

(* Mutant of Rollback: the old branch is left applied.                     *)
MutRollback(b, fork, c) == c

(* ReplayBlocks' two loops: from the old tip down to the fork, and from    *)
(* there up to the new tip.                                                *)
Rollback(b, fork, c) ==
    LET back[x \in Ancestors[b]] ==
          [d \in [Outpoint -> Block \cup {Spent}] |->
             IF x \in Ancestors[fork] THEN d ELSE back[Parent[x]][Back(x, d)]]
    IN back[b][c]

Rollforward(fork, b, c) ==
    LET up[x \in Ancestors[b]] == IF x \in Ancestors[fork] THEN c ELSE Forward(x, up[Parent[x]])
    IN up[b]

(* LastCommonAncestor; the first flush has no old tip.                     *)
Fork(new, old) ==
    IF old = Null THEN Genesis
    ELSE CHOOSE f \in Ancestors[new] \cap Ancestors[old] :
            \A x \in Ancestors[new] \cap Ancestors[old] : x \in Ancestors[f]

Replayed(new, old, c) ==
    LET fork == Fork(new, old) IN
    Rollforward(fork, new, IF old = Null THEN c ELSE Rollback(old, fork, c))

-----------------------------------------------------------------------------
Init ==
    /\ coins = [o \in Outpoint |-> Spent]
    /\ best = Null
    /\ heads = <<>>
    /\ mem = [b \in Block |-> IF b = Genesis THEN "undo" ELSE "none"]
    /\ disk = mem
    /\ assetDb = {} /\ assets = {}
    /\ tip = Genesis
    /\ phase = "running"
    /\ target = Genesis
    /\ image = coins
    /\ crashes = 0

(* AcceptBlock stores a block whose parent is known.                       *)
StoreBlock(b) ==
    /\ phase = "running"
    /\ mem[b] = "none"
    /\ mem[Parent[b]] # "none"
    /\ mem' = [mem EXCEPT ![b] = "data"]
    /\ UNCHANGED <<store, tip, assets, phase, target, image, crashes>>

(* ConnectTip writes the undo data and marks it in the block index.        *)
ConnectTip(b) ==
    /\ phase = "running"
    /\ b # Genesis /\ Parent[b] = tip
    /\ mem[b] \in {"data", "undo"}
    /\ mem' = [mem EXCEPT ![b] = "undo"]
    /\ tip' = b
    /\ assets' = assets \cup {b}
    /\ UNCHANGED <<store, phase, target, image, crashes>>

DisconnectTip ==
    /\ phase = "running"
    /\ tip # Genesis
    /\ tip' = Parent[tip]
    /\ assets' = assets \ {tip}
    /\ UNCHANGED <<store, mem, phase, target, image, crashes>>

(* FlushStateToDisk with only fPeriodicWrite.                              *)
WriteIndex ==
    /\ phase = "running"
    /\ disk' = mem
    /\ UNCHANGED <<coins, best, heads, assetDb, mem, tip, assets, phase, target, image, crashes>>

(* Mutant of BeginFlush: the block index is not written before the coins.  *)
MutBeginFlush ==
    /\ phase = "running"
    /\ phase' = "flushing"
    /\ target' = tip
    /\ image' = After[tip]
    /\ UNCHANGED <<store, mem, tip, assets, crashes>>

(* FlushStateToDisk with fDoFullFlush: the block index first, then         *)
(* pcoinsTip->Flush().                                                     *)
BeginFlush ==
    /\ phase = "running"
    /\ disk' = mem
    /\ phase' = "flushing"
    /\ target' = tip
    /\ image' = After[tip]
    /\ UNCHANGED <<coins, best, heads, assetDb, mem, tip, assets, crashes>>

-----------------------------------------------------------------------------
(* CCoinsViewDB::BatchWrite                                                *)
Pending == {o \in Outpoint : coins[o] # image[o]}
Writing == phase \in {"flushing", "replaying"}

(* Mutant of OldTip: "We may be in the middle of replaying" is left out.   *)
MutOldTip == best

(* Where the database comes from.                                          *)
OldTip == IF best = Null /\ heads # <<>> THEN heads[2] ELSE best

(* Mutant of WritePartial: the transition is not marked.                   *)
MutWritePartial(written) ==
    /\ Writing
    /\ written # {} /\ written \subseteq Pending
    /\ coins' = [o \in Outpoint |-> IF o \in written THEN image[o] ELSE coins[o]]
    /\ UNCHANGED <<best, heads, disk, assetDb, mem, tip, assets, phase, target, image, crashes>>

(* "Writing partial batch": the first one marks the database.              *)
WritePartial(written) ==
    /\ Writing
    /\ written # {} /\ written \subseteq Pending
    /\ coins' = [o \in Outpoint |-> IF o \in written THEN image[o] ELSE coins[o]]
    /\ heads' = <<target, OldTip>>
    /\ best' = Null
    /\ UNCHANGED <<disk, assetDb, mem, tip, assets, phase, target, image, crashes>>

(* "Writing final batch": everything left, and the mark goes.              *)
WriteFinal ==
    /\ Writing
    /\ coins' = image
    /\ heads' = <<>>
    /\ best' = target
    /\ tip' = target
    /\ phase' = IF phase = "flushing" THEN "dumping" ELSE "running"
    /\ UNCHANGED <<disk, assetDb, mem, assets, target, image, crashes>>

(* DumpCacheToDatabase, after the coins.                                   *)
DumpCacheToDatabase ==
    /\ phase = "dumping"
    /\ assetDb' = assets
    /\ phase' = "running"
    /\ UNCHANGED <<coins, best, heads, disk, mem, tip, assets, target, image, crashes>>

-----------------------------------------------------------------------------
(* The process dies: the memory is lost.                                   *)
Crash ==
    /\ phase \notin {"down", "failed"}
    /\ crashes < MaxCrashes
    /\ crashes' = crashes + 1
    /\ phase' = "down"
    /\ UNCHANGED <<store, mem, tip, assets, target, image>>

(* LoadBlockIndex, ReplayBlocks and LoadChainTip.  Each block of the old   *)
(* branch needs its undo data, each of the new one its data.               *)
CanReplay(new, old) ==
    LET fork == Fork(new, old) IN
    /\ disk[new] # "none"
    /\ old # Null => disk[old] # "none"
    /\ old # Null => \A b \in Ancestors[old] \ Ancestors[fork] : disk[b] = "undo"
    /\ \A b \in Ancestors[new] \ Ancestors[fork] : disk[b] \in {"data", "undo"}

(* LoadChainTip; with an empty chainstate the genesis block is connected.  *)
LoadedTip == IF best = Null THEN Genesis ELSE best

(* A node that is down starts: LoadBlockIndex, then LoadChainTip, or       *)
(* ReplayBlocks if a flush was cut off.  VerifyDB, and asset functions     *)
(* that fail in the replay (DISCONNECT_FAILED), are left out.              *)
Startup ==
    /\ phase \in {"down", "failed"}
    /\ mem' = disk
    /\ IF heads = <<>>
       THEN /\ phase' = IF best # Null /\ disk[best] = "none" THEN "failed" ELSE "running"
            /\ tip' = LoadedTip
            /\ assets' = assetDb
            /\ UNCHANGED <<target, image>>
       ELSE /\ phase' = IF CanReplay(heads[1], heads[2]) THEN "replaying" ELSE "failed"
            /\ target' = heads[1]
            /\ image' = Replayed(heads[1], heads[2], coins)
            /\ tip' = Genesis
            /\ assets' = IF heads[2] = Null THEN assetDb
                         ELSE assetDb \ (Ancestors[heads[2]] \ Ancestors[Fork(heads[1], heads[2])])
    /\ UNCHANGED <<store, crashes>>

Next ==
    \/ \E b \in Block : StoreBlock(b) \/ ConnectTip(b)
    \/ DisconnectTip \/ WriteIndex \/ BeginFlush
    \/ \E written \in SUBSET Outpoint : WritePartial(written)
    \/ WriteFinal \/ DumpCacheToDatabase
    \/ Crash \/ Startup

(* A flush goes on to its end and a dead node is started again.            *)
Fairness == WF_vars(WriteFinal) /\ WF_vars(DumpCacheToDatabase) /\ WF_vars(Startup)

Spec == Init /\ [][Next]_vars
FairSpec == Spec /\ Fairness

-----------------------------------------------------------------------------
(* The databases, the memory and the phase have their types.               *)
TypeOK ==
    /\ coins \in [Outpoint -> Block \cup {Spent}] /\ image \in [Outpoint -> Block \cup {Spent}]
    /\ best \in Block \cup {Null}
    /\ heads \in {<<>>} \cup (Block \X (Block \cup {Null}))
    /\ {disk, mem} \subseteq [Block -> Have]
    /\ {assetDb, assets} \subseteq SUBSET Block
    /\ tip \in Block /\ target \in Block
    /\ phase \in Phases
    /\ crashes \in 0 .. MaxCrashes

(* DB_BEST_BLOCK never lies: when it names a block the coins are those     *)
(* after that block, and otherwise DB_HEAD_BLOCKS says what is under way.  *)
BestBlockHonest ==
    /\ best # Null => coins = After[best] /\ heads = <<>>
    /\ best = Null /\ heads = <<>> => coins = After[Genesis]

(* ReplayBlocks computes the coins after the new tip from whatever mixture *)
(* of batches, replays and second crashes left in the database.            *)
ReplayRestores == phase = "replaying" => image = After[target]

(* A coin of a half-written database is that of the old or of the new tip. *)
MixtureOfTwo ==
    heads # <<>> => \A o \in Outpoint :
        coins[o] \in {After[heads[1]][o], IF heads[2] = Null THEN Spent ELSE After[heads[2]][o]}

(* Startup finds every block it needs, with its undo data, in the block    *)
(* index: no crash makes a -reindex necessary for want of a block.         *)
StartupSucceeds == phase # "failed"

(* While the node runs, the assets are those of the active chain: what     *)
(* "Replay blocks that aren't fully applied to the database" has to        *)
(* restore after a crash.                                                  *)
AssetsFollowChain == phase = "running" => assets = Ancestors[tip] \ {Genesis}

(* A crashed node runs again.                                              *)
Recovers == (phase = "down") ~> (phase = "running")
=============================================================================
