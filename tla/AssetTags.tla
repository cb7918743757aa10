------------------------------ MODULE AssetTags ------------------------------
(***************************************************************************)
(* Tags and freezes: the qualifier, restricted address and global freeze   *)
(* entries of the asset state (src/src/assets/assets.cpp).  A key is a     *)
(* pair of an asset and an address (for a global freeze, the asset alone); *)
(* a command adds or removes it, and the same code, three times over,      *)
(* keeps the three kinds.  A sub qualifier #A/#B also counts as its root   *)
(* #A in CheckForAddressQualifier.                                         *)
(*                                                                         *)
(* A block's commands go through a cache of their own into passets, whose  *)
(* entries are written to the database one by one when the chainstate is   *)
(* flushed, after the coins.  An LRU cache stands before the database.     *)
(* The node can die between any two writes.                                *)
(***************************************************************************)
EXTENDS Integers, Sequences

CONSTANTS
    Key,            \* (asset, address) pairs
    Sub,            \* those of a sub qualifier
    Root,           \* the key of its root qualifier at the same address
    MaxBlocks,      \* bound on the length of the chain
    MaxCrashes      \* bound on the number of crashes

ASSUME KeyAssumption ==
    /\ Sub \subseteq Key /\ Root \in [Sub -> Key \ Sub]
    /\ MaxBlocks \in Nat /\ MaxCrashes \in Nat

VARIABLES
    chain,      \* the commands of the blocks of the active chain
    passets,    \* the global CAssetsCache: entries not yet in the database
    lru,        \* keys in passetsQualifierCache and its like
    db,         \* keys in the restricted database
    diskChain,  \* the chain the coin database is at
    dumping,    \* inside DumpCacheToDatabase
    todoAdd,    \* entries it has still to write
    todoRemove,
    lost,       \* keys whose entry a crash kept from the database
    crashes     \* crashes so far

vars == <<chain, passets, lru, db, diskChain, dumping, todoAdd, todoRemove, lost, crashes>>
memory == <<chain, passets, lru>>
disk == <<db, diskChain>>
dump == <<dumping, todoAdd, todoRemove>>
faults == <<lost, crashes>>

(* QualifierType and RestrictedType; "none" where there is no entry.       *)
Command == {"none", "add", "remove"}
Commands == [Key -> Command]
NoCommands == [k \in Key |-> "none"]
Touched(cmds) == {k \in Key : cmds[k] # "none"}

(* A block and the tags that were set before it.                           *)
Block == [cmds : Commands, prior : SUBSET Key]
TaggedBy(b) == {k \in Key : b.cmds[k] = "add" \/ (b.cmds[k] = "none" /\ k \in b.prior)}

(* What the commands of a chain say is set.                                *)
TaggedAt(c) == IF c = <<>> THEN {} ELSE TaggedBy(c[Len(c)])
Tagged == TaggedAt(chain)

(* Keys that are their own answer: no sub qualifier counts for them.       *)
Leaf == {k \in Key : \A s \in Sub : Root[s] # k}

-----------------------------------------------------------------------------
(* CAssetsCache, as far as these entries go.  passets itself never has     *)
(* anything in mapRootQualifierAddressesRemove: Flush puts nothing there.  *)
Cache == [toAdd : Commands, toRemove : Commands, rootAdd : SUBSET Sub, rootRemove : SUBSET Sub]
EmptyCache == [toAdd |-> NoCommands, toRemove |-> NoCommands, rootAdd |-> {}, rootRemove |-> {}]

(* AddQualifierAddress, AddRestrictedAddress and AddGlobalRestricted for   *)
(* the commands of a block.                                                *)
AddCommands(cmds) ==
    [EmptyCache EXCEPT !.toAdd = cmds,
                       !.rootAdd = {s \in Sub : cmds[s] = "add"},
                       !.rootRemove = {s \in Sub : cmds[s] = "remove"}]

(* Their Remove counterparts: the entry holds the command being undone.    *)
RemoveCommands(cmds) ==
    [EmptyCache EXCEPT !.toRemove = cmds,
                       !.rootAdd = {s \in Sub : cmds[s] = "remove"},
                       !.rootRemove = {s \in Sub : cmds[s] = "add"}]

Overwrite(old, new) == [k \in Key |-> IF new[k] # "none" THEN new[k] ELSE old[k]]
Without(old, new) == [k \in Key |-> IF new[k] # "none" THEN "none" ELSE old[k]]

(* Flush: the cache of a block is merged into passets.  Both root maps go  *)
(* into mapRootQualifierAddressesAdd.                                      *)
Flush(own) ==
    [toAdd      |-> Overwrite(Without(passets.toAdd, own.toRemove), own.toAdd),
     toRemove   |-> Overwrite(Without(passets.toRemove, own.toAdd), own.toRemove),
     rootAdd    |-> passets.rootAdd \cup own.rootAdd \cup own.rootRemove,
     rootRemove |-> passets.rootRemove]

InRoots(k, subs) == \E s \in subs : Root[s] = k
Dirty(k) == passets.toAdd[k] # "none" \/ passets.toRemove[k] # "none"

(* Mutant of CheckFor: an undone command is answered like a command.       *)
MutCheckFor(k) ==
    IF passets.toRemove[k] # "none" THEN passets.toRemove[k] = "add"
    ELSE IF passets.toAdd[k] # "none" THEN passets.toAdd[k] = "add" \/ InRoots(k, passets.rootAdd)
    ELSE InRoots(k, passets.rootAdd) \/ k \in lru \/ k \in db \/ InRoots(k, db \cap Sub)

(* CheckForAddressQualifier, CheckForAddressRestriction and                *)
(* CheckForGlobalRestriction with fSkipTempCache, as validation calls them.*)
CheckFor(k) ==
    IF passets.toRemove[k] # "none" THEN passets.toRemove[k] = "remove"
    ELSE IF passets.toAdd[k] # "none" THEN passets.toAdd[k] = "add" \/ InRoots(k, passets.rootAdd)
    ELSE InRoots(k, passets.rootAdd) \/ k \in lru \/ k \in db \/ InRoots(k, db \cap Sub)

(* The keys among K those calls find in the database and put in the LRU    *)
(* cache.                                                                  *)
Fetched(K) == {k \in K \cap db : ~Dirty(k) /\ ~InRoots(k, passets.rootAdd) /\ k \notin lru}

(* VerifyQualifierChange and its like: a command must change the answer.   *)
VerifyChange(cmds) == \A k \in Touched(cmds) : (cmds[k] = "remove") <=> CheckFor(k)

-----------------------------------------------------------------------------
Init ==
    /\ chain = <<>> /\ diskChain = <<>>
    /\ passets = EmptyCache
    /\ lru = {} /\ db = {}
    /\ dumping = FALSE /\ todoAdd = {} /\ todoRemove = {}
    /\ lost = {} /\ crashes = 0

(* ConnectTip: the block's commands are all checked against passets as it  *)
(* was before the block, so a key has one command in it, given once or     *)
(* more often.                                                             *)
ConnectTip(cmds) ==
    /\ ~dumping /\ Len(chain) < MaxBlocks
    /\ VerifyChange(cmds)
    /\ chain' = Append(chain, [cmds |-> cmds, prior |-> Tagged])
    /\ passets' = Flush(AddCommands(cmds))
    /\ lru' = lru \cup Fetched(Touched(cmds))
    /\ UNCHANGED <<disk, dump, faults>>

(* DisconnectTip: every command of the block is undone.                    *)
DisconnectTip ==
    /\ ~dumping /\ chain # <<>>
    /\ passets' = Flush(RemoveCommands(chain[Len(chain)].cmds))
    /\ chain' = SubSeq(chain, 1, Len(chain) - 1)
    /\ UNCHANGED <<lru, disk, dump, faults>>

(* A lookup under cs_main that concerns no block: a transaction offered to *)
(* the memory pool, a wallet's coin selection.                             *)
Lookup(k) ==
    /\ ~dumping
    /\ lru' = lru \cup Fetched({k})
    /\ UNCHANGED <<chain, passets, disk, dump, faults>>

(* CLRUCache::Put for a key of no interest here evicts the oldest.         *)
Evict(k) ==
    /\ lru' = lru \ {k}
    /\ UNCHANGED <<chain, passets, disk, dump, faults>>

(* FlushStateToDisk up to DumpCacheToDatabase: the coins are written and   *)
(* the database is at the tip.  cs_main is held until EndDump.             *)
BeginDump ==
    /\ ~dumping
    /\ dumping' = TRUE
    /\ todoAdd' = Touched(passets.toAdd) /\ todoRemove' = Touched(passets.toRemove)
    /\ diskChain' = chain
    /\ UNCHANGED <<memory, db, faults>>

(* One entry of the dump: the LRU cache and the database take the change.  *)
Write(k, set) ==
    /\ lru' = IF set THEN lru \cup {k} ELSE lru \ {k}
    /\ db' = IF set THEN db \cup {k} ELSE db \ {k}
    /\ UNCHANGED <<chain, passets, diskChain, dumping, faults>>

(* Mutant of DumpAdd: an erased key stays in the LRU cache.                *)
MutDumpAdd(k) ==
    /\ k \in todoAdd /\ todoAdd' = todoAdd \ {k} /\ UNCHANGED todoRemove
    /\ lru' = IF passets.toAdd[k] = "add" THEN lru \cup {k} ELSE lru
    /\ db' = IF passets.toAdd[k] = "add" THEN db \cup {k} ELSE db \ {k}
    /\ UNCHANGED <<chain, passets, diskChain, dumping, faults>>

DumpAdd(k) ==
    /\ k \in todoAdd
    /\ todoAdd' = todoAdd \ {k} /\ UNCHANGED todoRemove
    /\ Write(k, passets.toAdd[k] = "add")

(* Mutant of DumpRemove: undoing a removal is forgotten.                   *)
MutDumpRemove(k) ==
    /\ todoAdd = {} /\ k \in todoRemove
    /\ todoRemove' = todoRemove \ {k} /\ UNCHANGED todoAdd
    /\ Write(k, FALSE)

(* The undone commands are written after the new ones.                     *)
DumpRemove(k) ==
    /\ todoAdd = {} /\ k \in todoRemove
    /\ todoRemove' = todoRemove \ {k} /\ UNCHANGED todoAdd
    /\ Write(k, passets.toRemove[k] = "remove")

(* ClearDirtyCache.                                                        *)
EndDump ==
    /\ dumping /\ todoAdd = {} /\ todoRemove = {}
    /\ dumping' = FALSE
    /\ passets' = EmptyCache
    /\ UNCHANGED <<chain, lru, disk, todoAdd, todoRemove, faults>>

(* The node dies, or stops on a failed write, and starts again from what   *)
(* is on disk.                                                             *)
Crash ==
    /\ crashes < MaxCrashes /\ crashes' = crashes + 1
    /\ chain' = diskChain
    /\ passets' = EmptyCache
    /\ lru' = {}
    /\ lost' = lost \cup todoAdd \cup todoRemove
    /\ dumping' = FALSE /\ todoAdd' = {} /\ todoRemove' = {}
    /\ UNCHANGED disk

Next ==
    \/ \E cmds \in Commands : ConnectTip(cmds)
    \/ DisconnectTip
    \/ \E k \in Key : Lookup(k) \/ Evict(k) \/ DumpAdd(k) \/ DumpRemove(k)
    \/ BeginDump
    \/ EndDump
    \/ Crash

Spec == Init /\ [][Next]_vars

-----------------------------------------------------------------------------
(* Types; a key is never both added and undone in passets.                 *)
TypeOK ==
    /\ chain \in Seq(Block) /\ diskChain \in Seq(Block)
    /\ passets \in Cache
    /\ \A k \in Key : "none" \in {passets.toAdd[k], passets.toRemove[k]}
    /\ lru \subseteq Key /\ db \subseteq Key
    /\ dumping \in BOOLEAN /\ todoAdd \subseteq Key /\ todoRemove \subseteq Key
    /\ lost \subseteq Key /\ crashes \in 0 .. MaxCrashes

(* Whatever has been connected, disconnected, dumped in part or in full,   *)
(* cached and evicted, the answer for a key is what the commands of the    *)
(* active chain say, unless a crash lost its entry.  For a root qualifier  *)
(* that has sub qualifiers the code gives no such answer (see README).     *)
AnswersExact == \A k \in Leaf \ lost : CheckFor(k) <=> k \in Tagged

(* What a restart would find: the database agrees with the chain the coins *)
(* are at, in the middle of a dump in every entry already written.         *)
DiskFollowsChain ==
    \A k \in Leaf \ (lost \cup todoAdd \cup todoRemove) : k \in db <=> k \in TaggedAt(diskChain)

(* The answers do not depend on when a node flushes, what it has cached or *)
(* looked up: a step that leaves the chain as it is changes none, not even *)
(* for a key whose entry was lost.                                         *)
FlushInvisible ==
    [][chain' = chain /\ crashes' = crashes
         => \A k \in Leaf : CheckFor(k)' = CheckFor(k)]_vars
=============================================================================
