------------------------------ MODULE BlockTree ------------------------------
(***************************************************************************)
(* The block tree and the choice of the active chain                       *)
(* (src/src/validation.cpp): headers and blocks arrive in any order,       *)
(* ActivateBestChain moves the tip towards the most-work chain in steps    *)
(* between which cs_main is released, an operator invalidates, reconsiders *)
(* and prefers blocks, block files are pruned, and the node is restarted.  *)
(*                                                                         *)
(* The tree of all blocks that could exist is a constant; a run reveals it *)
(* piece by piece.  A block's contents are reduced to whether they pass    *)
(* the contextual checks and whether they connect.                         *)
(***************************************************************************)
EXTENDS Integers, FiniteSets

CONSTANTS
    Block,              \* every block of the tree
    Genesis,
    Parent,             \* the previous block (Genesis for Genesis itself)
    Height,
    Work,               \* nChainWork
    Addr,               \* order of the CBlockIndex objects in memory
    BadContext,         \* blocks that fail ContextualCheckBlock
    BadConnect,         \* blocks that fail ConnectBlock
    Thread,             \* callers of ActivateBestChain (message handler, RPC, import)
    None,
    MinBlocksToKeep,    \* MIN_BLOCKS_TO_KEEP
    MinimumChainWork,   \* nMinimumChainWork
    MaxReorgDepth,      \* -maxreorg
    Guarded,            \* TRUE iff the peers are -minreorgpeers and the tip is young enough
    Commands,           \* what the operator does: subset of AllCommands
    MaxCommands,        \* bound on the number of such commands
    MaxSequenceId       \* bound on nBlockSequenceId

AllCommands == {"invalidate", "reconsider", "precious", "prune", "restart"}

(* BlockStatus: the validity levels.                                       *)
VALID_TREE == 2
VALID_TRANSACTIONS == 3
VALID_SCRIPTS == 5

ASSUME TreeAssumption ==
    /\ Genesis \in Block /\ IsFiniteSet(Block)
    /\ Parent \in [Block -> Block]
    /\ Height \in [Block -> Nat]
    /\ Work \in [Block -> Nat]
    /\ Addr \in [Block -> Nat] /\ \A x, y \in Block : x # y => Addr[x] # Addr[y]
    /\ \A b \in Block \ {Genesis} : Height[b] = Height[Parent[b]] + 1 /\ Work[b] > Work[Parent[b]]
    /\ Height[Genesis] = 0 /\ Parent[Genesis] = Genesis

ASSUME OtherAssumption ==
    /\ BadContext \subseteq Block \ {Genesis} /\ BadConnect \subseteq Block \ {Genesis}
    /\ None \notin Block
    /\ MinBlocksToKeep \in Nat /\ MinimumChainWork \in Nat
    /\ MaxReorgDepth \in Nat /\ Guarded \in BOOLEAN
    /\ Commands \subseteq AllCommands /\ MaxCommands \in Nat /\ MaxSequenceId \in Nat

VARIABLES
    known,          \* mapBlockIndex
    valid,          \* nStatus & BLOCK_VALID_MASK
    data,           \* nStatus & BLOCK_HAVE_DATA
    undo,           \* nStatus & BLOCK_HAVE_UNDO
    failed,         \* nStatus & BLOCK_FAILED_MASK, a subset of {"VALID", "CHILD"}
    processed,      \* nTx > 0
    linked,         \* nChainTx > 0
    sequenceId,     \* nSequenceId
    candidates,     \* setBlockIndexCandidates
    unlinked,       \* mapBlocksUnlinked: the pairs <<parent, block>> it has once or more often
    failedBlocks,   \* g_failed_blocks
    tip,            \* chainActive.Tip()
    nextSequenceId, \* nBlockSequenceId
    reverseSequenceId,  \* nBlockReverseSequenceId
    lastPrecious,   \* nLastPreciousChainwork
    havePruned,     \* fHavePruned
    activating,     \* the threads inside ActivateBestChain
    mostWork,       \* pindexMostWork, local to each call of ActivateBestChain
    node,           \* "running", "aborted" (AbortNode), "assert" (a failed assert)
    commands        \* commands the operator has issued

index == <<known, valid, data, undo, failed, processed, linked, sequenceId>>
sets == <<candidates, unlinked, failedBlocks>>
counters == <<nextSequenceId, reverseSequenceId, lastPrecious>>
threads == <<activating, mostWork>>
vars == <<index, sets, counters, threads, tip, havePruned, node, commands>>

-----------------------------------------------------------------------------
(* The tree.                                                               *)
Ancestors[b \in Block] == IF b = Genesis THEN {b} ELSE {b} \cup Ancestors[Parent[b]]

Chain == Ancestors[tip]     \* chainActive

Highest(S) == CHOOSE b \in S : \A x \in S : Height[x] <= Height[b]
Lowest(S) == CHOOSE b \in S : \A x \in S : Height[b] <= Height[x]

(* CBlockIndexWorkComparator: a sorts before (is worse than) b.            *)
Worse(a, b, seq) ==
    \/ Work[a] < Work[b]
    \/ Work[a] = Work[b] /\ seq[a] > seq[b]
    \/ Work[a] = Work[b] /\ seq[a] = seq[b] /\ Addr[a] > Addr[b]

(* CBlockIndex::IsValid(nUpTo)                                             *)
IsValid(b, upTo) == failed[b] = {} /\ valid[b] >= upTo

(* Mutant of PruneCandidates: the comparison is turned round.              *)
MutPruneCandidates(cand, b, seq) == {c \in cand : Worse(b, c, seq)}

(* PruneBlockIndexCandidates                                               *)
PruneCandidates(cand, b, seq) == {c \in cand : ~Worse(c, b, seq)}

-----------------------------------------------------------------------------
Init ==
    /\ known = {Genesis}
    /\ valid = [b \in Block |-> IF b = Genesis THEN VALID_SCRIPTS ELSE 0]
    /\ data = [b \in Block |-> b = Genesis]
    /\ undo = [b \in Block |-> FALSE]
    /\ failed = [b \in Block |-> {}]
    /\ processed = [b \in Block |-> b = Genesis]
    /\ linked = [b \in Block |-> b = Genesis]
    /\ sequenceId = [b \in Block |-> IF b = Genesis THEN 1 ELSE 0]
    /\ candidates = {Genesis}
    /\ unlinked = {}
    /\ failedBlocks = {}
    /\ tip = Genesis
    /\ nextSequenceId = 2
    /\ reverseSequenceId = -1
    /\ lastPrecious = 0
    /\ havePruned = FALSE
    /\ activating = {}
    /\ mostWork = [t \in Thread |-> None]
    /\ node = "running"
    /\ commands = 0

-----------------------------------------------------------------------------
(* AcceptBlockHeader.  The blocks of g_failed_blocks a new header on p     *)
(* would descend from; not looked for when p is known to be valid.         *)
FailedAncestors(p) ==
    IF IsValid(p, VALID_SCRIPTS) THEN {} ELSE failedBlocks \cap Ancestors[p]

(* ContextualCheckBlockHeader: "If this is a reorg, check that it is not   *)
(* too deep", which looks at the parent's height only.                     *)
TooDeep(p) == Guarded /\ Height[tip] - Height[p] >= MaxReorgDepth

HeaderOk(b) ==
    IF b \in known THEN failed[b] = {}
    ELSE /\ Parent[b] \in known /\ failed[Parent[b]] = {} /\ ~TooDeep(Parent[b])
         /\ FailedAncestors(Parent[b]) = {}

(* Mutant of KnownWith: the new entry is not put in mapBlockIndex.         *)
MutKnownWith(b) == known

(* AddToBlockIndex, for the handlers that go on with the new entry.        *)
KnownWith(b) == known \cup {b}
ValidWith(b) == IF b \in known THEN valid ELSE [valid EXCEPT ![b] = VALID_TREE]

AcceptHeader(b) ==
    /\ b \notin known
    /\ HeaderOk(b)
    /\ known' = KnownWith(b)
    /\ valid' = ValidWith(b)
    /\ UNCHANGED <<data, undo, failed, processed, linked, sequenceId, sets, counters, threads,
                   tip, havePruned, node, commands>>

(* Mutant of MarkedPath: the walk does not stop at the failed block.       *)
MutMarkedPath(b, f) == Ancestors[Parent[b]]

(* The blocks between a refused header and the failed block below it.      *)
MarkedPath(b, f) == Ancestors[Parent[b]] \ Ancestors[f]

(* A header on a block that descends from a block found invalid: the path  *)
(* to that block is marked, and the header refused.                        *)
RejectHeader(b) ==
    /\ b \notin known
    /\ Parent[b] \in known
    /\ failed[Parent[b]] = {} /\ ~TooDeep(Parent[b])
    /\ \E f \in FailedAncestors(Parent[b]) :
         IF "VALID" \in failed[f]
         THEN /\ failed' = [x \in Block |->
                              IF x \in MarkedPath(b, f)
                              THEN failed[x] \cup {"CHILD"} ELSE failed[x]]
              /\ UNCHANGED node
         ELSE node' = "assert" /\ UNCHANGED failed
    /\ UNCHANGED <<known, valid, data, undo, processed, linked, sequenceId, sets, counters, threads,
                   tip, havePruned, commands>>

-----------------------------------------------------------------------------
(* Mutant of NowLinked: what hangs off the blocks it links is not taken.   *)
MutNowLinked(b) == {b} \cup {d \in Block \ {Genesis} : Parent[d] = b /\ <<b, d>> \in unlinked}

(* ReceivedBlockTransactions.  The blocks that become linked when b's      *)
(* data arrives: b and what hangs off it through mapBlocksUnlinked.        *)
NowLinked(b) ==
    {d \in Block : b \in Ancestors[d] /\ \A x \in Ancestors[d] \ Ancestors[b] : <<Parent[x], x>> \in unlinked}

(* The orders in which the queue may number them: parents first.           *)
QueueOrders(S) ==
    {rank \in [S -> 0 .. Cardinality(S) - 1] :
        \A x, y \in S : x # y => rank[x] # rank[y] /\ (Height[x] < Height[y] => rank[x] < rank[y])}

(* Mutant of LinkBlocks: any linked block becomes a candidate.             *)
MutLinkBlocks(b) ==
    LET new == NowLinked(b) IN
    /\ nextSequenceId + Cardinality(new) <= MaxSequenceId
    /\ \E rank \in QueueOrders(new) :
         /\ sequenceId' = [x \in Block |-> IF x \in new THEN nextSequenceId + rank[x] ELSE sequenceId[x]]
         /\ candidates' = candidates \cup new
    /\ linked' = [x \in Block |-> x \in new \/ linked[x]]
    /\ nextSequenceId' = nextSequenceId + Cardinality(new)
    /\ unlinked' = {p \in unlinked : p[1] \notin new}

(* Mutant of LinkBlocks: mapBlocksUnlinked keeps the blocks now linked.    *)
MutLinkBlocksKeeps(b) ==
    LET new == NowLinked(b) IN
    /\ nextSequenceId + Cardinality(new) <= MaxSequenceId
    /\ \E rank \in QueueOrders(new) :
         LET seq == [x \in Block |-> IF x \in new THEN nextSequenceId + rank[x] ELSE sequenceId[x]] IN
         /\ sequenceId' = seq
         /\ candidates' = candidates \cup {x \in new : ~Worse(x, tip, seq)}
    /\ linked' = [x \in Block |-> x \in new \/ linked[x]]
    /\ nextSequenceId' = nextSequenceId + Cardinality(new)
    /\ UNCHANGED unlinked

LinkBlocks(b) ==
    LET new == NowLinked(b) IN
    /\ nextSequenceId + Cardinality(new) <= MaxSequenceId
    /\ \E rank \in QueueOrders(new) :
         LET seq == [x \in Block |-> IF x \in new THEN nextSequenceId + rank[x] ELSE sequenceId[x]] IN
         /\ sequenceId' = seq
         /\ candidates' = candidates \cup {x \in new : ~Worse(x, tip, seq)}
    /\ linked' = [x \in Block |-> x \in new \/ linked[x]]
    /\ nextSequenceId' = nextSequenceId + Cardinality(new)
    /\ unlinked' = {p \in unlinked : p[1] \notin new}

(* Mutant of HoldBlock: mapBlocksUnlinked is not told.                     *)
MutHoldBlock(b) ==
    /\ linked' = [linked EXCEPT ![b] = FALSE]
    /\ UNCHANGED <<unlinked, sequenceId, candidates, nextSequenceId>>

HoldBlock(b) ==
    /\ linked' = [linked EXCEPT ![b] = FALSE]
    /\ unlinked' = IF failed[Parent[b]] = {} THEN unlinked \cup {<<Parent[b], b>>} ELSE unlinked
    /\ UNCHANGED <<sequenceId, candidates, nextSequenceId>>

ReceivedBlockTransactions(b) ==
    /\ data' = [data EXCEPT ![b] = TRUE]
    /\ processed' = [processed EXCEPT ![b] = TRUE]
    /\ valid' = [ValidWith(b) EXCEPT ![b] = IF @ < VALID_TRANSACTIONS THEN VALID_TRANSACTIONS ELSE @]
    /\ IF linked[Parent[b]] THEN LinkBlocks(b) ELSE HoldBlock(b)

(* AcceptBlock returns early, successfully.                                *)
NotStored(b, requested) ==
    \/ data[b]
    \/ ~requested /\ \/ processed[b]
                     \/ Work[b] <= Work[tip]
                     \/ Height[b] > Height[tip] + MinBlocksToKeep
                     \/ Work[b] < MinimumChainWork

EnterActivation(t) ==
    /\ activating' = activating \cup {t}
    /\ mostWork' = [mostWork EXCEPT ![t] = None]

(* ProcessNewBlock: AcceptBlock under cs_main, then ActivateBestChain.     *)
ProcessNewBlock(t, b, requested) ==
    /\ t \notin activating
    /\ b # Genesis
    /\ HeaderOk(b)
    /\ known' = KnownWith(b)
    /\ \/ /\ NotStored(b, requested)
          /\ valid' = ValidWith(b)
          /\ EnterActivation(t)
          /\ UNCHANGED <<data, undo, failed, processed, linked, sequenceId, sets, nextSequenceId>>
       \/ /\ ~NotStored(b, requested)
          /\ b \in BadContext
          /\ valid' = ValidWith(b)
          /\ failed' = [failed EXCEPT ![b] = @ \cup {"VALID"}]
          /\ UNCHANGED <<data, undo, processed, linked, sequenceId, sets, nextSequenceId, threads>>
       \/ /\ ~NotStored(b, requested)
          /\ b \notin BadContext
          /\ ReceivedBlockTransactions(b)
          /\ EnterActivation(t)
          /\ UNCHANGED <<undo, failed, failedBlocks>>
    /\ UNCHANGED <<reverseSequenceId, lastPrecious, tip, havePruned, node, commands>>

-----------------------------------------------------------------------------
(* Mutant of Unusable: only the data is looked at.                         *)
MutUnusable(b, flags) == {x \in Ancestors[b] \ Chain : ~data[x]}

(* What keeps the chain of candidate b from being activated.               *)
Unusable(b, flags) == {x \in Ancestors[b] \ Chain : flags[x] # {} \/ ~data[x]}

(* FindMostWorkChain: one turn of its loop.  The best candidate is dropped *)
(* with the blocks above the first unusable block below it.                *)
Discard(s) ==
    IF s.candidates = {} THEN s
    ELSE LET best == CHOOSE c \in s.candidates :
                        \A x \in s.candidates : x = c \/ Worse(x, c, sequenceId)
             unusable == Unusable(best, s.failed)
         IN IF unusable = {} THEN s
            ELSE LET first == Highest(unusable)
                     above == Ancestors[best] \ Ancestors[first]
                 IN [candidates |-> s.candidates \ (above \cup {first}),
                     failed     |-> IF s.failed[first] = {} THEN s.failed
                                    ELSE [x \in Block |-> IF x \in above THEN s.failed[x] \cup {"CHILD"}
                                                                         ELSE s.failed[x]],
                     unlinked   |-> IF s.failed[first] # {} THEN s.unlinked
                                    ELSE s.unlinked \cup {<<Parent[x], x>> : x \in above}]

(* Every turn drops a candidate or finds nothing to drop.  The outcomes of *)
(* the whole loop (there is one).                                          *)
Start == [candidates |-> candidates, failed |-> failed, unlinked |-> unlinked]
Search ==
    LET turn[n \in 0 .. Cardinality(candidates)] ==
          IF n = 0 THEN {Start} ELSE {Discard(s) : s \in turn[n - 1]}
    IN turn[Cardinality(candidates)]

MostWork(cand) ==
    IF cand = {} THEN None
    ELSE CHOOSE c \in cand : \A x \in cand : x = c \/ Worse(x, c, sequenceId)

(* FindMostWorkChain runs unless this call still has its pindexMostWork.   *)
Found(t) == IF mostWork[t] # None THEN {Start} ELSE Search
Target(t, found) == IF mostWork[t] # None THEN mostWork[t] ELSE MostWork(found.candidates)

LeaveActivation(t) ==
    /\ activating' = activating \ {t}
    /\ mostWork' = [mostWork EXCEPT ![t] = None]

(* Nothing to do: the tip is the most-work chain.                          *)
ActivateDone(t, found, target) ==
    /\ target \in {None, tip}
    /\ candidates' = found.candidates
    /\ failed' = found.failed
    /\ unlinked' = found.unlinked
    /\ LeaveActivation(t)
    /\ UNCHANGED <<known, valid, data, undo, processed, linked, sequenceId, failedBlocks, counters,
                   tip, havePruned, node, commands>>

(* ActivateBestChainStep: disconnect down to the fork, then connect along  *)
(* the path until the tip has more work than before, the path ends, or a   *)
(* block turns out invalid.  The last block it tries:                      *)
Path(target) == Ancestors[target] \ Chain
LastTried(target) ==
    Lowest({x \in Path(target) : x = target \/ x \in BadConnect \/ Work[x] > Work[tip]})

(* DisconnectTip fails: the block or its undo data is not on disk.         *)
Stuck(x) == ~data[x] \/ ~undo[x]

(* A block that must be disconnected or connected cannot be read.          *)
DataGone(target) ==
    \/ \E x \in Chain \ Ancestors[target] : Stuck(x)
    \/ Path(target) # {} /\ \E x \in Ancestors[LastTried(target)] \ Chain : ~data[x]

ActivateAborts(t, found, target) ==
    /\ target \notin {None, tip}
    /\ DataGone(target)
    /\ node' = "aborted"
    /\ UNCHANGED <<index, sets, counters, threads, tip, havePruned, commands>>

(* Mutant of AfterInvalid: the target is kept.                             *)
MutAfterInvalid(t) == UNCHANGED mostWork

(* "Wipe cache, we may need another branch now."                           *)
AfterInvalid(t) == mostWork' = [mostWork EXCEPT ![t] = None]

ActivateStep(t, found, target) ==
    LET last == IF Path(target) = {} THEN target ELSE LastTried(target)
        invalid == Path(target) # {} /\ last \in BadConnect
        newTip == IF invalid THEN Parent[last] ELSE last
        connected == Ancestors[newTip] \ Chain
        kept == IF connected = {} THEN found.candidates
                ELSE PruneCandidates(found.candidates, newTip, sequenceId)
    IN
    /\ target \notin {None, tip}
    /\ ~DataGone(target)
    /\ tip' = newTip
    /\ valid' = [x \in Block |-> IF x \in connected /\ failed[x] = {} THEN VALID_SCRIPTS ELSE valid[x]]
    /\ undo' = [x \in Block |-> x \in connected \/ undo[x]]
    /\ unlinked' = found.unlinked
    /\ node' = IF connected # {} /\ kept = {} THEN "assert" ELSE node
    /\ IF invalid
       THEN /\ failed' = [found.failed EXCEPT ![last] = @ \cup {"VALID"}]
            /\ failedBlocks' = failedBlocks \cup {last}
            /\ candidates' = kept \ {last}
            /\ AfterInvalid(t)
            /\ UNCHANGED activating
       ELSE /\ failed' = found.failed
            /\ candidates' = kept
            /\ UNCHANGED failedBlocks
            /\ IF newTip = target THEN LeaveActivation(t)
               ELSE /\ mostWork' = [mostWork EXCEPT ![t] = target]
                    /\ UNCHANGED activating
    /\ UNCHANGED <<known, data, processed, linked, sequenceId, counters, havePruned, commands>>

-----------------------------------------------------------------------------
Command(c) ==
    /\ c \in Commands
    /\ commands < MaxCommands
    /\ commands' = commands + 1

(* Mutant of Readmitted: the blocks as good as the new tip are not added.  *)
MutReadmitted(flags, newTip) == {}

(* InvalidateBlock, ending: every block as good as the new tip is made a   *)
(* candidate again.                                                        *)
Readmitted(flags, newTip) ==
    {x \in known : /\ flags[x] = {} /\ valid[x] >= VALID_TRANSACTIONS
                   /\ linked[x] /\ ~Worse(x, newTip, sequenceId)}

(* invalidateblock: InvalidateBlock under cs_main, then ActivateBestChain. *)
(* The genesis block, like a pruned one, cannot be disconnected.           *)
Invalidate(t, b) ==
    LET inChain == b \in Chain
        stuck == {x \in Chain : b \in Ancestors[x] /\ Stuck(x)}
        newTip == IF inChain THEN Parent[b] ELSE tip
        below == IF inChain THEN Chain \ Ancestors[b] ELSE {}
        flags == [x \in Block |-> IF x = b THEN failed[x] \cup {"VALID"}
                                  ELSE IF x \in below THEN failed[x] \cup {"CHILD"} ELSE failed[x]]
    IN
    /\ Command("invalidate")
    /\ t \notin activating
    /\ b \in known
    /\ IF stuck # {}
       THEN /\ tip' = Highest(stuck)
            /\ UNCHANGED <<failed, candidates, failedBlocks>>
       ELSE /\ tip' = newTip
            /\ failed' = flags
            /\ candidates' = (candidates \ (below \cup {b})) \cup Readmitted(flags, newTip)
            /\ failedBlocks' = failedBlocks \cup {b}
    /\ EnterActivation(t)
    /\ UNCHANGED <<known, valid, data, undo, processed, linked, sequenceId, unlinked, counters,
                   havePruned, node>>

(* reconsiderblock: ResetBlockFailureFlags, then ActivateBestChain.        *)
Reconsider(t, b) ==
    LET reset == {x \in known : b \in Ancestors[x] /\ ~IsValid(x, VALID_TRANSACTIONS)} IN
    /\ Command("reconsider")
    /\ t \notin activating
    /\ b \in known
    /\ failed' = [x \in Block |-> IF x \in reset \cup Ancestors[b] THEN {} ELSE failed[x]]
    /\ candidates' = candidates \cup {x \in reset : /\ valid[x] >= VALID_TRANSACTIONS
                                                    /\ linked[x] /\ Worse(tip, x, sequenceId)}
    /\ failedBlocks' = failedBlocks \ reset
    /\ EnterActivation(t)
    /\ UNCHANGED <<known, valid, data, undo, processed, linked, sequenceId, unlinked, counters, tip,
                   havePruned, node>>

(* preciousblock: a block with less work than the tip is left alone.       *)
Precious(t, b) ==
    LET reverse == IF Work[tip] > lastPrecious THEN -1 ELSE reverseSequenceId
        seq == [sequenceId EXCEPT ![b] = reverse]
        eligible == IsValid(b, VALID_TRANSACTIONS) /\ linked[b]
        kept == PruneCandidates(candidates \cup {b}, tip, seq)
    IN
    /\ Command("precious")
    /\ t \notin activating
    /\ b \in known
    /\ Work[b] >= Work[tip]
    /\ lastPrecious' = Work[tip]
    /\ sequenceId' = seq
    /\ reverseSequenceId' = reverse - 1
    /\ candidates' = IF eligible THEN kept ELSE candidates \ {b}
    /\ node' = IF eligible /\ kept = {} THEN "assert" ELSE node
    /\ EnterActivation(t)
    /\ UNCHANGED <<known, valid, data, undo, failed, processed, linked, unlinked, failedBlocks,
                   nextSequenceId, tip, havePruned>>

(* Mutant of Prune: the block stays in mapBlocksUnlinked.                  *)
MutPrune(b) ==
    /\ Command("prune")
    /\ data[b]
    /\ Height[b] + MinBlocksToKeep <= Height[tip]
    /\ data' = [data EXCEPT ![b] = FALSE]
    /\ undo' = [undo EXCEPT ![b] = FALSE]
    /\ havePruned' = TRUE
    /\ UNCHANGED <<known, valid, failed, processed, linked, sequenceId, candidates, unlinked, failedBlocks,
                   counters, threads, tip, node>>

(* PruneOneBlockFile, for a file that holds one block far below the tip.   *)
Prune(b) ==
    /\ Command("prune")
    /\ data[b]
    /\ Height[b] + MinBlocksToKeep <= Height[tip]
    /\ data' = [data EXCEPT ![b] = FALSE]
    /\ undo' = [undo EXCEPT ![b] = FALSE]
    /\ unlinked' = unlinked \ {<<Parent[b], b>>}
    /\ havePruned' = TRUE
    /\ UNCHANGED <<known, valid, failed, processed, linked, sequenceId, candidates, failedBlocks,
                   counters, threads, tip, node>>

(* LoadBlockIndexDB: nChainTx is rebuilt from the parents' transactions.   *)
Loaded == [x \in Block |-> \A a \in Ancestors[x] : processed[a]]

(* LoadBlockIndexDB: the candidates before LoadChainTip prunes them.       *)
Reloaded(flags, link) == {x \in known : flags[x] = {} /\ valid[x] >= VALID_TRANSACTIONS /\ link[x]}

(* A clean shutdown and LoadBlockIndexDB, LoadChainTip; the import thread  *)
(* then calls ActivateBestChain.                                           *)
Restart(t) ==
    LET flags == [x \in Block |-> IF x \in known /\ failed[x] = {} /\ \E a \in Ancestors[x] : failed[a] # {}
                                  THEN {"CHILD"} ELSE failed[x]]
        link == Loaded
        seq == [x \in Block |-> 0]
        kept == PruneCandidates(Reloaded(flags, link), tip, seq)
    IN
    /\ Command("restart")
    /\ failed' = flags
    /\ linked' = link
    /\ sequenceId' = seq
    /\ unlinked' = {<<Parent[x], x>> : x \in {y \in known : processed[y] /\ ~link[Parent[y]]}}
    /\ candidates' = kept
    /\ node' = IF kept = {} THEN "assert" ELSE node
    /\ failedBlocks' = {}
    /\ nextSequenceId' = 1
    /\ reverseSequenceId' = -1
    /\ lastPrecious' = 0
    /\ activating' = {t}
    /\ mostWork' = [x \in Thread |-> None]
    /\ UNCHANGED <<known, valid, data, undo, processed, tip, havePruned>>

-----------------------------------------------------------------------------
(* One turn of ActivateBestChain's loop, under cs_main.                    *)
Activate(t) ==
    /\ t \in activating
    /\ \E found \in Found(t) : \E target \in {Target(t, found)} :
         \/ ActivateDone(t, found, target)
         \/ ActivateAborts(t, found, target)
         \/ ActivateStep(t, found, target)

Next ==
    /\ node = "running"
    /\ \/ \E b \in Block : AcceptHeader(b) \/ RejectHeader(b) \/ Prune(b)
       \/ \E t \in Thread : Activate(t) \/ Restart(t)
       \/ \E t \in Thread, b \in Block, requested \in BOOLEAN : ProcessNewBlock(t, b, requested)
       \/ \E t \in Thread, b \in Block : Invalidate(t, b) \/ Reconsider(t, b) \/ Precious(t, b)

(* A call of ActivateBestChain goes on until it returns.                   *)
Fairness == \A t \in Thread : WF_vars(node = "running" /\ Activate(t))

Spec == Init /\ [][Next]_vars
FairSpec == Spec /\ Fairness

-----------------------------------------------------------------------------
(* The state of the index, the sets and the threads has its type.          *)
TypeOK ==
    /\ known \subseteq Block /\ Genesis \in known
    /\ valid \in [Block -> {0, VALID_TREE, VALID_TRANSACTIONS, VALID_SCRIPTS}]
    /\ {data, undo, processed, linked} \subseteq [Block -> BOOLEAN]
    /\ failed \in [Block -> SUBSET {"VALID", "CHILD"}]
    /\ sequenceId \in [Block -> Int]
    /\ candidates \subseteq known
    /\ unlinked \subseteq Block \X Block
    /\ failedBlocks \subseteq known
    /\ tip \in known
    /\ nextSequenceId \in Nat /\ reverseSequenceId \in Int /\ lastPrecious \in Nat
    /\ havePruned \in BOOLEAN
    /\ activating \subseteq Thread
    /\ mostWork \in [Thread -> Block \cup {None}]
    /\ node \in {"running", "aborted", "assert"}
    /\ commands \in 0 .. MaxCommands

(* What CheckBlockIndex walks the tree for: the first ancestor that ...    *)
HasInvalid(b) == \E a \in Ancestors[b] : "VALID" \in failed[a]
HasMissing(b) == \E a \in Ancestors[b] : ~data[a]
HasUnprocessed(b) == \E a \in Ancestors[b] : ~processed[a]
InUnlinked(b) == <<Parent[b], b>> \in unlinked

(* A block pruned while it waited for a parent.  PruneOneBlockFile takes   *)
(* it out of mapBlocksUnlinked, so neither it nor what is above it is      *)
(* linked when the parent comes, but when it is downloaded again or the    *)
(* node restarts.  A restart before the parent comes files the block       *)
(* again, without its data.                                                *)
Forgotten(b) == processed[b] /\ ~data[b] /\ ~linked[b]

(* CheckBlockIndex: data, transactions received and validity level agree   *)
(* for every block; a linked block's parents were all received, and a      *)
(* fully valid block's parents are fully valid.                            *)
FieldsConsistent ==
    \A b \in known :
        /\ ~linked[b] => sequenceId[b] <= 0
        /\ IF havePruned THEN data[b] => processed[b] ELSE data[b] = processed[b]
        /\ undo[b] => data[b]
        /\ (valid[b] >= VALID_TRANSACTIONS) = processed[b]
        /\ linked[b] => ~HasUnprocessed(b)
        /\ valid[b] = VALID_SCRIPTS => \A a \in Ancestors[b] : valid[a] = VALID_SCRIPTS

(* CheckBlockIndex: nChainTx is set if and only if the block and all its   *)
(* parents were received.  This is not so of the code once it prunes, or   *)
(* after invalidateblock.                                                  *)
LinkedIffReceived == \A b \in known : linked[b] <=> ~HasUnprocessed(b)

(* The fields of a block agree, and it is linked if and only if it was     *)
(* received with all its ancestors and none of them was forgotten: that is *)
(* how LinkedIffReceived can fail by pruning, and the only way.            *)
ReceiptConsistent ==
    /\ FieldsConsistent
    /\ \A b \in known : linked[b] <=> ~HasUnprocessed(b) /\ \A a \in Ancestors[b] : ~Forgotten(a)

(* A block that is on disk with all its ancestors is linked, so that it    *)
(* can become a candidate, in whatever order they came and however often   *)
(* they were pruned and downloaded again.                                  *)
StoredIsLinked == \A b \in known : ~HasMissing(b) => linked[b]

(* CheckBlockIndex: a block as good as the tip whose chain was received    *)
(* and is not invalid is a candidate while its data is there, and nothing  *)
(* worse than the tip or not yet received is.  Between two steps of        *)
(* ActivateBestChain it need not hold; when no call is under way it does.  *)
CandidatesExact ==
    node = "running" /\ activating = {} => \A b \in known :
        IF ~Worse(b, tip, sequenceId) /\ ~HasUnprocessed(b)
        THEN ~HasInvalid(b) /\ (~HasMissing(b) \/ b = tip) => b \in candidates
        ELSE b \notin candidates

(* CheckBlockIndex: "Can't be in mapBlocksUnlinked if we don't HAVE_DATA". *)
(* This is not so of the code when it prunes and restarts.                 *)
UnlinkedHasData == \A b \in known \ {Genesis} : InUnlinked(b) => data[b]

(* CheckBlockIndex: mapBlocksUnlinked holds what waits for a parent and    *)
(* nothing whose parents are all there; once ActivateBestChain has         *)
(* returned, also what is better than the tip but misses pruned data.      *)
(* What it holds is on disk, or was forgotten: that is how UnlinkedHasData *)
(* can fail, and the only way.                                             *)
UnlinkedExact ==
    \A b \in known \ {Genesis} :
        /\ data[b] /\ HasUnprocessed(b) /\ ~HasInvalid(b) => InUnlinked(b)
        /\ InUnlinked(b) => data[b] \/ Forgotten(b)
        /\ ~HasMissing(b) => ~InUnlinked(b)
        /\ data[b] /\ ~HasUnprocessed(b) /\ HasMissing(b) =>
             /\ havePruned
             /\ activating = {} /\ ~Worse(b, tip, sequenceId) /\ b \notin candidates /\ ~HasInvalid(b)
                  => InUnlinked(b)

(* CheckBlockIndex: "The failed mask cannot be set for blocks without      *)
(* invalid parents."                                                       *)
FailedHasReason == \A b \in known : failed[b] # {} => HasInvalid(b)

(* No assert of AcceptBlockHeader or PruneBlockIndexCandidates fails.      *)
NoAssertFails == node # "assert"

(* A block marked invalid is not part of the active chain.                 *)
NoFailedInChain == \A b \in Chain : failed[b] = {}

(* The chains ActivateBestChain may end on: everything was received and is *)
(* on disk or already connected, nothing is marked or would be found bad.  *)
Usable(b) ==
    /\ linked[b]
    /\ \A a \in Ancestors[b] : failed[a] = {}
    /\ \A a \in Ancestors[b] \ Chain : data[a] /\ a \notin BadConnect

(* Once every call of ActivateBestChain has returned, no usable chain is   *)
(* better than the active one ("either failure or an activated best        *)
(* chain").                                                                *)
BestChainActive ==
    node = "running" /\ activating = {} =>
        \A b \in known : Usable(b) => b = tip \/ Worse(b, tip, sequenceId)

(* Every call of ActivateBestChain returns, or the node stops.             *)
ActivationReturns == \A t \in Thread : (t \in activating) ~> (t \notin activating \/ node # "running")
=============================================================================
