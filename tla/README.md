# UnemployCoin Core: TLA+ models, checks and proofs

UnemployCoin Core is a full node in the Bitcoin Core line (about the 0.16
code) with an asset layer in the manner of Ravencoin. This directory models the part
of it that gets blocks, decides what the chain is, what is unspent and what the
assets are, and keeps the memory pool, and shows what can go wrong there.
All line numbers refer to the commit this project was written against; paths
are relative to the repository's root, where the C++ code is in `src/src`
when the repository is checked out as `src`.

- `PROJECT.json` maps every definition that models code to its lines, lists the
  components, the runs, the mutants that show each property can fail, the
  findings, the hazards and the theorems.
- A run is `tlc -config X.cfg M`; the proofs of a module are checked by
  `tlapm CoinsCacheProofs.tla`, and so for the other `...Proofs` modules and
  `InductionLemmas`.

## 1. Inventory

| Component | State | Operations | Talks to |
|---|---|---|---|
| coins cache (`coins.cpp`) | entries with coin, DIRTY and FRESH; best block | AddCoin, SpendCoin, AccessCoin, BatchWrite, Flush, Uncache | a parent view: another cache or the database |
| chainstate database (`txdb.cpp`), flush and replay (`validation.cpp`, `init.cpp`) | coins, DB_BEST_BLOCK, DB_HEAD_BLOCKS, block index | BatchWrite in batches, FlushStateToDisk, ReplayBlocks, startup | coins cache above, leveldb below, asset databases beside |
| block tree (`validation.cpp`, `chain.*`) | mapBlockIndex, setBlockIndexCandidates, mapBlocksUnlinked, g_failed_blocks, chainActive | headers, blocks, ActivateBestChain, invalidate / reconsider / precious, prune, load | message handling and RPC above, coins below, notifications out |
| script check queue (`checkqueue.h`) | queue, nIdle, nTotal, nTodo, fAllOk | Add, Wait, Loop | ConnectBlock is its master, `-par` threads its workers |
| assets (`assets/`) | caches of new, reissued, transferred, restricted and qualified assets; asset databases; undo data | the functions UpdateCoins, DisconnectBlock and FlushStateToDisk call | written beside the coins |
| memory pool (`txmempool.*`) | entries, links, mapNextTx, per-asset maps | addUnchecked, removeRecursive, removeForReorg, TrimToSize | reads coins, told of blocks |
| message processing (`net_processing.cpp`) | per-peer state, blocks in flight, orphans | ProcessMessage, SendMessages | calls the block tree and the pool |
| address manager (`addrman.cpp`) | new and tried tables | Add, Good, Attempt | connections |
| version bits, difficulty (`versionbits.cpp`, `pow.cpp`) | none (cached functions of the chain) | state per period, next work | header checks |
| scheduler, validation interface | callback queue | AddToProcessQueue, ProcessQueue | wallet, indexes, ZMQ |
| wallet, RPC, Qt, ZMQ, mining | - | - | on top of the above |

What is hard in this code:

- *Layered caches.* An entry marked FRESH is dropped when its coin is spent. If
  the mark is wrong, a spent output comes back. Whether it is right depends on
  the history of block views, flushes, look-ups and `Uncache`.
- *Crashes.* One flush is many writes. The order of index, coins and assets,
  and the marker DB_HEAD_BLOCKS, decide what can be repaired.
- *cs_main is released.* `ActivateBestChain` gives up the lock between steps and
  keeps a pointer to its target; RPC and message threads run in between.
- *Marks and sets that must agree.* Validity marks, candidates, unlinked blocks
  and `g_failed_blocks` are changed by a dozen functions in any order;
  `CheckBlockIndex` says how they should fit together but runs in tests only.
- *Condition variables.* The check queue counts work in batches held outside
  its mutex, with spurious wake-ups and threads interrupted at shutdown.
- *Undo through caches.* An asset or a tag goes from a block's cache to `passets`,
  to an LRU cache and to a database, and can be undone at any of these stages;
  the sets to add and to remove have to cancel.
- *The pool in a reorganisation.* Transactions come back below children that are
  in the pool already; links and totals are wrong for a while and mended after.
- *Peers.* Blocks are asked of one peer and come from another, late or never,
  and peers leave while one of their blocks is being processed.

`PROJECT.json` lists these as hazards, each at its line, with the properties
that cover it.

## 2. Modules

| Module | Models | Kind |
|---|---|---|
| `CoinsView` | what a stack of coin views promises: one map, changed a whole block at a time | abstract specification |
| `CoinsCache` | `CCoinsViewCache` twice over a database, with flags | implements `CoinsView` |
| `CoinsDB` | the chainstate on disk, flush, crash, replay | component |
| `BlockTree` | block index, choice of the active chain, operator commands | component |
| `CheckQueue` | the script verification queue | component |
| `AssetTags` | qualifier, restriction and freeze entries from block to database, with crashes inside the dump | component |
| `AssetData` | issued and reissued assets, verifier strings and their undo data | component |
| `Mempool` | the memory pool with blocks, reorganisations, limits and restarts | component |
| `BlockDownload` | which header and block is asked of which peer, and when a peer is given up | component |
| `InductionLemmas` | induction and recursion over trees, sums over finite sets | TLAPS |
| `CoinsCacheProofs`, `CoinsDBProofs`, `BlockTreeProofs`, `CheckQueueProofs`, `AssetTagsProofs`, `BlockDownloadProofs`, `MempoolProofs` | theorems about the module each is named after | TLAPS |
| `MC...` | small instances of each | TLC |

How they fit: `CoinsCache` shows that what a cache hands down is what the view
above it holds. `CoinsDB` starts there and asks what happens when the handing
down is interrupted. `BlockTree` says which blocks get connected, and reduces
`ConnectBlock` to whether it succeeds; `CheckQueue` is the part of
`ConnectBlock` where threads meet. `AssetTags` and `AssetData` are what
`ConnectBlock` and `DisconnectBlock` do to the asset state; `AssetTags` starts
its dump where `CoinsDB` has its asset write. `Mempool` takes the blocks as they
are connected and disconnected. `BlockDownload` ends where `BlockTree` begins,
at `ProcessNewBlock`, which it reduces to what is stored and which tip is
active.

### CoinsCache

`db` is the database, `tip` is `pcoinsTip`, `view` the `CCoinsViewCache` that
`ConnectTip`, `DisconnectTip` or `TestBlockValidity` puts on top while it
works. An entry is a record: is it cached, its coin (`Spent` for a pruned one),
DIRTY, FRESH. A lookup through the view fills the caches it passes, as
`FetchCoin` does. `AddCoin` has the caller's contract as its guard: an
overwrite only with `possible_overwrite`. `FlushView` is `Flush` and
`BatchWrite` into `pcoinsTip`, entry by entry by `Written`, and records a logic
error if `BatchWrite` would throw. `FlushTip` is the same into the database.
`AccessTip` and `Uncache` are what the memory pool does meanwhile. A coin's
contents are a model value; the one thing about a script that matters here is
whether it is unspendable, since `AddCoin` ignores such outputs. Memory
accounting is left out.

`CoinsView` has two maps, the committed coins and the working copy, and the
refinement mapping reads both through the layers. So the promise is that
flushing, caching and uncaching are invisible, and that a block's coins and its
hash appear at the tip in one step or not at all.

### CoinsDB

The tree of blocks and the outputs each creates and spends are constants. A coin
is represented by the block that created it, so the same output on two branches
is told apart. `BeginFlush` writes the block index and fixes the image the
flush is to leave; `WritePartial` and `WriteFinal` are the batches of
`CCoinsViewDB::BatchWrite`, with any subset of what is pending in a batch; then
`DumpCacheToDatabase` writes the assets. `Crash` can come between any two of
them and between the writes of a replay. `Startup` is `LoadBlockIndex`,
`ReplayBlocks` (from the old head down to the fork, then up to the new head)
and `LoadChainTip`; the phase `failed` is a startup that asks for `-reindex`
because a block it needs, or its undo data, is not in the block index.

A leveldb batch is taken to be atomic and, once written, durable: that is how
the code uses it. Asset changes are reduced to the set of blocks whose changes
are present, written in one step. There are two more ways to a reindex that the
model does not have, so `StartupSucceeds` says nothing of them: `VerifyDB`
(init.cpp:1754), which reads the last blocks back to find corrupted files, and
DISCONNECT_FAILED in the replay (validation.cpp:5038), which besides unreadable
undo data can come from an asset function that does not find the asset it is to
undo.

### BlockTree

The tree of all blocks that may ever exist is a constant and is revealed by
headers and blocks. Per block the module keeps the validity level, the
HAVE_DATA and HAVE_UNDO bits, the failure marks, whether `nTx` and `nChainTx`
are set, and `nSequenceId`; the sets are `candidates`, `unlinked`,
`failedBlocks`. `mapBlocksUnlinked` is a multimap and may hold a pair twice
(`FindMostWorkChain` inserts without looking, validation.cpp:3435); `unlinked` is
the set of its pairs. What takes a pair out takes out all its copies;
`ReceivedBlockTransactions` numbers such a block twice, and no property depends on
the numbers it skips. Every action is what one function does while it holds cs_main:

| Action | Code |
|---|---|
| AcceptHeader, RejectHeader | AcceptBlockHeader, with the reorganisation guard of ContextualCheckBlockHeader |
| ProcessNewBlock | AcceptBlock with ReceivedBlockTransactions, then entry into ActivateBestChain |
| Activate | one turn of ActivateBestChain: FindMostWorkChain, then ActivateBestChainStep |
| Invalidate, Reconsider, Precious | InvalidateBlock, ResetBlockFailureFlags, PreciousBlock, each followed by ActivateBestChain |
| Prune | PruneOneBlockFile |
| Restart | LoadBlockIndexDB and LoadChainTip after a clean shutdown |

`mostWork` is the local variable `pindexMostWork` of each call, kept while the
lock is released. A failed `assert` and `AbortNode` stop the node.

Simplifications: a block file holds one block; a step connects blocks until one
has more work than the old tip, and the limit of 32 blocks a batch is not
reached by trees this size; disk errors, `RewindBlockIndex`, the witness bit,
checkpoints, fork warnings and the notifications are left out; the number of
peers and the tip's age, on which the reorganisation guard depends, are the
constant `Guarded`.

### CheckQueue

A step is a section of `Loop`, `Add` or the control object under the mutex. A
thread outside is working on a batch or asleep; `Spurious` wakes it without a
notification, `Interrupt` ends a worker that sleeps, as `interrupt_all` does at
shutdown, with the counters left as they were. A check is its result. The
result of a batch is settled when it is taken, since executing it touches no
shared state.

### AssetTags

A key is a pair of asset and address; `CheckForAddressQualifier`,
`CheckForAddressRestriction` and `CheckForGlobalRestriction` (and the code that
feeds them) are the same code three times over and are one here. `passets` has
the sets to add and to remove, `lru` and `db` are the LRU cache and the restricted
database. `ConnectTip` checks a block's commands against `passets` as it was
before the block (`VerifyQualifierChange` with `fSkipTempCache`) and merges them
by `Flush`; `DisconnectTip` merges their undoing. `BeginDump`, `DumpAdd`,
`DumpRemove` and `EndDump` are `DumpCacheToDatabase`, one entry a step, after the
coins have been written; `Crash` can come between any two. The variable `lost`
remembers the keys whose entry a crash kept from the database: that these may
be wrong afterwards is the finding `assets_after_crash`, and `AnswersExact` and
`DiskFollowsChain` say that nothing else is.

`-assetindex` data and the look-ups that do not hold cs_main (the RPC
`checkaddresstag`) are left out.

### AssetData

Of an asset's data the module keeps units, IPFS hash and `reissuable`, and
beside it the verifier string; amounts, balances, heights and owner tokens are
left out, except that a reissue needs the owner token, a coin that exists when
the chain has the issue. A block is a sequence of issues and reissues applied
to an empty cache over `passets`, the LRU caches and the databases
(`AddCoins`, `AddNewAsset`, `AddReissueAsset`), with the undo record of
`CBlockAssetUndo`; disconnecting goes through it backwards. `Flush` and
`DumpCacheToDatabase` are the merge and the write. `Ledger` is the reference:
what the chain says, computed without any cache. Of the memory pool the module
has `mapReissuedAssets`, because `CheckTxAssets` consults it for blocks too:
`AcceptReissue` sets an asset's lock (`AcceptToMemoryPoolWorker`, for a new reissue
or one that comes back in a reorganisation), `RemoveReissue` frees it
(`removeUnchecked`), and `ConnectTip` frees those of the block's own reissues after
checking the block. A lock need not ever be freed, as after a restart when its
transaction is not accepted again. A transaction stands for its content, so two
with the same content are one here.

### Mempool

`pool` is a record of the members of `CTxMemPool` (`mapTx` with the totals,
`mapLinks`, `mapNextTx`, `mapDeltas`, `mapAssetToHash`) and of
`mapReissuedAssets`, all keyed as in the code. `AcceptToMemoryPool` is
`AcceptToMemoryPoolWorker`: inputs, conflicts and replacement, the ancestor and
descendant limits, asset checks, `addUnchecked`, `LimitMempoolSize`, and the asset
maps. A reorganisation is a sequence of `DisconnectTip`, `ConnectTip`, `ReAccept`
(one transaction of `UpdateMempoolForReorg`) and `FinishReorg`
(`UpdateTransactionsFromBlock`, `removeForReorg`, limits); cs_main is held all
the while and only `LoadMempool`, which sets priorities with `pool.cs` alone, gets
in between. `Restart` is `DumpMempool` and a new start with
`mapReissuedAssets` as saved.

All transactions have the same size, so sizes add up as counts do. Coinbase
maturity and lock times are one height a transaction is final at. Left out:
the rolling minimum fee, `test_accept`, fee estimation, the address and spent
indexes, the maps for tags, freezes and restricted assets, unique assets, and
`UpdateMempoolForReorg` with `fAddToMempool` false, which only follows a
failed disconnection or a system error.

### BlockDownload

`net` holds `mapNodeState`, `mapBlocksInFlight` and the counters over all
peers. `RecvHeaders`, `RecvInv` and `RecvBlock` are the message handlers,
`SendMessages` is its locked part: start of the headers synchronisation, the
stalling, block and headers time limits, `FindNextBlocksToDownload` and getdata.
Time is which deadlines have passed when `SendMessages` looks. `handling` is the
block a handler has taken out of the queue and not yet given to
`ProcessNewBlock`: cs_main is free in between, and `FinalizeNode`, in the socket
thread, and `SubmitBlock` come in. A peer in `Prompt` stays and answers before
its deadlines; the others may announce and send what is `Offered`, in any order,
or nothing.

All blocks have the same work. Left out: compact blocks, pruned blocks,
`ConsiderEviction` (a disconnection like any other here), misbehaviour scores,
corrupted blocks, several getheaders answers under way from one peer, and the
release of cs_main inside `ProcessNewBlockHeaders`.

## 3. What TLC checks

| Run | Instance | Shows |
|---|---|---|
| `coins_cache` | 2 outputs, 2 coins and an unspendable one, 2 blocks | types, `FlagsTruthful`, `NoLogicError`, and `CoinsView` is implemented |
| `coins_db` | 2 branches of 2 blocks, 3 outputs, 2 crashes | `BestBlockHonest`, `MixtureOfTwo`, `ReplayRestores`, `StartupSucceeds`, and a crashed node comes up (`Recovers`) |
| `selection` | 7 blocks, one bad in context, one bad on connecting, 2 commands out of invalidate, precious, restart | the candidate and unlinked sets are exact, marks have a reason, no assert fails, nothing marked is active, the best usable chain is active |
| `prune` | 6 blocks, 3 commands out of prune, precious, restart | a block is linked exactly when it was received with all its ancestors and none was pruned while it waited (`ReceiptConsistent`), what is on disk is linked, the unlinked blocks are exact but for such a block, after a restart too |
| `threads` | 5 blocks, one bad, 2 threads, 1 command out of invalidate, reconsider, precious | every call of ActivateBestChain returns, or the node stops |
| `check_queue` | 2 workers, 2 masters, 4 checks, batches of 2, 2 blocks | `TodoExact`, `VerdictCorrect`, `SessionIsolated`, `MasterNotStranded`, `WaitReturns` |
| `asset_tags` | a root and a sub qualifier, 3 blocks, 1 crash | answers follow the chain (`AnswersExact`), so does the disk, entry by entry (`DiskFollowsChain`), and dumps and look-ups change no answer (`FlushInvisible`) |
| `asset_data` | a restricted and a plain asset, 2 units, 2 hashes, 2 verifiers, 3 blocks, 2 reissues in the pool | asset data and verifiers are the chain's (`AssetsExact`), a block is accepted or not by the chain and the locks of the pool's reissues, not by what was connected, undone, dumped or looked up before (`AcceptsExactly`), the LRU caches agree with the databases |
| `mempool` | 8 transactions, 6 blocks, pool of 4, limits of 3, 1 restart | `LinksExact`, `TotalsExact`, `InputsAvailable`, `ClaimsExact` |
| `block_download` | 2 peers, 4 blocks and one on a branch, 2 blocks in transit, window of 2 | `AccountsExact`, `StallersOwe`, `LastCommonLinked`, and the node gets the prompt peer's chain (`Synced`) |
| `assets_after_crash`, `mempool_rival` | as `coins_db`, `mempool` | violations, section 4 |

Why the bounds are enough for what they look for:

- coins: the rules concern one output through three layers; the second output
  and the second block let a flush carry unrelated changes.
- crashes: two let the second fall into the replay of the first. The tree has a
  reorganisation with an output that both branches create at the same height
  (one transaction in two blocks), one they create at different heights, and one
  created and spent inside a block.
- trees: every shape has a fork at the root and one of them a second fork
  above, so equal work, reorganisation in both directions and a descendant that
  arrives before its parent all occur. `MinBlocksToKeep` is scaled down so
  that blocks are far enough below the tip to be pruned; `MinimumChainWork` is
  set so that unrequested blocks at height one are too weak.
- queue: with four checks and batches of two the queue can be empty while both
  workers hold a batch, and the third thread, the master, sleeps.

- tags: three blocks let a tag be set, removed and set again with a dump and a
  reorganisation at every point; the sub qualifier `s` is also a key without
  relations, and `r` exercises the root look-ups.
- asset data: a chain issues, refines, changes the hash and the verifier, and
  closes the asset to reissuing, the last also in one block with a refinement;
  three blocks put an undo on either side of a dump. Two reissues of the same asset
  may lock it, each of which is in blocks too, so a block meets its own lock,
  another's, and one left over.
- pool: a chain of three with a transaction that has two parents, a conflict, two
  issues of one name, two reissues of one asset, one transaction that is final
  only later; the limits are small enough that acceptance fails by each of them,
  the pool overflows, and the disconnected transactions overflow too.
- download: the window of 2 closes before the chain of 3 is got, so a slow peer
  becomes a staller; `nMinimumChainWork` keeps the node in initial download until
  the second block; the slow peer's branch ends in a block that fails to
  connect; the slow peer may be whitelisted.

`MaxCommands`, `MaxCrashes`, `MaxSessions`, `MaxChecks`, `MaxSequenceId`,
`MaxBlocks`, `MaxHeight`, `MaxRestarts` and `MaxConnections` are the bounds on
counters; a transaction is prioritised once, a priority saved in mempool.dat
counting. No symmetry is used. Deadlock is checked in `CoinsCache` and `CoinsDB`
only: in the others the bounded supply of blocks, commands, checks, transactions
or connections really ends. Type invariants are checked in `coins_cache`,
`selection` and `check_queue`; those of `CoinsDB`, `AssetTags` and
`BlockDownload` are proved, and that of `Mempool` is part of its `IInv`.

Fairness. `BlockTree`: a call of `ActivateBestChain` that can take a turn
eventually does; it is a loop in a thread of its own and waits only for
cs_main. `CheckQueue`: a thread that is not asleep runs, and a master that
holds the control object comes to `Wait`, if only from its destructor; no
fairness is given to spurious wake-ups, to arrivals of checks, or to `Take`
in preference to the other outcomes. `CoinsDB`: a flush or replay continues and
a node that is down is started again; nothing prevents a crash in between, of
which there are finitely many. `BlockDownload`: `ThreadMessageHandler` visits the
peers in turn and runs `SendMessages` for each, so a peer that again and again
has something to send gets it sent, and its messages are processed, whatever the
others keep the thread busy with: strong fairness. For `SendMessages` and
`AnswerGetHeaders` it is written out as `[]<>condition => []<><<A>>_vars`, with the
condition under which the action changes something. Deadlines of peers that are
not prompt do pass (`Due`); disconnected nodes are finalised; a prompt peer
connects, finishes its handshake and answers. Nothing is assumed of the other
peers.

## 4. Findings

- **`assets_after_crash`.** The coins are committed before the assets are dumped,
  and `ReplayBlocks` looks at the coins only. A crash in between leaves the
  asset database behind the chain.
- **`mempool_rival`.** A block confirms an issue of an asset name the pool has an
  issue of as well. `removeForBlock` removes the pool's issue, and only it: a child
  that spends one of its outputs stays, with an input that is nowhere, which
  `CTxMemPool::check` would find by its assert. A conflict over an input is
  handled by `removeConflicts`, which takes the descendants along. The passing
  run has no child of an issue for this reason.

Other places where the code does not do what its comments say, met while
modelling; no run is kept for them, and each can be seen with the constants
given:

- *reconsiderblock.* `ResetBlockFailureFlags` clears the marks of the ancestors of
  the block it is given but takes only descendants out of `g_failed_blocks`.
  Invalidate a block, reconsider its child, and the next header on that branch
  fails the `assert` of `AcceptBlockHeader` (validation.cpp:4304). See
  `NoAssertFails` fail in `MCBlockTree` with `Shape = "bushy"`,
  `BadConnect = {a3}`, `Commands = {"invalidate", "reconsider"}`,
  `MaxCommands = 2`; `FailedHasReason`, `BestChainActive` and `UnlinkedExact` fail
  there too. This is why `selection` has no reconsiderblock.
- *A stale target.* Two threads in `ActivateBestChain`: one keeps
  `pindexMostWork` over the release of cs_main, the other meanwhile activates a
  better chain; the first then disconnects it and returns ("The result is either
  failure or an activated best chain.", validation.cpp:3577). See
  `BestChainActive` with `Shape = "forked"` and
  `Thread = {"msg", "rpc"}`. With invalidateblock in the other thread a marked block
  becomes active (`NoFailedInChain` in the instance of `threads`), and what the
  index says of the ancestors of a fully valid block may fail too
  (`FieldsConsistent`, a part of `ReceiptConsistent`, with `Shape = "forked"`, `BadConnect = {}`). This is why
  `selection` and `prune` have one thread.
- *preciousblock.* "Treats a block as if it were received before others with the
  same work." (rpc/blockchain.cpp:1672): the numbers count down from -1, but
  start again from -1 whenever the tip has more work than at the last command. A
  block that was made precious then gets a later number than before. With
  invalidateblock the count can start again although the chain comes back to
  the old work: make `a1` precious often, a longer chain `c2` once, invalidate
  `c2`, and make the tip `a1` precious: its number rises, a block `b1` of the
  same work that lost against it earlier is as good or better now, but is no
  candidate any more. See `BestChainActive` fail with `Shape = "small"`, no bad blocks,
  `Commands = {"invalidate", "precious"}` and `MaxCommands = 7`.
- *A block lost above a mark.* `ReceivedBlockTransactions` puts a block whose
  parent is not linked into `mapBlocksUnlinked` only if the parent is valid
  (validation.cpp:3851). In a chain `a1`..`a4` of which all headers are known, let `a2`
  and `a4` be stored, invalidate `a2`, and then let `a3` and `a1` arrive: `a3` is
  never filed, so linking stops at `a2` and `a4` stays in `mapBlocksUnlinked` with
  the data of all its parents, against "We aren't missing data for any parent --
  cannot be in mapBlocksUnlinked." (validation.cpp:5501). It takes a branch of
  four blocks; the tree of `selection` has three, so `UnlinkedExact` passes
  there, and the theorem about it excludes invalidateblock.
- *A block pruned while it waits.* `CheckBlockIndex` has "nChainTx != 0 is used to
  signal that all parent blocks have been processed (but may have been pruned)."
  (validation.cpp:5456) as an equivalence, and "Can't be in mapBlocksUnlinked if we
  don't HAVE_DATA" (validation.cpp:5500). Let `b2` be stored before its parent `b1`,
  and be pruned while it waits: `PruneOneBlockFile` takes it out of
  `mapBlocksUnlinked` (validation.cpp:4537). If `b1` arrives then, `b2` and all its
  parents have been processed but its `nChainTx` stays 0. If the node restarts
  instead, `LoadBlockIndexDB` files `b2` again (validation.cpp:4744), without data.
  See `LinkedIffReceived` and `UnlinkedHasData`, which are the two assertions,
  fail as invariants with the constants of `prune`. `ReceiptConsistent` and
  `UnlinkedExact` say that by pruning they fail in this way only: the exception is
  `Forgotten`, a block that was received, is not on disk, and is not linked.
- *A block received above a mark.* The first of these assertions fails without
  pruning too, after invalidateblock: `LinkedIffReceived` with the constants of
  `selection`. A block whose parent is marked and not linked is not filed when it
  arrives (validation.cpp:3851, see above), so nothing links it when the missing
  blocks come.
- *-maxreorg* ("Set the Maximum reorg depth", init.cpp:455) compares a new
  header's parent with the tip at the time the header arrives (`TooDeep`). A deep
  branch whose headers came early is activated whole.
- *Root qualifiers.* `Flush` puts `mapRootQualifierAddressesRemove` into
  `passets->mapRootQualifierAddressesAdd` (assets.cpp:2986), so after a sub
  qualifier is removed its root answers yes until the next dump, and whether a
  command on the root is accepted depends on when the node dumped.
  `AnswersExact` is therefore about the keys without sub qualifiers.
- *Two issues of one name on two branches.* An asset is issued and reissued, both
  blocks are undone, and another transaction issues the name, all before a dump:
  `mapReissuedAssetData` still has the data of the first, and is looked at
  before anything else (`AssetsExact` in `MCAssetData` with `Block <- Rivals`).
- *Several changes of one asset in a block.* Two reissues write two undo records, and
  the first is used for both: `AssetsExact` in `MCAssetData` with `Block <- Twice`.
  A verifier string does not replace one that is in `setNewRestrictedVerifierToAdd`
  already (a set ordered by asset name, assets.cpp:2251), so an asset issued and
  given another verifier string in one block keeps the first: `AssetsExact` with
  `Block <- Together`. And `GetAssetMetaDataIfExists` looks at the assets `passets` is to
  remove before those the block's own cache is to add (assets.cpp:3436): after an
  issue was undone, and until the next dump, a block that issues and reissues the
  asset is refused, though a node that has not seen the reorganisation accepts it.
  That is `AcceptsExactly` with `Block <- Together`. The blocks of `asset_data`
  have none of the three.
- *Reissue lock.* "If an asset name is in this map, any other reissue transactions
  wont be accepted into the mempool" (assets.h:70) says the comment of
  `mapReissuedAssets`. But `CheckTxAssets`, which consults it (tx_verify.cpp:745), is
  called by `ConnectBlock` too (validation.cpp:2549): a block whose reissue is not the
  one in this node's pool is invalid here, with
  "bad-tx-reissue-chaining-not-allowed", while a node without that transaction
  accepts it. A reissue that a reorganisation put back into the pool is enough, or
  a lock that a restart kept. See `ChainDecides` in `AssetData` fail with the
  constants of `asset_data`, in three states. `AcceptsExactly` therefore has the locks
  in it. `Mempool` follows the code.

## 5. What is proved

Every theorem is about the specification the runs check, for every value of the
constants that satisfies the module's assumptions: any number of outputs,
blocks, threads, peers, checks and keys, any tree, any limits.

| Module | Theorem | Statement |
|---|---|---|
| `CoinsCacheProofs` | `CacheInvariant` | `Spec => []Inv` |
| | `CacheTypes` | `Spec => []TypeOK` |
| | `CacheFlagsTruthful` | `Spec => []FlagsTruthful` |
| | `CacheNeverThrows` | `Spec => []NoLogicError` |
| | `CacheImplementsView` | `Spec => ImplementsView`: the stack implements `CoinsView` |
| `CoinsDBProofs` | `TypeCorrect` | `Spec => []TypeOK` |
| | `BestBlockIsHonest` | `Spec => []BestBlockHonest` |
| | `MixturesOfTwo` | `Spec => []MixtureOfTwo` |
| | `ReplaysRestore` | `Spec => []ReplayRestores` |
| | `StartupsSucceed` | `Spec => []StartupSucceeds` |
| `BlockTreeProofs` | `TypeCorrect` | `Spec => []TypeOK` |
| | `FailuresHaveReasons` | `Spec => []FailedHasReason`, without reconsiderblock |
| | `ChainNotFailed` | `Spec => []NoFailedInChain`, if `Undisturbed` |
| | `FieldsAreConsistent` | `Spec => []FieldsConsistent`, if `Undisturbed` |
| | `ReceiptsConsistent` | `Spec => []ReceiptConsistent`, if `Unforced` |
| | `StoredAreLinked` | `Spec => []StoredIsLinked`, if `Unforced` |
| | `UnlinkedIsExact` | `Spec => []UnlinkedExact`, if `Unforced` and `Unpruned` |
| | `BestIsActive` | `Spec => []BestChainActive`, if `Choosing` |
| | `AssertsHold` | `Spec => []NoAssertFails`, if `Choosing` |
| | `CandidatesAreExact` | `Spec => []CandidatesExact`, if `Choosing` |
| `CheckQueueProofs` | `TypeCorrect` | `Spec => []TypeOK` |
| | `TodoCounts` | `Spec => []TodoExact` |
| | `VerdictsCorrect` | `Spec => []VerdictCorrect` |
| | `SessionsIsolated` | `Spec => []SessionIsolated` |
| | `MastersNotStranded` | `Spec => []MasterNotStranded` |
| `AssetTagsProofs` | `TypeCorrect` | `Spec => []TypeOK` |
| | `AnswersAreExact` | `Spec => []AnswersExact` |
| | `DiskIsFollowing` | `Spec => []DiskFollowsChain` |
| | `FlushesInvisible` | `Spec => FlushInvisible` |
| `BlockDownloadProofs` | `TypeCorrect` | `Spec => []TypeOK` |
| | `AccountsAreExact` | `Spec => []AccountsExact` |
| | `StallersDoOwe` | `Spec => []StallersOwe` |
| | `LastCommonIsLinked` | `Spec => []LastCommonLinked` |
| `MempoolProofs` | `Invariant` | `Spec => []IInv`, if `Unrivalled` |
| | `LinksRight` | `Spec => []LinksExact`, if `Unrivalled` |
| | `TotalsRight` | `Spec => []TotalsExact`, if `Unrivalled` |
| | `InputsThere` | `Spec => []InputsAvailable`, if `Unrivalled` |
| | `ClaimsRight` | `Spec => []ClaimsExact`, if `Unrivalled` |

The hypotheses of `BlockTreeProofs` are about the constants `Thread` and
`Commands`, that is, about how many callers `ActivateBestChain` has and which
commands the operator gives. `Undisturbed`: one caller, or no invalidateblock.
`Unforced`: no invalidateblock and no reconsiderblock. `Unpruned`: nothing is
pruned. `Choosing`: one caller, and besides restarts either invalidateblock or
preciousblock but not both. Headers, blocks, bad blocks and the order in which
they arrive are not restricted. Outside these hypotheses the properties are false
or not known to hold: section 4 has a counterexample for reconsiderblock
(`FailedHasReason`, `NoAssertFails`), for invalidateblock
(`UnlinkedExact`, and the equivalence in `ReceiptConsistent`), for two callers with
invalidateblock (`NoFailedInChain`, `FieldsConsistent`), for two callers (`BestChainActive`) and for invalidateblock
with preciousblock (`BestChainActive`, and `CandidatesExact` with it, since the
better block is no candidate).

The hypothesis of `MempoolProofs` is about the transactions: `Unrivalled` says
that an issue whose name another transaction issues too has no child. The
transactions of `mempool` are such; those of `mempool_rival` are not, and there
`InputsAvailable` fails (section 4). So does `LinksExact`, with the same constants:
the block goes, the orphan's parent is accepted again, and `addUnchecked` does not
look for children that are there already. Everything else is free: how transactions spend and
conflict, which of them blocks hold and in which order, replacement, limits,
priorities, the points at which a reorganisation is interrupted by a look at
mempool.dat, and restarts.

### Assumptions

They are the named ASSUMEs of the modules; TLC evaluates them in every run.
Model values such as `None`, `Null` and `Spent` are nothing else; sets of
blocks, peers, threads and transactions are finite; limits are positive numbers;
a transaction without inputs is a coinbase, and only the first of a block is one; and a tree of
blocks has a level function, that is, every branch goes back to the genesis
block; CBlockIndex objects have different addresses, which the comparator of
candidates falls back on. One is about the content of blocks: `OverwriteAssumption` of `CoinsDB`
says that no block creates an output that is there unspent. The BIP30 check
that would refuse such a block is commented out in `ConnectBlock`
(validation.cpp:2446-2483); what is left is that a coinbase names its height
(BIP34, `ContextualCheckBlock`, validation.cpp:4212), so that two
transactions are never the same. Without it `DisconnectBlock` could not restore
what was overwritten, and a replay could not either.

### Arguments

*CoinsCache.* The inductive invariant is `Inv`: types, `FlagsTruthful`,
`NoLogicError` and `NoLeftover`. `FlagsTruthful` is inductive only with the
last: a view that is not open must be empty, or opening the next one would
bring in entries whose flags speak of an older parent. `NoLogicError` is not
inductive alone: that `BatchWrite` does not throw follows from the child's FRESH
being true of the parent. The argument is per entry. `Good(e, below)` says that
entry `e` is typed and tells the truth over a parent that answers `below`;
`FetchedGood`, `AddedGood`, `SpentGood`, `WrittenGood` and `DBWrittenGood` say
what one operation does to one entry and to what the layer answers. The
`...Effect` lemmas lift this to an action: what both layers answer afterwards,
and `Inv'`. `NextInv` and `NextImplements` then go through the actions once
each.

*CoinsDB.* `IInv` is types, `BestBlockHonest`, `MixtureOfTwo`,
`StartupSucceeds`, `IndexSound` (the block index on disk has undo data for every
ancestor of the blocks the coins on disk can be at or are being written for) and
`WritesMarked` (the two heads stand only while a write is under way or cut off,
the first is the write's target, and the write is to leave the coins after that
target). `ReplayRestores` follows from it. The heart is `ReplayCorrect`: from any
mixture of the coins after `old` and after `new`, undoing the blocks from `old`
down to the fork and applying those up to `new` gives the coins after `new`. It
follows the two loops of `ReplayBlocks` block by block; for one output, the last
block of the way that touches it decides, and if none does the two tips agree
about it.

*BlockTree.* Invariants are stacked, each proved from those below it, with a
lemma per operation. `IndexInv` holds whatever happens: types; entries and linked
blocks are closed under parents; only linked blocks are candidates, targets or
the tip; and what a block's own fields say of each other agrees. The loop of
`FindMostWorkChain` is reasoned about once, in `Search` as a sequence of turns:
every turn keeps `Follows` (marks spread upwards from marks only, the candidates
that can be connected stay, `mapBlocksUnlinked` gains only blocks above missing
data) and drops a candidate, so that after as many turns as there were
candidates the search has settled (`SearchSettles`).
`ChainInv` is `NoFailedInChain` with what makes it inductive: without
invalidateblock every mark is on or above a bad block and the chain has none; with
it and a single caller, nothing on the way to the target is marked.
`Reasoned` is `FailedHasReason` for all blocks. `LinkInv` says of a
block on disk that is not linked that it is in `mapBlocksUnlinked` or `Doomed`: above
a block (`Barred`) that is marked, so that it is not accepted any more, and that was
never received, or was pruned while it waited and its parent is linked. Nothing but
a restart, which links all it can, lifts a bar. With it go that a marked
block is linked or doomed, and that a block on disk, or in `mapBlocksUnlinked`, is
linked when its parent is. The equivalence in `ReceiptConsistent` follows: on the way
down from a block that was received with all its ancestors, the first that is not
linked stands on a linked one, so it is not on disk, and was pruned while it waited.
`Kept` says that without pruning nothing linked
is in `mapBlocksUnlinked`. `BestInv` speaks of the good chains, those that are
linked and neither marked nor bad: for each there is a candidate at least as
good (`Covered`); while a target is kept, no candidate is better than it
(`TargetBest`); when nobody is activating, none is better than the tip (`Resting`);
and a negative number, as preciousblock gives, belongs to a block with at most the
work at that time (`Preferred`), so that the next one given really comes first.
`CandidateInv` is about the set itself and needs all linked chains without a mark,
bad or not (`SoundBlocks`): from some good chain upwards every one of them is a
candidate (`Floor`), and none is worse than the tip (`Better`), so that
`PruneBlockIndexCandidates` never empties the set; when nobody is activating
the tip alone is left and no other sound chain is as good (`Rested`); a target
that is kept is still a candidate (`Holding`); `Outranked` is `Preferred` for all
sound chains;
and what is in `g_failed_blocks` is marked (`Blamed`). `CandidatesExact` needs in
addition that a chain which was received and is not invalid is linked
(`ClearLink`): a stored block with no mark below it waits in
`mapBlocksUnlinked` or is linked. Above a mark that is not so, blocks may stay
unlinked for ever.

*CheckQueue.* `IInv` is types, `SessionIsolated`, `VerdictCorrect`,
`MasterNotStranded` and what they need: which states a worker and a master can
be in, and that a master that is not idle owns `ControlMutex` (`Roles`); no more
is queued than was added for this block (`QueueFits`); `nIdle` and `nTotal` count
at least the threads that sleep or are present (`Counts`; an interrupted thread
may stay counted); and the verdict due is the conjunction of `fAllOk`, the
checks queued and the batches in work (`VerdictSpread`), which is what
`VerdictCorrect` needs to be inductive. `TodoExact` is a sum over the threads
(`TodoSum`), so the lemmas about sums in `InductionLemmas` say how it follows a
change of one thread.

*AssetTags.* `AnswersExact` speaks of the chain in memory and `DiskFollowsChain`
of the database; a disconnection needs in addition that every block was
connected to the one below and changed what its commands were about
(`ChainsSound`), since undoing a command that changed nothing would change
something; that the LRU cache holds nothing the database does not
(`CacheBacked`); and that in the middle of a dump the coin database is at the
tip and the entries done are in the database (`DumpSound`). `FlushInvisible` is
the action property that follows: a dump changes no answer.

*BlockDownload.* `IInv` has the three invariants part by part (`Flights`,
`Queues`, `Counts`, `Stalls`, `Commons`, `Limits`), and what they need: types; a
peer is preferred only after its handshake, so that `UpdatePreferredDownload`
counts it once (`Greeted`); the active chain is stored; and the peer whose block
is in the handler is connected. All changes of one peer's state are cases of one
lemma, `MovedSound`: if queue and map change alike and the counters follow, the
accounts stay sound. `Request` is a fold over a set; `RequestSound` shows by
recursion over its subsets that it lengthens one queue by at most the size of
the set and no other, and `FirstOfSize` that the set fits. `NextBlocks` is about
`FindNextBlocksToDownload`: the new common block has its chain stored, and a
staller is another peer that owes a block, and then nothing is requested, so it
still owes it when it is marked.

*Mempool.* `IInv` is about three places a transaction can be: the chain
(`ChainSound`), the queue of disconnected transactions (`QueueSound`) and the pool
(`PoolSound`). They do not overlap and do not conflict: a queued transaction that
comes back finds its inputs unspent because none in the pool spends them.
`Sound(q, H, M, C, W, X)` is what a pool is at any point inside a handler: its maps
fit together (`WellFormed`), `mapNextTx` has each input once (`SpendsKnown`), the
links are complete but for those from `M` to what was in the pool before `H` came
back (`Linked`), the totals count what the links reach (`Counted`), inputs are coins
of the chain `C`, outputs of the pool, or of the transactions `W` that are still
queued (`Supplied`), and names are claimed but for those of `X`, which
`addUnchecked` has put in and the caller has not entered yet (`Claimed`, `Free`).
The invariants proper are `Sound` with these sets empty, which is the state when
the reorganisation is over. They are not inductive alone because `DisconnectTip`
leaves transactions in the pool whose parents are nowhere but in the queue, and
`ReAccept` puts parents below children without linking them.

The totals are cardinalities and sums over what is reached in the graph of the
links (`Reach`), so the first half of the module is about graphs: what is reached
when vertices are taken out together with all below them (`RemoveStaged`) or one
at a time with nothing above (a block's transactions), when one is added on top
(`addUnchecked`) and when one is joined to children that are there
(`UpdateForDescendants`). Each operation of the pool has a lemma that says it keeps
`Sound`, and with which sets. In `UpdateTransactionsFromBlock` the transactions come
back last one first, and `Mending(q, H, M)` says what holds after each turn:
those not in `M` are linked to all their children and counted, those in `M` only
among what came back, and since no parent is linked before its children, the
descendants that a turn finds are complete. `removeForBlock` goes through a block in
order, parents first, so that what it takes out has nothing above it in the pool.
At the end it takes out the rivals, each alone, and there `Unrivalled` is
needed: otherwise their children's inputs would be nowhere.

*Recursion and induction.* The library's induction theorems take an operator and
cannot be used with the installed provers. `InductionLemmas` goes another
way: the least element of a set of numbers, a minimal set in a set of finite
sets, and from them induction and recursion over a forest given by a function to
parents and one to levels, all with sets and functions as parameters.
`CoinsDB.After`, `CoinsDB.Replayed`, `BlockTree.Ancestors` and `Search`,
`BlockDownload.Path`, the sums of `CheckQueue` and the fold of `Request` are
reasoned about with these. The many loops of `Mempool` are folds with different
bodies; `MempoolProofs` proves once, for a turn chosen among them by name (`Turn`),
that the recursion over subsets or over a sequence has a solution (`Turns`,
`Steps`), and that what every turn keeps, the loop keeps.

### Only model-checked

- Liveness (`Recovers`, `ActivationReturns`, `WaitReturns`, `Synced`), which
  needs ENABLED.
- The invariants of `BlockTree` outside the hypotheses of its theorems, as far as
  they hold there (section 4): `selection` mixes invalidateblock and preciousblock within its
  bound, `prune` checks `UnlinkedExact` with pruning.
- The invariants of `AssetData`. They do not hold for every value of the constants
  (section 4 has the blocks with which `AssetsExact` and `AcceptsExactly` fail), so a
  theorem has to state which blocks are excluded; all of them (`CachesAgree` too)
  need the same induction over a block, which is a fold over its issues and
  reissues with the undo records as a second result.

## 6. Not modelled

The transaction and script rules are pure checks and appear as "passes" or
"fails"; of the asset rules only those that depend on the state are in. Of the
asset layer, balances, transfers, messages, rewards and snapshots are data
derived from the chain and are left out, as is what section 2 lists for each
module. Of message processing only the download is in: transaction relay and
orphans, compact blocks, address relay and filters are not. The address manager,
version bits and the scheduler are planned, below. Wallet, RPC and REST servers,
ZMQ and Qt are input and output on top of the modelled parts. The optional
indexes (transactions, addresses, spent outputs, timestamps), `-reindex`, the
legacy chainstate upgrade and disk errors are left out. leveldb, secp256k1,
Berkeley DB, univalue and the hash functions are third-party code, and by far
the most of the tree's lines.

## 7. Plan

Done, in this order: `CoinsView`, `CoinsCache` and its proofs; `BlockTree`;
`CheckQueue`; `CoinsDB`; `AssetTags`; `AssetData`; `Mempool`; `BlockDownload`.

The proofs of `CoinsDB`, `CheckQueue`, `AssetTags`, `BlockDownload`, `BlockTree`
and `Mempool` came after these.

Next, the proofs: `UnlinkedExact` of `BlockTree` with pruning; `CachesAgree` of `AssetData`, and `AssetsExact` for
blocks that touch an asset once.

Next, the model: compact blocks and orphan transactions beside `BlockDownload`;
`VersionBits` and `AddrMan` as pure functions against a reference; the
validation interface's callback queue.
