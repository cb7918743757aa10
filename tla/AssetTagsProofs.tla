-------------------------- MODULE AssetTagsProofs --------------------------
(***************************************************************************)
(* Proofs about tags and freezes, for any set of keys, any relation of sub *)
(* to root qualifiers, chains of any length and any number of crashes.     *)
(***************************************************************************)
EXTENDS AssetTags, TLAPS

USE KeyAssumption

-----------------------------------------------------------------------------
(* The inductive invariant.  Every block was connected to the one below.   *)
Linked(c) ==
    \A i \in 1 .. Len(c) : c[i].prior = IF i = 1 THEN {} ELSE TaggedBy(c[i - 1])

(* The commands of the blocks changed what they were about, for the keys   *)
(* the node had an exact answer for.                                       *)
Effective(c) ==
    \A i \in 1 .. Len(c) : \A k \in Leaf \ lost :
        /\ c[i].cmds[k] = "add" => k \notin c[i].prior
        /\ c[i].cmds[k] = "remove" => k \in c[i].prior

ChainsSound == Linked(chain) /\ Linked(diskChain) /\ Effective(chain) /\ Effective(diskChain)

(* Nothing is in the LRU cache that is not in the database.                *)
CacheBacked == lru \subseteq db

(* During a dump the coin database is at the tip, and the entries that are *)
(* no longer to be written are in the database.                            *)
DumpSound ==
    /\ ~dumping => todoAdd = {} /\ todoRemove = {}
    /\ todoAdd \subseteq Touched(passets.toAdd) /\ todoRemove \subseteq Touched(passets.toRemove)
    /\ dumping =>
         /\ diskChain = chain
         /\ \A k \in Touched(passets.toAdd) \ todoAdd : k \in db <=> passets.toAdd[k] = "add"
         /\ \A k \in Touched(passets.toRemove) \ todoRemove : k \in db <=> passets.toRemove[k] = "remove"

IInv == TypeOK /\ ChainsSound /\ CacheBacked /\ DumpSound /\ AnswersExact /\ DiskFollowsChain

-----------------------------------------------------------------------------
(* For a key without sub qualifiers the root maps are of no account.       *)
Answer(k) ==
    IF passets.toRemove[k] # "none" THEN passets.toRemove[k] = "remove"
    ELSE IF passets.toAdd[k] # "none" THEN passets.toAdd[k] = "add"
    ELSE k \in db

(* For a key without sub qualifiers, CheckFor answers what the sets and    *)
(* the database add up to.                                                 *)
LEMMA LeafAnswer ==
    ASSUME TypeOK, CacheBacked, NEW k \in Leaf
    PROVE  CheckFor(k) <=> Answer(k)
    <1>1. \A s \in Sub : Root[s] # k
      BY DEF Leaf
    <1>2. passets.rootAdd \subseteq Sub
      BY DEF TypeOK, Cache
    <1>3. ~InRoots(k, passets.rootAdd) /\ ~InRoots(k, db \cap Sub)
      BY <1>1, <1>2 DEF InRoots
    <1>4. QED
      BY <1>3 DEF CheckFor, CacheBacked, Answer

(* The same after a step.                                                  *)
LEMMA LeafAnswerNext ==
    ASSUME TypeOK', CacheBacked', NEW k \in Leaf
    PROVE  CheckFor(k)' <=> Answer(k)'
    <1>1. \A s \in Sub : Root[s] # k
      BY DEF Leaf
    <1>2. passets'.rootAdd \subseteq Sub
      BY DEF TypeOK, Cache
    <1>3. ~InRoots(k, passets'.rootAdd) /\ ~InRoots(k, db' \cap Sub)
      BY <1>1, <1>2 DEF InRoots
    <1>4. QED
      BY <1>3 DEF CheckFor, InRoots, CacheBacked, Answer

(* The start: an empty cache over an empty database.                       *)
LEMMA InitInv == Init => IInv
    <1> SUFFICES ASSUME Init PROVE IInv
      OBVIOUS
    <1> USE DEF Init
    <1>1. NoCommands \in Commands /\ \A k \in Key : NoCommands[k] = "none"
      BY DEF NoCommands, Commands, Command
    <1>2. /\ EmptyCache \in Cache
          /\ EmptyCache.toAdd = NoCommands /\ EmptyCache.toRemove = NoCommands
      BY <1>1 DEF EmptyCache, Cache
    <1>3. TypeOK
      <2>1. \A k \in Key : "none" \in {passets.toAdd[k], passets.toRemove[k]}
        BY <1>1, <1>2
      <2>2. chain \in Seq(Block) /\ diskChain \in Seq(Block)
        OBVIOUS
      <2>3. passets \in Cache
        BY <1>2
      <2>4. lru \subseteq Key /\ db \subseteq Key /\ crashes \in 0 .. MaxCrashes
        OBVIOUS
      <2>5. dumping \in BOOLEAN /\ todoAdd \subseteq Key /\ todoRemove \subseteq Key /\ lost \subseteq Key
        OBVIOUS
      <2>6. QED
        BY <2>1, <2>2, <2>3, <2>4, <2>5 DEF TypeOK
    <1>4. ChainsSound /\ CacheBacked /\ DumpSound
      BY DEF ChainsSound, Linked, Effective, CacheBacked, DumpSound
    <1>5. AnswersExact
      <2>1. \A k \in Leaf : CheckFor(k) <=> Answer(k)
        BY <1>3, <1>4, LeafAnswer
      <2>2. QED
        BY <1>1, <1>2, <2>1 DEF AnswersExact, Answer, Tagged, TaggedAt, Leaf
    <1>6. DiskFollowsChain
      BY DEF DiskFollowsChain, TaggedAt
    <1>7. QED
      BY <1>3, <1>4, <1>5, <1>6 DEF IInv

(* What Flush leaves for a key, when the cache of a block only adds or     *)
(* only undoes commands.                                                   *)
LEMMA FlushAdds ==
    ASSUME TypeOK, NEW cmds \in Commands
    PROVE  /\ Flush(AddCommands(cmds)) \in Cache
           /\ \A k \in Key :
                /\ Flush(AddCommands(cmds)).toAdd[k] =
                     IF cmds[k] # "none" THEN cmds[k] ELSE passets.toAdd[k]
                /\ Flush(AddCommands(cmds)).toRemove[k] =
                     IF cmds[k] # "none" THEN "none" ELSE passets.toRemove[k]
    BY DEF TypeOK, Cache, Commands, Command, Flush, AddCommands, EmptyCache, NoCommands, Overwrite, Without

(* CAssetsCache::Flush of the commands undone: each command cancels what   *)
(* the sets had of its key.                                                *)
LEMMA FlushRemoves ==
    ASSUME TypeOK, NEW cmds \in Commands
    PROVE  /\ Flush(RemoveCommands(cmds)) \in Cache
           /\ \A k \in Key :
                /\ Flush(RemoveCommands(cmds)).toRemove[k] =
                     IF cmds[k] # "none" THEN cmds[k] ELSE passets.toRemove[k]
                /\ Flush(RemoveCommands(cmds)).toAdd[k] =
                     IF cmds[k] # "none" THEN "none" ELSE passets.toAdd[k]
    BY DEF TypeOK, Cache, Commands, Command, Flush, RemoveCommands, EmptyCache, NoCommands, Overwrite, Without

(* What a chain sets are keys.                                             *)
LEMMA TaggedKeys ==
    ASSUME NEW c \in Seq(Block) PROVE TaggedAt(c) \subseteq Key
    BY DEF TaggedAt, TaggedBy

(* ConnectTip: the commands were checked before the block, so each changes *)
(* what it is about.                                                       *)
LEMMA ConnectInv ==
    ASSUME IInv, NEW cmds \in Commands, ConnectTip(cmds)
    PROVE  IInv'
    <1> USE DEF IInv, ConnectTip
    <1> DEFINE b == [cmds |-> cmds, prior |-> Tagged]
    <1>1. b \in Block /\ chain \in Seq(Block) /\ Len(chain) \in Nat
      <2>1. chain \in Seq(Block)
        BY DEF TypeOK
      <2>2. Tagged \in SUBSET Key
        BY <2>1, TaggedKeys DEF Tagged
      <2>3. QED
        BY <2>1, <2>2 DEF Block
    <1>2. /\ chain' \in Seq(Block) /\ Len(chain') = Len(chain) + 1 /\ chain' # <<>>
          /\ chain'[Len(chain) + 1] = b
          /\ \A i \in 1 .. Len(chain) : chain'[i] = chain[i]
      BY <1>1
    <1> HIDE DEF b
    <1>3. b.cmds = cmds /\ b.prior = Tagged
      BY DEF b
    <1>4. Tagged' = TaggedBy(b)
      BY <1>2 DEF Tagged, TaggedAt
    <1>5. /\ passets' \in Cache
          /\ \A k \in Key :
               /\ passets'.toAdd[k] = IF cmds[k] # "none" THEN cmds[k] ELSE passets.toAdd[k]
               /\ passets'.toRemove[k] = IF cmds[k] # "none" THEN "none" ELSE passets.toRemove[k]
      BY FlushAdds
    <1>6. lru' \subseteq db /\ lru' \subseteq Key /\ db' = db
      BY DEF Fetched, CacheBacked, disk, TypeOK
    <1>7. TypeOK'
      BY <1>2, <1>5, <1>6 DEF TypeOK, disk, dump, faults
    <1>8. ChainsSound'
      <2>1. Linked(chain')
        <3>1. SUFFICES ASSUME NEW i \in 1 .. Len(chain')
                       PROVE  chain'[i].prior = IF i = 1 THEN {} ELSE TaggedBy(chain'[i - 1])
          BY DEF Linked
        <3>2. CASE i \in 1 .. Len(chain)
          BY <1>1, <1>2, <3>2 DEF ChainsSound, Linked
        <3>3. CASE i = Len(chain) + 1
          <4>1. chain'[i].prior = TaggedAt(chain)
            BY <1>2, <1>3, <3>3 DEF Tagged
          <4>2. CASE chain = <<>>
            BY <4>1, <4>2, <3>3 DEF TaggedAt
          <4>3. CASE chain # <<>>
            <5>1. Len(chain) \in 1 .. Len(chain) /\ i # 1 /\ i - 1 = Len(chain)
              BY <4>3, <3>3, <1>1
            <5>2. QED
              BY <4>1, <4>3, <5>1, <1>2 DEF TaggedAt
          <4>4. QED
            BY <4>2, <4>3
        <3>4. QED
          BY <1>1, <1>2, <3>2, <3>3
      <2>2. Effective(chain)'
        <3>1. SUFFICES ASSUME NEW i \in 1 .. Len(chain'), NEW k \in Leaf \ lost
                       PROVE  /\ chain'[i].cmds[k] = "add" => k \notin chain'[i].prior
                              /\ chain'[i].cmds[k] = "remove" => k \in chain'[i].prior
          BY DEF Effective, faults
        <3>2. CASE i \in 1 .. Len(chain)
          BY <1>2, <3>2 DEF ChainsSound, Effective
        <3>3. CASE i = Len(chain) + 1
          <4>1. k \in Key
            BY DEF Leaf
          <4>2. cmds[k] # "none" => ((cmds[k] = "remove") <=> CheckFor(k))
            BY <4>1 DEF VerifyChange, Touched
          <4>3. CheckFor(k) <=> k \in Tagged
            BY DEF AnswersExact
          <4>4. QED
            BY <1>2, <1>3, <3>3, <4>2, <4>3
        <3>4. QED
          BY <1>1, <1>2, <3>2, <3>3
      <2>3. Linked(diskChain') /\ Effective(diskChain)'
        BY DEF ChainsSound, Linked, Effective, disk, faults
      <2>4. QED
        BY <2>1, <2>2, <2>3 DEF ChainsSound
    <1>9. CacheBacked'
      BY <1>6 DEF CacheBacked
    <1>10. DumpSound'
      BY DEF DumpSound, dump
    <1>11. AnswersExact'
      <2>1. SUFFICES ASSUME NEW k \in Leaf \ lost PROVE CheckFor(k)' <=> k \in Tagged'
        BY DEF AnswersExact, faults
      <2>2. k \in Key /\ cmds[k] \in Command
        BY DEF Leaf, Commands
      <2>3. CheckFor(k)' <=> Answer(k)'
        BY <1>7, <1>9, LeafAnswerNext
      <2>4. CheckFor(k) <=> Answer(k)
        BY LeafAnswer
      <2>5. CheckFor(k) <=> k \in Tagged
        BY DEF AnswersExact
      <2>6. k \in Tagged' <=> cmds[k] = "add" \/ (cmds[k] = "none" /\ k \in Tagged)
        BY <1>3, <1>4, <2>2 DEF TaggedBy
      <2>7. QED
        BY <1>5, <1>6, <2>2, <2>3, <2>4, <2>5, <2>6 DEF Command, Answer
    <1>12. DiskFollowsChain'
      BY DEF DiskFollowsChain, disk, dump, faults
    <1>13. QED
      BY <1>7, <1>8, <1>9, <1>10, <1>11, <1>12

(* A chain without its tip.                                                *)
LEMMA ChainFront ==
    ASSUME NEW c \in Seq(Block), c # <<>>
    PROVE  /\ Len(c) \in Nat /\ Len(c) >= 1 /\ c[Len(c)] \in Block
           /\ SubSeq(c, 1, Len(c) - 1) \in Seq(Block)
           /\ Len(SubSeq(c, 1, Len(c) - 1)) = Len(c) - 1
           /\ \A i \in 1 .. Len(c) - 1 : SubSeq(c, 1, Len(c) - 1)[i] = c[i]
    <1> DEFINE k == Len(c) - 1
    <1>1. Len(c) \in Nat /\ Len(c) >= 1
      OBVIOUS
    <1>2. c[Len(c)] \in Block
      BY <1>1
    <1>3. k \in Nat /\ k < Len(c)
      BY <1>1
    <1> HIDE DEF k
    <1>4. /\ SubSeq(c, 1, k) \in Seq(Block) /\ Len(SubSeq(c, 1, k)) = k
          /\ \A i \in 1 .. k : SubSeq(c, 1, k)[i] = c[i]
      BY <1>1, <1>3
    <1>5. QED
      BY <1>1, <1>2, <1>4 DEF k

(* DisconnectTip: undoing what each command changed gives the answers      *)
(* before the block.                                                       *)
LEMMA DisconnectInv == ASSUME IInv, DisconnectTip PROVE IInv'
    <1> USE DEF IInv, DisconnectTip
    <1> DEFINE b == chain[Len(chain)]
    <1>1. /\ chain \in Seq(Block) /\ Len(chain) \in Nat /\ Len(chain) >= 1
          /\ b \in Block
      BY ChainFront DEF TypeOK
    <1>2. /\ chain' \in Seq(Block) /\ Len(chain') = Len(chain) - 1
          /\ \A i \in 1 .. Len(chain) - 1 : chain'[i] = chain[i]
      BY <1>1, ChainFront
    <1>3. b.cmds \in Commands /\ b.prior \subseteq Key
      BY <1>1 DEF Block
    <1>4. /\ passets' \in Cache
          /\ \A k \in Key :
               /\ passets'.toRemove[k] = IF b.cmds[k] # "none" THEN b.cmds[k] ELSE passets.toRemove[k]
               /\ passets'.toAdd[k] = IF b.cmds[k] # "none" THEN "none" ELSE passets.toAdd[k]
      BY <1>3, FlushRemoves
    <1>5. Tagged = TaggedBy(b)
      BY DEF Tagged, TaggedAt
    <1>6. Tagged' = b.prior
      <2>1. b.prior = IF Len(chain) = 1 THEN {} ELSE TaggedBy(chain[Len(chain) - 1])
        <3>1. Len(chain) \in 1 .. Len(chain)
          BY <1>1
        <3>2. QED
          BY <3>1 DEF ChainsSound, Linked
      <2>2. CASE Len(chain) = 1
        <3>1. chain' = <<>>
          BY <1>1, <2>2
        <3>2. QED
          BY <2>1, <2>2, <3>1 DEF Tagged, TaggedAt
      <2>3. CASE Len(chain) # 1
        <3>1. chain' # <<>> /\ chain'[Len(chain')] = chain[Len(chain) - 1]
          <4>1. Len(chain) - 1 \in 1 .. Len(chain) - 1 /\ Len(chain') > 0
            BY <1>1, <1>2, <2>3
          <4>2. QED
            BY <1>2, <4>1
        <3>2. QED
          BY <2>1, <2>3, <3>1 DEF Tagged, TaggedAt
      <2>4. QED
        BY <2>2, <2>3
    <1>7. TypeOK'
      BY <1>2, <1>4 DEF TypeOK, disk, dump, faults
    <1>8. ChainsSound'
      <2>1. Linked(chain')
        <3>1. SUFFICES ASSUME NEW i \in 1 .. Len(chain')
                       PROVE  chain'[i].prior = IF i = 1 THEN {} ELSE TaggedBy(chain'[i - 1])
          BY DEF Linked
        <3>2. i \in 1 .. Len(chain) /\ chain'[i] = chain[i] /\ (i # 1 => chain'[i - 1] = chain[i - 1])
          BY <1>1, <1>2
        <3>3. QED
          BY <3>2 DEF ChainsSound, Linked
      <2>2. Effective(chain)'
        BY <1>1, <1>2 DEF ChainsSound, Effective, faults
      <2>3. Linked(diskChain') /\ Effective(diskChain)'
        BY DEF ChainsSound, Linked, Effective, disk, faults
      <2>4. QED
        BY <2>1, <2>2, <2>3 DEF ChainsSound
    <1>9. CacheBacked'
      BY DEF CacheBacked, disk
    <1>10. DumpSound'
      BY DEF DumpSound, dump
    <1> HIDE DEF b
    <1>11. AnswersExact'
      <2>1. SUFFICES ASSUME NEW k \in Leaf \ lost PROVE CheckFor(k)' <=> k \in Tagged'
        BY DEF AnswersExact, faults
      <2>2. k \in Key /\ b.cmds[k] \in Command
        BY <1>3 DEF Leaf, Commands
      <2>3. CheckFor(k)' <=> Answer(k)'
        BY <1>7, <1>9, LeafAnswerNext
      <2>4. CheckFor(k) <=> Answer(k)
        BY LeafAnswer
      <2>5. CheckFor(k) <=> k \in Tagged
        BY DEF AnswersExact
      <2>6. /\ b.cmds[k] = "add" => k \notin b.prior
            /\ b.cmds[k] = "remove" => k \in b.prior
        BY <1>1 DEF ChainsSound, Effective, b
      <2>7. k \in Tagged <=> b.cmds[k] = "add" \/ (b.cmds[k] = "none" /\ k \in b.prior)
        BY <1>5, <2>2 DEF TaggedBy
      <2>8. CASE b.cmds[k] = "none"
        BY <1>4, <1>6, <2>2, <2>3, <2>4, <2>5, <2>7, <2>8 DEF Answer, disk
      <2>9. CASE b.cmds[k] # "none"
        BY <1>4, <1>6, <2>2, <2>3, <2>6, <2>9 DEF Answer, Command
      <2>10. QED
        BY <2>8, <2>9
    <1>12. DiskFollowsChain'
      BY DEF DiskFollowsChain, disk, dump, faults
    <1>13. QED
      BY <1>7, <1>8, <1>9, <1>10, <1>11, <1>12

(* Lookups and evictions change nothing but the LRU cache, which stays     *)
(* backed by the database.                                                 *)
LEMMA CachingInv ==
    ASSUME IInv, NEW k \in Key, Lookup(k) \/ Evict(k)
    PROVE  IInv'
    <1> USE DEF IInv
    <1>1. UNCHANGED <<chain, passets, disk, dump, faults>> /\ lru' \subseteq db /\ lru' \subseteq Key
      BY DEF Lookup, Evict, Fetched, CacheBacked, TypeOK
    <1>2. TypeOK'
      BY <1>1 DEF TypeOK, disk, dump, faults
    <1>3. ChainsSound'
      BY <1>1 DEF ChainsSound, Linked, Effective, disk, faults
    <1>4. CacheBacked' /\ DumpSound'
      BY <1>1 DEF CacheBacked, DumpSound, disk, dump
    <1>5. AnswersExact'
      <2>1. SUFFICES ASSUME NEW j \in Leaf \ lost PROVE CheckFor(j)' <=> j \in Tagged'
        BY <1>1 DEF AnswersExact, faults
      <2>2. (CheckFor(j)' <=> Answer(j)') /\ (CheckFor(j) <=> Answer(j))
        BY <1>2, <1>4, LeafAnswer, LeafAnswerNext
      <2>3. CheckFor(j) <=> j \in Tagged
        BY DEF AnswersExact
      <2>4. QED
        BY <1>1, <2>2, <2>3 DEF Answer, Tagged, disk
    <1>6. DiskFollowsChain'
      BY <1>1 DEF DiskFollowsChain, disk, dump, faults
    <1>7. QED
      BY <1>2, <1>3, <1>4, <1>5, <1>6

(* The dump begins when the coins are written, at the tip.                 *)
LEMMA BeginDumpInv == ASSUME IInv, BeginDump PROVE IInv'
    <1> USE DEF IInv, BeginDump
    <1>1. TypeOK'
      BY DEF TypeOK, memory, faults, Touched
    <1>2. ChainsSound'
      BY DEF ChainsSound, Linked, Effective, memory, faults
    <1>3. CacheBacked' /\ DumpSound'
      BY DEF CacheBacked, DumpSound, memory
    <1>4. AnswersExact'
      <2>1. SUFFICES ASSUME NEW j \in Leaf \ lost PROVE CheckFor(j)' <=> j \in Tagged'
        BY DEF AnswersExact, faults
      <2>2. (CheckFor(j)' <=> Answer(j)') /\ (CheckFor(j) <=> Answer(j))
        BY <1>1, <1>3, LeafAnswer, LeafAnswerNext
      <2>3. CheckFor(j) <=> j \in Tagged
        BY DEF AnswersExact
      <2>4. QED
        BY <2>2, <2>3 DEF Answer, Tagged, memory
    <1>5. DiskFollowsChain'
      <2>1. SUFFICES ASSUME NEW j \in Leaf \ lost,
                            j \notin Touched(passets.toAdd), j \notin Touched(passets.toRemove)
                     PROVE  j \in db <=> j \in TaggedAt(chain)
        BY DEF DiskFollowsChain, faults
      <2>2. CheckFor(j) <=> Answer(j)
        BY LeafAnswer
      <2>3. CheckFor(j) <=> j \in Tagged
        BY DEF AnswersExact
      <2>4. QED
        BY <2>1, <2>2, <2>3 DEF Answer, Tagged, Touched, Leaf
    <1>6. QED
      BY <1>1, <1>2, <1>3, <1>4, <1>5

(* One entry written: the answers stay as they are, and the entry follows  *)
(* the chain from then on.                                                 *)
LEMMA DumpInv ==
    ASSUME IInv, NEW k \in Key, DumpAdd(k) \/ DumpRemove(k)
    PROVE  IInv' /\ \A j \in Leaf : CheckFor(j)' <=> CheckFor(j)
    <1> USE DEF IInv
    <1>1. PICK set \in BOOLEAN :
            /\ Write(k, set)
            /\ \/ k \in todoAdd /\ todoAdd' = todoAdd \ {k} /\ todoRemove' = todoRemove
                  /\ (set <=> passets.toAdd[k] = "add")
               \/ k \in todoRemove /\ todoRemove' = todoRemove \ {k} /\ todoAdd' = todoAdd
                  /\ (set <=> passets.toRemove[k] = "remove")
      BY DEF DumpAdd, DumpRemove
    <1>2. /\ UNCHANGED <<chain, passets, diskChain, dumping, faults>>
          /\ lru' = (IF set THEN lru \cup {k} ELSE lru \ {k})
          /\ db' = (IF set THEN db \cup {k} ELSE db \ {k})
      BY <1>1 DEF Write
    <1>3. dumping /\ diskChain = chain
      BY <1>1 DEF DumpSound
    <1>4. /\ passets.toAdd[k] # "none" \/ passets.toRemove[k] # "none"
          /\ passets.toAdd[k] = "none" \/ passets.toRemove[k] = "none"
          /\ k \in todoAdd => passets.toAdd[k] # "none"
          /\ k \in todoRemove => passets.toRemove[k] # "none"
      BY <1>1 DEF DumpSound, Touched, TypeOK
    <1>5. TypeOK'
      BY <1>1, <1>2 DEF TypeOK, faults
    <1>6. ChainsSound'
      BY <1>2 DEF ChainsSound, Linked, Effective, faults
    <1>7. CacheBacked'
      BY <1>2 DEF CacheBacked
    <1>8. (k \in db' <=> set) /\ \A j \in Key \ {k} : j \in db' <=> j \in db
      BY <1>2
    <1>9. DumpSound'
      <2>1. ~dumping' => todoAdd' = {} /\ todoRemove' = {}
        BY <1>2, <1>3
      <2>2. todoAdd' \subseteq Touched(passets'.toAdd) /\ todoRemove' \subseteq Touched(passets'.toRemove)
        BY <1>1, <1>2 DEF DumpSound
      <2>3. ASSUME NEW j \in Touched(passets.toAdd) \ todoAdd' PROVE j \in db' <=> passets.toAdd[j] = "add"
        BY <1>1, <1>3, <1>4, <1>8 DEF DumpSound, Touched
      <2>4. ASSUME NEW j \in Touched(passets.toRemove) \ todoRemove'
            PROVE  j \in db' <=> passets.toRemove[j] = "remove"
        BY <1>1, <1>3, <1>4, <1>8 DEF DumpSound, Touched
      <2>5. QED
        BY <1>2, <1>3, <2>1, <2>2, <2>3, <2>4 DEF DumpSound
    <1>10. ASSUME NEW j \in Leaf PROVE CheckFor(j)' <=> CheckFor(j)
      <2>1. (CheckFor(j)' <=> Answer(j)') /\ (CheckFor(j) <=> Answer(j))
        BY <1>5, <1>7, LeafAnswer, LeafAnswerNext
      <2>2. j \in Key
        BY DEF Leaf
      <2>3. QED
        BY <1>2, <1>4, <1>8, <2>1, <2>2 DEF Answer
    <1>11. AnswersExact'
      BY <1>2, <1>10 DEF AnswersExact, Tagged, faults
    <1>12. DiskFollowsChain'
      <2>1. SUFFICES ASSUME NEW j \in Leaf \ lost, j \notin todoAdd', j \notin todoRemove'
                     PROVE  j \in db' <=> j \in TaggedAt(diskChain)
        BY <1>2 DEF DiskFollowsChain, faults
      <2>2. CASE j = k
        <3>1. CheckFor(k) <=> Answer(k)
          BY <2>2, LeafAnswer
        <3>2. CheckFor(k) <=> k \in Tagged
          BY <2>2 DEF AnswersExact
        <3>3. set <=> Answer(k)
          BY <1>1, <1>4 DEF Answer
        <3>4. QED
          BY <1>3, <1>8, <2>2, <3>1, <3>2, <3>3 DEF Tagged
      <2>3. CASE j # k
        <3>1. j \notin todoAdd /\ j \notin todoRemove /\ j \in Key
          BY <1>1, <2>1, <2>3 DEF Leaf
        <3>2. QED
          BY <1>8, <2>3, <3>1 DEF DiskFollowsChain
      <2>4. QED
        BY <2>2, <2>3
    <1>13. QED
      BY <1>5, <1>6, <1>7, <1>9, <1>10, <1>11, <1>12

(* A cleared cache has nothing to add and nothing to remove.               *)
LEMMA EmptyCacheIs ==
    /\ EmptyCache \in Cache
    /\ \A k \in Key : EmptyCache.toAdd[k] = "none" /\ EmptyCache.toRemove[k] = "none"
    BY DEF EmptyCache, Cache, NoCommands, Commands, Command

(* The dump ends: the sets are cleared, and the database answers as they   *)
(* did.                                                                    *)
LEMMA EndDumpInv ==
    ASSUME IInv, EndDump
    PROVE  IInv' /\ \A j \in Leaf : CheckFor(j)' <=> CheckFor(j)
    <1> USE DEF IInv, EndDump
    <1>1. /\ passets' \in Cache
          /\ \A k \in Key : passets'.toAdd[k] = "none" /\ passets'.toRemove[k] = "none"
      BY EmptyCacheIs
    <1>2. TypeOK'
      BY <1>1 DEF TypeOK, disk, faults
    <1>3. ChainsSound'
      BY DEF ChainsSound, Linked, Effective, disk, faults
    <1>4. CacheBacked' /\ DumpSound'
      BY DEF CacheBacked, DumpSound, disk
    <1>5. ASSUME NEW j \in Leaf PROVE CheckFor(j)' <=> CheckFor(j)
      <2>1. (CheckFor(j)' <=> Answer(j)') /\ (CheckFor(j) <=> Answer(j))
        BY <1>2, <1>4, LeafAnswer, LeafAnswerNext
      <2>2. j \in Key
        BY DEF Leaf
      <2>3. /\ passets.toAdd[j] # "none" => (j \in db <=> passets.toAdd[j] = "add")
            /\ passets.toRemove[j] # "none" => (j \in db <=> passets.toRemove[j] = "remove")
        BY <2>2 DEF DumpSound, Touched
      <2>4. QED
        BY <1>1, <2>1, <2>2, <2>3 DEF Answer, disk
    <1>6. AnswersExact'
      BY <1>5 DEF AnswersExact, Tagged, faults
    <1>7. DiskFollowsChain'
      BY DEF DiskFollowsChain, disk, faults
    <1>8. QED
      BY <1>2, <1>3, <1>4, <1>5, <1>6, <1>7

(* After a crash the answers are those of the chain on disk.               *)
LEMMA CrashInv == ASSUME IInv, Crash PROVE IInv'
    <1> USE DEF IInv, Crash
    <1>1. /\ passets' \in Cache
          /\ \A k \in Key : passets'.toAdd[k] = "none" /\ passets'.toRemove[k] = "none"
      BY EmptyCacheIs
    <1>2. TypeOK'
      <2>1. crashes' \in 0 .. MaxCrashes
        BY DEF TypeOK
      <2>2. \A k \in Key : "none" \in {passets'.toAdd[k], passets'.toRemove[k]}
        BY <1>1
      <2>3. chain' \in Seq(Block) /\ diskChain' \in Seq(Block) /\ db' \subseteq Key /\ lost' \subseteq Key
        BY DEF TypeOK, disk
      <2>4. QED
        BY <1>1, <2>1, <2>2, <2>3 DEF TypeOK
    <1>3. ChainsSound'
      BY DEF ChainsSound, Linked, Effective, disk
    <1>4. CacheBacked' /\ DumpSound'
      BY DEF CacheBacked, DumpSound
    <1>5. ASSUME NEW j \in Leaf \ lost' PROVE j \in db <=> j \in TaggedAt(diskChain)
      BY <1>5 DEF DiskFollowsChain
    <1>6. AnswersExact'
      <2>1. \A j \in Leaf : CheckFor(j)' <=> Answer(j)'
        BY <1>2, <1>4, LeafAnswerNext
      <2>2. QED
        BY <1>1, <1>5, <2>1 DEF AnswersExact, Answer, Tagged, Leaf, disk
    <1>7. DiskFollowsChain'
      BY <1>5 DEF DiskFollowsChain, disk
    <1>8. QED
      BY <1>2, <1>3, <1>4, <1>6, <1>7

(* A step that changes nothing.                                            *)
LEMMA StutterInv == ASSUME IInv, UNCHANGED vars PROVE IInv'
    <1> USE DEF IInv, vars
    <1>1. TypeOK' /\ ChainsSound' /\ CacheBacked' /\ DumpSound'
      BY DEF TypeOK, ChainsSound, Linked, Effective, CacheBacked, DumpSound
    <1>2. AnswersExact' /\ DiskFollowsChain'
      BY DEF AnswersExact, DiskFollowsChain, CheckFor, InRoots, Tagged
    <1>3. QED
      BY <1>1, <1>2

(* Every step keeps the invariant.                                         *)
LEMMA NextInv == IInv /\ [Next]_vars => IInv'
    <1> SUFFICES ASSUME IInv, [Next]_vars PROVE IInv'
      OBVIOUS
    <1>1. ASSUME NEW cmds \in Commands, ConnectTip(cmds) PROVE IInv'
      BY <1>1, ConnectInv
    <1>2. CASE DisconnectTip
      BY <1>2, DisconnectInv
    <1>3. ASSUME NEW k \in Key, Lookup(k) \/ Evict(k) PROVE IInv'
      BY <1>3, CachingInv
    <1>4. ASSUME NEW k \in Key, DumpAdd(k) \/ DumpRemove(k) PROVE IInv'
      BY <1>4, DumpInv
    <1>5. CASE BeginDump
      BY <1>5, BeginDumpInv
    <1>6. CASE EndDump
      BY <1>6, EndDumpInv
    <1>7. CASE Crash
      BY <1>7, CrashInv
    <1>8. CASE UNCHANGED vars
      BY <1>8, StutterInv
    <1>9. QED
      BY <1>1, <1>2, <1>3, <1>4, <1>5, <1>6, <1>7, <1>8 DEF Next

(* The inductive invariant holds throughout.                               *)
LEMMA IInvAlways == Spec => []IInv
    BY InitInv, NextInv, PTL DEF Spec

-----------------------------------------------------------------------------
(* The state has its types, and no key is both added and undone in passets *)
(* (Flush of CAssetsCache keeps the two sets apart).                       *)
THEOREM TypeCorrect == Spec => []TypeOK
    <1>1. IInv => TypeOK
      BY DEF IInv
    <1>2. QED
      BY <1>1, IInvAlways, PTL

(* CheckForAddressQualifier and its like answer what the commands of the   *)
(* active chain say, through reorganisations, dumps cut short by a crash,  *)
(* caching and eviction, for every key whose entry no crash has lost.      *)
THEOREM AnswersAreExact == Spec => []AnswersExact
    <1>1. IInv => AnswersExact
      BY DEF IInv
    <1>2. QED
      BY <1>1, IInvAlways, PTL

(* The restricted database agrees, entry by entry, with the chain the coin *)
(* database is at, in the middle of DumpCacheToDatabase too.               *)
THEOREM DiskIsFollowing == Spec => []DiskFollowsChain
    <1>1. IInv => DiskFollowsChain
      BY DEF IInv
    <1>2. QED
      BY <1>1, IInvAlways, PTL

(* Dumping, looking up and evicting never change an answer.                *)
THEOREM FlushesInvisible == Spec => FlushInvisible
    <1> DEFINE A == chain' = chain /\ crashes' = crashes
                      => \A k \in Leaf : CheckFor(k)' = CheckFor(k)
    <1>1. ASSUME IInv, IInv', [Next]_vars PROVE [A]_vars
      <2>1. SUFFICES ASSUME chain' = chain, crashes' = crashes, ~UNCHANGED vars, NEW k \in Leaf
                     PROVE  CheckFor(k)' <=> CheckFor(k)
        BY DEF CheckFor
      <2>2. (CheckFor(k)' <=> Answer(k)') /\ (CheckFor(k) <=> Answer(k))
        BY <1>1, LeafAnswer, LeafAnswerNext DEF IInv
      <2>3. ASSUME NEW cmds \in Commands, ConnectTip(cmds) PROVE FALSE
        <3>1. chain \in Seq(Block)
          BY <1>1 DEF IInv, TypeOK
        <3>2. Len(chain') = Len(chain) + 1 /\ Len(chain) \in Nat
          BY <2>3, <3>1 DEF ConnectTip
        <3>3. QED
          BY <2>1, <3>2
      <2>4. CASE DisconnectTip
        <3>1. Len(chain') = Len(chain) - 1 /\ Len(chain) \in Nat
          BY <1>1, <2>4, ChainFront DEF DisconnectTip, IInv, TypeOK
        <3>2. QED
          BY <2>1, <3>1
      <2>5. ASSUME NEW j \in Key, Lookup(j) \/ Evict(j) PROVE Answer(k)' <=> Answer(k)
        BY <2>5 DEF Lookup, Evict, disk, Answer
      <2>6. ASSUME NEW j \in Key, DumpAdd(j) \/ DumpRemove(j) PROVE CheckFor(k)' <=> CheckFor(k)
        BY <1>1, <2>6, DumpInv
      <2>7. CASE BeginDump
        BY <2>7, <2>2 DEF BeginDump, memory, Answer
      <2>8. CASE EndDump
        BY <1>1, <2>8, EndDumpInv
      <2>9. CASE Crash
        BY <1>1, <2>1, <2>9 DEF Crash, IInv, TypeOK
      <2>10. QED
        BY <1>1, <2>1, <2>2, <2>3, <2>4, <2>5, <2>6, <2>7, <2>8, <2>9 DEF Next
    <1>2. QED
      BY <1>1, IInvAlways, PTL DEF Spec, FlushInvisible
=============================================================================
