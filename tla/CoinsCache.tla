----------------------------- MODULE CoinsCache -----------------------------
(***************************************************************************)
(* The stack of coin views the node works on (src/src/coins.cpp):          *)
(*                                                                         *)
(*   view   the CCoinsViewCache ConnectTip and DisconnectTip put on top    *)
(*   tip    the long-lived cache pcoinsTip                                 *)
(*   db     the chainstate database (CCoinsViewDB), external storage       *)
(*                                                                         *)
(* A cache entry carries two flags.  DIRTY: the entry may differ from the  *)
(* parent and must be written to it.  FRESH: the parent has no unspent     *)
(* version, so an entry that is spent before it is written may be dropped. *)
(* Everything runs under cs_main, so an operation is one step.             *)
(***************************************************************************)

CONSTANTS
    Outpoint,     \* transaction outputs
    Coin,         \* unspent outputs' contents
    Unspendable,  \* the coins whose script is provably unspendable
    Block,        \* block hashes
    Spent,        \* the null coin
    Null          \* the null hash

ASSUME SpentAssumption == Spent \notin Coin
ASSUME NullAssumption == Null \notin Block
ASSUME UnspendableAssumption == Unspendable \subseteq Coin

VARIABLES
    db,        \* coins in the database
    dbBest,    \* DB_BEST_BLOCK
    tip,       \* pcoinsTip->cacheCoins
    tipBest,   \* pcoinsTip->hashBlock
    open,      \* TRUE while a view on top of pcoinsTip is alive
    view,      \* that view's cacheCoins
    viewBest,  \* that view's hashBlock
    result,    \* the coin most recently handed to a caller
    thrown     \* a std::logic_error was thrown

vars == <<db, dbBest, tip, tipBest, open, view, viewBest, result, thrown>>

Entry == [cached : BOOLEAN, coin : Coin \cup {Spent}, dirty : BOOLEAN, fresh : BOOLEAN]

(* No entry.  Its other fields are those of a default-constructed          *)
(* CCoinsCacheEntry, which is what emplace creates.                        *)
Absent == [cached |-> FALSE, coin |-> Spent, dirty |-> FALSE, fresh |-> FALSE]

EmptyCache == [o \in Outpoint |-> Absent]

(* The coin a layer answers with: its own entry, or the parent's answer.   *)
TipCoin(o) == IF tip[o].cached THEN tip[o].coin ELSE db[o]
ViewCoin(o) == IF view[o].cached THEN view[o].coin ELSE TipCoin(o)

(* FetchCoin: find the entry or copy the parent's unspent coin in as a     *)
(* clean entry.  GetCoin answers false for a spent coin, so the branch     *)
(* that marks a spent copy FRESH is never taken on these layers.           *)
Fetched(e, below) ==
    IF e.cached \/ below = Spent THEN e
    ELSE [cached |-> TRUE, coin |-> below, dirty |-> FALSE, fresh |-> FALSE]

(* FetchCoin on pcoinsTip, and on a view, whose miss reads through it.     *)
FetchTip(o) == [tip EXCEPT ![o] = Fetched(tip[o], db[o])]
FetchBelowView(o) == IF view[o].cached THEN tip ELSE FetchTip(o)
FetchView(o) == [view EXCEPT ![o] = Fetched(view[o], TipCoin(o))]

Init ==
    /\ db = [o \in Outpoint |-> Spent]
    /\ dbBest \in Block
    /\ tip = EmptyCache
    /\ tipBest = Null
    /\ open = FALSE
    /\ view = EmptyCache
    /\ viewBest = Null
    /\ result = Spent
    /\ thrown = FALSE

(* CCoinsViewCache view(pcoinsTip)                                         *)
OpenView ==
    /\ ~open
    /\ open' = TRUE
    /\ UNCHANGED <<db, dbBest, tip, tipBest, view, viewBest, result, thrown>>

(* AccessCoin, GetCoin and HaveCoin on pcoinsTip (mempool and RPC).        *)
AccessTip(o) ==
    /\ ~open
    /\ tip' = FetchTip(o)
    /\ result' = FetchTip(o)[o].coin
    /\ UNCHANGED <<db, dbBest, tipBest, open, view, viewBest, thrown>>

(* The same on the view.                                                   *)
AccessView(o) ==
    /\ open
    /\ tip' = FetchBelowView(o)
    /\ view' = FetchView(o)
    /\ result' = FetchView(o)[o].coin
    /\ UNCHANGED <<db, dbBest, tipBest, open, viewBest, thrown>>

(* Mutant of AddedEntry: possible_overwrite is not looked at.              *)
MutAddedEntry(e, c, possible_overwrite) ==
    [cached |-> TRUE, coin |-> c, dirty |-> TRUE, fresh |-> e.fresh \/ ~e.dirty]

(* The entry AddCoin leaves.                                               *)
AddedEntry(e, c, possible_overwrite) ==
    [cached |-> TRUE,
     coin   |-> c,
     dirty  |-> TRUE,
     fresh  |-> e.fresh \/ (~possible_overwrite /\ ~e.dirty)]

(* AddCoin.  A caller passes possible_overwrite = FALSE only for an output *)
(* that is not unspent in the view: a new txid (BIP30), or an undo for     *)
(* which HaveCoin was false.                                               *)
AddCoin(o, c, possible_overwrite) ==
    /\ open
    /\ possible_overwrite \/ ViewCoin(o) = Spent
    /\ IF c \in Unspendable
       THEN UNCHANGED <<view, thrown>>
       ELSE IF ~possible_overwrite /\ view[o].coin # Spent
       THEN thrown' = TRUE /\ UNCHANGED view
       ELSE /\ view' = [view EXCEPT ![o] = AddedEntry(view[o], c, possible_overwrite)]
            /\ UNCHANGED thrown
    /\ UNCHANGED <<db, dbBest, tip, tipBest, open, viewBest, result>>

(* The entry SpendCoin leaves of the one FetchCoin found.                  *)
SpentEntry(e) ==
    IF ~e.cached \/ e.fresh THEN Absent
    ELSE [e EXCEPT !.dirty = TRUE, !.coin = Spent]

SpendCoin(o) ==
    /\ open
    /\ tip' = FetchBelowView(o)
    /\ result' = FetchView(o)[o].coin
    /\ view' = [view EXCEPT ![o] = SpentEntry(FetchView(o)[o])]
    /\ UNCHANGED <<db, dbBest, tipBest, open, viewBest, thrown>>

SetBestBlock(b) ==
    /\ open
    /\ viewBest' = b
    /\ UNCHANGED <<db, dbBest, tip, tipBest, open, view, result, thrown>>

(* GetBestBlock remembers the parent's answer in hashBlock.                *)
TipBest == IF tipBest = Null THEN dbBest ELSE tipBest
ViewBest == IF viewBest = Null THEN TipBest ELSE viewBest

GetBestBlock ==
    /\ tipBest' = IF open /\ viewBest # Null THEN tipBest ELSE TipBest
    /\ viewBest' = IF open THEN ViewBest ELSE viewBest
    /\ UNCHANGED <<db, dbBest, tip, open, view, result, thrown>>

(* CCoinsViewCache::BatchWrite, for one entry c of the child and the       *)
(* parent's entry p.                                                       *)
Misapplied(c, p) == c.dirty /\ p.cached /\ c.fresh /\ p.coin # Spent

(* Mutant of Written: FRESH is copied to a parent entry that exists.       *)
MutWritten(c, p) ==
    IF ~c.dirty THEN p
    ELSE IF ~p.cached
    THEN IF c.fresh /\ c.coin = Spent THEN p
         ELSE [cached |-> TRUE, coin |-> c.coin, dirty |-> TRUE, fresh |-> c.fresh]
    ELSE IF p.fresh /\ c.coin = Spent THEN Absent
    ELSE [p EXCEPT !.coin = c.coin, !.dirty = TRUE, !.fresh = p.fresh \/ c.fresh]

Written(c, p) ==
    IF ~c.dirty THEN p
    ELSE IF ~p.cached
    THEN IF c.fresh /\ c.coin = Spent THEN p
         ELSE [cached |-> TRUE, coin |-> c.coin, dirty |-> TRUE, fresh |-> c.fresh]
    ELSE IF p.fresh /\ c.coin = Spent THEN Absent
    ELSE [p EXCEPT !.coin = c.coin, !.dirty = TRUE]

(* view.Flush().  ConnectBlock and DisconnectBlock have called             *)
(* SetBestBlock on a view that is flushed.                                 *)
FlushView ==
    /\ open
    /\ viewBest # Null
    /\ IF \E o \in Outpoint : Misapplied(view[o], tip[o])
       THEN /\ thrown' = TRUE
            /\ UNCHANGED <<tip, tipBest>>
       ELSE /\ tip' = [o \in Outpoint |-> Written(view[o], tip[o])]
            /\ tipBest' = viewBest
            /\ UNCHANGED thrown
    /\ open' = FALSE
    /\ view' = EmptyCache
    /\ viewBest' = Null
    /\ UNCHANGED <<db, dbBest, result>>

(* The view goes out of scope without Flush: the block was invalid.        *)
DropView ==
    /\ open
    /\ open' = FALSE
    /\ view' = EmptyCache
    /\ viewBest' = Null
    /\ UNCHANGED <<db, dbBest, tip, tipBest, result, thrown>>

(* pcoinsTip->Flush() into CCoinsViewDB::BatchWrite, here as one step: the *)
(* crash between its batches is the subject of CoinsDB.                    *)
DBWritten(e, c) == IF e.dirty THEN e.coin ELSE c

(* Mutant of FlushTip: a null hashBlock is written.                        *)
MutFlushTip ==
    /\ ~open
    /\ db' = [o \in Outpoint |-> DBWritten(tip[o], db[o])]
    /\ dbBest' = tipBest
    /\ tip' = EmptyCache
    /\ UNCHANGED <<tipBest, open, view, viewBest, result, thrown>>

FlushTip ==
    /\ ~open
    /\ tipBest # Null
    /\ db' = [o \in Outpoint |-> DBWritten(tip[o], db[o])]
    /\ dbBest' = tipBest
    /\ tip' = EmptyCache
    /\ UNCHANGED <<tipBest, open, view, viewBest, result, thrown>>

(* Mutant of Uncache: the flags are not looked at.                         *)
MutUncache(o) ==
    /\ ~open
    /\ tip[o].cached
    /\ tip' = [tip EXCEPT ![o] = Absent]
    /\ UNCHANGED <<db, dbBest, tipBest, open, view, viewBest, result, thrown>>

(* Uncache: mempool acceptance drops what it alone brought in.             *)
Uncache(o) ==
    /\ ~open
    /\ tip[o].cached /\ ~tip[o].dirty /\ ~tip[o].fresh
    /\ tip' = [tip EXCEPT ![o] = Absent]
    /\ UNCHANGED <<db, dbBest, tipBest, open, view, viewBest, result, thrown>>

Next ==
    \/ OpenView
    \/ \E o \in Outpoint : AccessTip(o) \/ AccessView(o) \/ SpendCoin(o) \/ Uncache(o)
    \/ \E o \in Outpoint, c \in Coin, ow \in BOOLEAN : AddCoin(o, c, ow)
    \/ \E b \in Block : SetBestBlock(b)
    \/ GetBestBlock
    \/ FlushView
    \/ DropView
    \/ FlushTip

Spec == Init /\ [][Next]_vars

-----------------------------------------------------------------------------
(* The state of the caches, the flags and the database has its type.       *)
TypeOK ==
    /\ db \in [Outpoint -> Coin \cup {Spent}]
    /\ dbBest \in Block
    /\ tip \in [Outpoint -> Entry]
    /\ view \in [Outpoint -> Entry]
    /\ tipBest \in Block \cup {Null}
    /\ viewBest \in Block \cup {Null}
    /\ open \in BOOLEAN
    /\ result \in Coin \cup {Spent}
    /\ thrown \in BOOLEAN

(* One layer's flags tell the truth about its parent's coin: a FRESH entry *)
(* is unspent, dirty, and unknown to the parent; an entry that is not      *)
(* DIRTY repeats the parent's unspent coin.                                *)
Truthful(e, below) ==
    /\ e.cached \/ e = Absent
    /\ e.fresh => e.dirty /\ e.coin # Spent /\ below = Spent
    /\ e.cached /\ ~e.dirty => e.coin = below /\ e.coin # Spent

(* FRESH and DIRTY are truthful in both caches after any interleaving of   *)
(* block views, flushes, mempool look-ups and Uncache: coins.h's contract  *)
(* for the flags, on which dropping an entry rests.                        *)
FlagsTruthful ==
    \A o \in Outpoint : Truthful(tip[o], db[o]) /\ Truthful(view[o], TipCoin(o))

(* The logic errors of AddCoin and BatchWrite ("FRESH flag misapplied")    *)
(* cannot be thrown by callers that keep AddCoin's contract.               *)
NoLogicError == ~thrown

(* A view exists only while open, so nothing of a dropped or flushed view  *)
(* leaks into the next one.                                                *)
NoLeftover == ~open => view = EmptyCache /\ viewBest = Null

Inv == TypeOK /\ FlagsTruthful /\ NoLogicError /\ NoLeftover

(* The layers implement one map: whatever is cached, flushed or uncached,  *)
(* readers see the coins of the abstract view, and a block's changes       *)
(* appear at the tip together with its hash or not at all.                 *)
Abstract == INSTANCE CoinsView WITH
    utxo     <- [o \in Outpoint |-> TipCoin(o)],
    best     <- TipBest,
    work     <- [o \in Outpoint |-> ViewCoin(o)],
    workBest <- ViewBest

ImplementsView == Abstract!Spec
=============================================================================
