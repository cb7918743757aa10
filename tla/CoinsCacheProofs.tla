-------------------------- MODULE CoinsCacheProofs --------------------------
(***************************************************************************)
(* Proofs about the stack of coin caches, for any set of outputs, coins    *)
(* and blocks: the flags stay truthful, no logic error is thrown, and the  *)
(* stack implements the abstract map CoinsView.                            *)
(***************************************************************************)
EXTENDS CoinsCache, TLAPS

USE SpentAssumption, NullAssumption, UnspendableAssumption

(* What one cache entry may be: typed, and truthful about the coin below.  *)
Good(e, below) == e \in Entry /\ Truthful(e, below)

(* FetchCoin leaves a truthful entry that answers as before.               *)
LEMMA FetchedGood ==
    ASSUME NEW below \in Coin \cup {Spent}, NEW e, Good(e, below)
    PROVE  /\ Good(Fetched(e, below), below)
           /\ Fetched(e, below).coin = IF e.cached THEN e.coin ELSE below
           /\ Fetched(e, below).cached \/ below = Spent
    <1>1. CASE e.cached \/ below = Spent
      <2>1. Fetched(e, below) = e
        BY <1>1 DEF Fetched
      <2>2. QED
        BY <1>1, <2>1 DEF Good, Truthful, Entry, Absent
    <1>2. CASE ~(e.cached \/ below = Spent)
      BY <1>2 DEF Good, Fetched, Truthful, Entry, Absent
    <1>3. QED
      BY <1>1, <1>2

(* AddCoin under its contract leaves a truthful entry.                     *)
LEMMA AddedGood ==
    ASSUME NEW below \in Coin \cup {Spent}, NEW e, Good(e, below),
           NEW c \in Coin, NEW ow \in BOOLEAN,
           ow \/ (IF e.cached THEN e.coin ELSE below) = Spent
    PROVE  /\ Good(AddedEntry(e, c, ow), below)
           /\ AddedEntry(e, c, ow).cached
           /\ AddedEntry(e, c, ow).coin = c
    BY DEF Good, AddedEntry, Truthful, Entry, Absent

(* SpendCoin on a fetched entry leaves a truthful entry or none, and the   *)
(* layer then answers that the coin is spent.                              *)
LEMMA SpentGood ==
    ASSUME NEW below \in Coin \cup {Spent}, NEW e, Good(e, below),
           e.cached \/ below = Spent
    PROVE  /\ Good(SpentEntry(e), below)
           /\ (IF SpentEntry(e).cached THEN SpentEntry(e).coin ELSE below) = Spent
    BY DEF Good, SpentEntry, Truthful, Entry, Absent

(* BatchWrite of a truthful child into a truthful parent throws nothing,   *)
(* keeps the parent truthful, and makes it answer as the child did.        *)
LEMMA WrittenGood ==
    ASSUME NEW below \in Coin \cup {Spent}, NEW p, Good(p, below),
           NEW c, Good(c, IF p.cached THEN p.coin ELSE below)
    PROVE  /\ ~Misapplied(c, p)
           /\ Good(Written(c, p), below)
           /\ (IF Written(c, p).cached THEN Written(c, p).coin ELSE below)
                = (IF c.cached THEN c.coin ELSE IF p.cached THEN p.coin ELSE below)
    <1>1. CASE ~c.dirty
      <2>1. Written(c, p) = p
        BY <1>1 DEF Written
      <2>2. ~Misapplied(c, p)
        BY <1>1 DEF Misapplied
      <2>3. QED
        BY <1>1, <2>1, <2>2 DEF Good, Truthful, Entry, Absent
    <1>2. CASE c.dirty /\ ~p.cached
      <2>1. Written(c, p) = [cached |-> TRUE, coin |-> c.coin, dirty |-> TRUE, fresh |-> c.fresh]
        BY <1>2 DEF Good, Written, Truthful
      <2>2. ~Misapplied(c, p)
        BY <1>2 DEF Misapplied
      <2>3. QED
        BY <1>2, <2>1, <2>2 DEF Good, Truthful, Entry, Absent
    <1>3. CASE c.dirty /\ p.cached /\ p.fresh /\ c.coin = Spent
      <2>1. Written(c, p) = Absent
        BY <1>3 DEF Written
      <2>2. QED
        BY <1>3, <2>1 DEF Good, Misapplied, Truthful, Entry, Absent
    <1>4. CASE c.dirty /\ p.cached /\ ~(p.fresh /\ c.coin = Spent)
      <2>1. Written(c, p) = [p EXCEPT !.coin = c.coin, !.dirty = TRUE]
        BY <1>4 DEF Written
      <2>2. ~Misapplied(c, p)
        BY <1>4 DEF Misapplied, Good, Truthful
      <2>3. c.cached /\ c \in Entry /\ p \in Entry
        BY <1>4 DEF Good, Truthful, Absent
      <2>4. Written(c, p) = [cached |-> TRUE, coin |-> c.coin, dirty |-> TRUE, fresh |-> p.fresh]
        BY <1>4, <2>1, <2>3 DEF Entry
      <2>5. Good(Written(c, p), below)
        BY <1>4, <2>3, <2>4 DEF Good, Truthful, Entry
      <2>6. QED
        BY <1>4, <2>2, <2>3, <2>4, <2>5
    <1>5. QED
      BY <1>1, <1>2, <1>3, <1>4

(* The database after a write answers as the truthful cache above it did.  *)
LEMMA DBWrittenGood ==
    ASSUME NEW c \in Coin \cup {Spent}, NEW e, Good(e, c)
    PROVE  /\ DBWritten(e, c) \in Coin \cup {Spent}
           /\ DBWritten(e, c) = IF e.cached THEN e.coin ELSE c
    BY DEF Good, DBWritten, Truthful, Entry, Absent

(* No entry is a good entry.                                               *)
LEMMA AbsentGood ==
    ASSUME NEW below \in Coin \cup {Spent}
    PROVE  Good(Absent, below)
    BY DEF Good, Truthful, Entry, Absent

(* The invariant, layer by layer.                                          *)
Layered ==
    \A o \in Outpoint :
        /\ db[o] \in Coin \cup {Spent}
        /\ TipCoin(o) \in Coin \cup {Spent}
        /\ Good(tip[o], db[o])
        /\ Good(view[o], TipCoin(o))

(* The invariant says that both layers are good.                           *)
LEMMA InvLayered ==
    ASSUME Inv
    PROVE  Layered
    BY DEF Inv, TypeOK, FlagsTruthful, Layered, Good, TipCoin, Entry

(* FetchCoin on pcoinsTip changes no answer of pcoinsTip.                  *)
LEMMA FetchTipSame ==
    ASSUME Inv, NEW o \in Outpoint
    PROVE  /\ FetchTip(o) \in [Outpoint -> Entry]
           /\ \A q \in Outpoint :
                /\ Good(FetchTip(o)[q], db[q])
                /\ (IF FetchTip(o)[q].cached THEN FetchTip(o)[q].coin ELSE db[q]) = TipCoin(q)
           /\ FetchTip(o)[o].coin = TipCoin(o)
    <1>1. Layered /\ tip \in [Outpoint -> Entry]
      BY InvLayered DEF Inv, TypeOK
    <1>2. /\ Good(Fetched(tip[o], db[o]), db[o])
          /\ Fetched(tip[o], db[o]).coin = TipCoin(o)
          /\ Fetched(tip[o], db[o]).cached \/ db[o] = Spent
      BY <1>1, FetchedGood DEF Layered, TipCoin
    <1>3. FetchTip(o) = [tip EXCEPT ![o] = Fetched(tip[o], db[o])]
      BY DEF FetchTip
    <1>4. FetchTip(o)[o] = Fetched(tip[o], db[o])
      BY <1>1, <1>3
    <1>5. Fetched(tip[o], db[o]) \in Entry
      BY <1>2 DEF Good
    <1>6. (IF FetchTip(o)[o].cached THEN FetchTip(o)[o].coin ELSE db[o]) = TipCoin(o)
      BY <1>1, <1>2, <1>4 DEF Layered, Good, Truthful, Absent, TipCoin, Fetched
    <1>7. \A q \in Outpoint \ {o} : FetchTip(o)[q] = tip[q]
      BY <1>1, <1>3
    <1>8. QED
      BY <1>1, <1>2, <1>3, <1>4, <1>5, <1>6, <1>7 DEF Layered, TipCoin

(* FetchCoin on the view changes no answer of either cache.                *)
LEMMA FetchViewSame ==
    ASSUME Inv, NEW o \in Outpoint
    PROVE  /\ FetchBelowView(o) \in [Outpoint -> Entry]
           /\ \A q \in Outpoint :
                /\ Good(FetchBelowView(o)[q], db[q])
                /\ (IF FetchBelowView(o)[q].cached THEN FetchBelowView(o)[q].coin ELSE db[q])
                     = TipCoin(q)
           /\ FetchView(o) = [view EXCEPT ![o] = Fetched(view[o], TipCoin(o))]
           /\ FetchView(o)[o] = Fetched(view[o], TipCoin(o))
           /\ Good(Fetched(view[o], TipCoin(o)), TipCoin(o))
           /\ Fetched(view[o], TipCoin(o)).cached \/ TipCoin(o) = Spent
           /\ Fetched(view[o], TipCoin(o)).coin = ViewCoin(o)
    <1>1. Layered /\ tip \in [Outpoint -> Entry] /\ view \in [Outpoint -> Entry]
      BY InvLayered DEF Inv, TypeOK
    <1>2. FetchBelowView(o) = tip \/ FetchBelowView(o) = FetchTip(o)
      BY DEF FetchBelowView
    <1>3. /\ FetchBelowView(o) \in [Outpoint -> Entry]
          /\ \A q \in Outpoint :
                /\ Good(FetchBelowView(o)[q], db[q])
                /\ (IF FetchBelowView(o)[q].cached THEN FetchBelowView(o)[q].coin ELSE db[q])
                     = TipCoin(q)
      <2>1. CASE FetchBelowView(o) = tip
        BY <1>1, <2>1 DEF Layered, TipCoin
      <2>2. CASE FetchBelowView(o) = FetchTip(o)
        BY <2>2, FetchTipSame
      <2>3. QED
        BY <1>2, <2>1, <2>2
    <1>4. /\ FetchView(o) = [view EXCEPT ![o] = Fetched(view[o], TipCoin(o))]
          /\ FetchView(o)[o] = Fetched(view[o], TipCoin(o))
      BY <1>1 DEF FetchView
    <1>5. /\ Good(Fetched(view[o], TipCoin(o)), TipCoin(o))
          /\ Fetched(view[o], TipCoin(o)).cached \/ TipCoin(o) = Spent
          /\ Fetched(view[o], TipCoin(o)).coin = ViewCoin(o)
      BY <1>1, FetchedGood DEF Layered, ViewCoin
    <1>6. QED
      BY <1>3, <1>4, <1>5

(* Back from the layers to the invariant.                                  *)
Rest ==
    /\ db \in [Outpoint -> Coin \cup {Spent}]
    /\ tip \in [Outpoint -> Entry]
    /\ view \in [Outpoint -> Entry]
    /\ dbBest \in Block
    /\ tipBest \in Block \cup {Null}
    /\ viewBest \in Block \cup {Null}
    /\ open \in BOOLEAN
    /\ result \in Coin \cup {Spent}
    /\ thrown = FALSE
    /\ NoLeftover

(* And good layers with the rest make the invariant.                       *)
LEMMA LayeredInv ==
    ASSUME Layered', Rest'
    PROVE  Inv'
    BY DEF Inv, TypeOK, FlagsTruthful, NoLogicError, Layered, Rest, Good

(* The invariant in its two parts.                                         *)
LEMMA InvRest ==
    ASSUME Inv
    PROVE  Rest /\ Layered
    BY InvLayered DEF Inv, TypeOK, NoLogicError, Rest

(* The effect of each operation on the invariant and on the answers.       *)
LEMMA AccessTipEffect ==
    ASSUME Inv, NEW o \in Outpoint, AccessTip(o)
    PROVE  /\ Inv'
           /\ result' = ViewCoin(o)
           /\ \A q \in Outpoint : TipCoin(q)' = TipCoin(q) /\ ViewCoin(q)' = ViewCoin(q)
    <1>1. Rest /\ Layered
      BY InvRest
    <1>2. \A q \in Outpoint : TipCoin(q)' = TipCoin(q)
      BY FetchTipSame DEF AccessTip, TipCoin
    <1>3. \A q \in Outpoint : ViewCoin(q)' = ViewCoin(q)
      BY <1>2 DEF AccessTip, ViewCoin
    <1>4. ViewCoin(o) = TipCoin(o)
      BY <1>1 DEF AccessTip, Rest, NoLeftover, ViewCoin, EmptyCache, Absent
    <1>5. result' = TipCoin(o)
      BY FetchTipSame DEF AccessTip
    <1>6. Layered'
      BY <1>1, <1>2, FetchTipSame DEF AccessTip, Layered
    <1>7. Rest'
      BY <1>1, <1>5, FetchTipSame DEF AccessTip, Layered, Rest, NoLeftover
    <1>8. QED
      BY <1>2, <1>3, <1>4, <1>5, <1>6, <1>7, LayeredInv

(* AccessCoin through the view caches and changes no answer.               *)
LEMMA AccessViewEffect ==
    ASSUME Inv, NEW o \in Outpoint, AccessView(o)
    PROVE  /\ Inv'
           /\ result' = ViewCoin(o)
           /\ \A q \in Outpoint : TipCoin(q)' = TipCoin(q) /\ ViewCoin(q)' = ViewCoin(q)
    <1>1. Rest /\ Layered
      BY InvRest
    <1>2. \A q \in Outpoint : TipCoin(q)' = TipCoin(q)
      BY FetchViewSame DEF AccessView, TipCoin
    <1>3. \A q \in Outpoint \ {o} : view'[q] = view[q]
      BY <1>1, FetchViewSame DEF AccessView, Rest
    <1>4. view'[o] = Fetched(view[o], TipCoin(o))
      BY FetchViewSame DEF AccessView
    <1>5. ViewCoin(o)' = ViewCoin(o)
      BY <1>2, <1>4, FetchViewSame DEF ViewCoin, Fetched
    <1>6. \A q \in Outpoint : ViewCoin(q)' = ViewCoin(q)
      BY <1>2, <1>3, <1>5 DEF ViewCoin
    <1>7. result' = ViewCoin(o)
      BY FetchViewSame DEF AccessView
    <1>8. Layered'
      BY <1>1, <1>2, <1>3, <1>4, FetchViewSame DEF AccessView, Layered
    <1>9. Fetched(view[o], TipCoin(o)) \in Entry
      BY FetchViewSame DEF Good
    <1>10. view' \in [Outpoint -> Entry]
      BY <1>1, <1>9, FetchViewSame DEF AccessView, Rest
    <1>11. ViewCoin(o) \in Coin \cup {Spent}
      BY <1>1 DEF Layered, Good, Entry, ViewCoin
    <1>12. Rest'
      BY <1>1, <1>7, <1>10, <1>11, FetchViewSame DEF AccessView, Rest, NoLeftover
    <1>13. QED
      BY <1>2, <1>6, <1>7, <1>8, <1>12, LayeredInv

(* AddCoin changes the answer of the view for its output, unless the coin  *)
(* is unspendable.                                                         *)
LEMMA AddCoinEffect ==
    ASSUME Inv, NEW o \in Outpoint, NEW c \in Coin, NEW ow \in BOOLEAN, AddCoin(o, c, ow)
    PROVE  /\ Inv'
           /\ \A q \in Outpoint :
                /\ TipCoin(q)' = TipCoin(q)
                /\ ViewCoin(q)' = IF q = o /\ c \notin Unspendable THEN c ELSE ViewCoin(q)
    <1>1. Rest /\ Layered
      BY InvRest
    <1>2. \A q \in Outpoint : TipCoin(q)' = TipCoin(q)
      BY DEF AddCoin, TipCoin
    <1>3. CASE c \in Unspendable
      <2>1. view' = view /\ thrown' = thrown
        BY <1>3 DEF AddCoin
      <2>2. Layered' /\ Rest'
        BY <1>1, <1>2, <2>1 DEF AddCoin, Layered, Rest, NoLeftover
      <2>3. QED
        BY <1>2, <1>3, <2>1, <2>2, LayeredInv DEF ViewCoin
    <1>4. CASE c \notin Unspendable
      <2>1. ow \/ (IF view[o].cached THEN view[o].coin ELSE TipCoin(o)) = Spent
        BY DEF AddCoin, ViewCoin
      <2>2. ow \/ view[o].coin = Spent
        BY <1>1, <2>1 DEF Layered, Good, Truthful, Absent
      <2>3. /\ view' = [view EXCEPT ![o] = AddedEntry(view[o], c, ow)]
            /\ thrown' = thrown
        BY <1>4, <2>2 DEF AddCoin
      <2>4. /\ Good(AddedEntry(view[o], c, ow), TipCoin(o))
            /\ AddedEntry(view[o], c, ow).cached
            /\ AddedEntry(view[o], c, ow).coin = c
        BY <1>1, <2>1, AddedGood DEF Layered
      <2>5. /\ view'[o] = AddedEntry(view[o], c, ow)
            /\ \A q \in Outpoint \ {o} : view'[q] = view[q]
        BY <1>1, <2>3 DEF Rest
      <2>6. Layered'
        BY <1>1, <1>2, <2>4, <2>5 DEF AddCoin, Layered
      <2>7. view' \in [Outpoint -> Entry]
        BY <1>1, <2>3, <2>4 DEF Rest, Good
      <2>8. Rest'
        BY <1>1, <2>3, <2>7 DEF AddCoin, Rest, NoLeftover
      <2>9. \A q \in Outpoint : ViewCoin(q)' = IF q = o THEN c ELSE ViewCoin(q)
        BY <1>2, <2>4, <2>5 DEF ViewCoin
      <2>10. QED
        BY <1>2, <1>4, <2>6, <2>8, <2>9, LayeredInv
    <1>5. QED
      BY <1>3, <1>4

(* SpendCoin returns the coin and leaves its output spent in the view.     *)
LEMMA SpendCoinEffect ==
    ASSUME Inv, NEW o \in Outpoint, SpendCoin(o)
    PROVE  /\ Inv'
           /\ result' = ViewCoin(o)
           /\ \A q \in Outpoint :
                /\ TipCoin(q)' = TipCoin(q)
                /\ ViewCoin(q)' = IF q = o THEN Spent ELSE ViewCoin(q)
    <1>1. Rest /\ Layered
      BY InvRest
    <1>2. \A q \in Outpoint : TipCoin(q)' = TipCoin(q)
      BY FetchViewSame DEF SpendCoin, TipCoin
    <1> DEFINE e == SpentEntry(Fetched(view[o], TipCoin(o)))
    <1>3. /\ Good(e, TipCoin(o))
          /\ (IF e.cached THEN e.coin ELSE TipCoin(o)) = Spent
      BY <1>1, FetchViewSame, SpentGood DEF Layered
    <1>4. view' = [view EXCEPT ![o] = e]
      BY FetchViewSame DEF SpendCoin
    <1>5. view'[o] = e /\ \A q \in Outpoint \ {o} : view'[q] = view[q]
      BY <1>1, <1>4 DEF Rest
    <1> HIDE DEF e
    <1>6. \A q \in Outpoint : ViewCoin(q)' = IF q = o THEN Spent ELSE ViewCoin(q)
      BY <1>2, <1>3, <1>5 DEF ViewCoin
    <1>7. result' = ViewCoin(o) /\ ViewCoin(o) \in Coin \cup {Spent}
      BY <1>1, FetchViewSame DEF SpendCoin, Layered, Good, Entry, ViewCoin
    <1>8. Layered'
      BY <1>1, <1>2, <1>3, <1>5, FetchViewSame DEF SpendCoin, Layered
    <1>9. view' \in [Outpoint -> Entry]
      BY <1>1, <1>3, <1>4 DEF Rest, Good
    <1>10. Rest'
      BY <1>1, <1>7, <1>9, FetchViewSame DEF SpendCoin, Rest, NoLeftover
    <1>11. QED
      BY <1>2, <1>6, <1>7, <1>8, <1>10, LayeredInv

(* Flush hands everything of the view to pcoinsTip, and both then answer   *)
(* alike.                                                                  *)
LEMMA FlushViewEffect ==
    ASSUME Inv, FlushView
    PROVE  /\ Inv'
           /\ tipBest' = viewBest
           /\ \A q \in Outpoint : TipCoin(q)' = ViewCoin(q) /\ ViewCoin(q)' = ViewCoin(q)
    <1>1. Rest /\ Layered
      BY InvRest
    <1>2. \A q \in Outpoint :
            /\ ~Misapplied(view[q], tip[q])
            /\ Good(Written(view[q], tip[q]), db[q])
            /\ (IF Written(view[q], tip[q]).cached THEN Written(view[q], tip[q]).coin ELSE db[q])
                 = ViewCoin(q)
      BY <1>1, WrittenGood DEF Layered, ViewCoin, TipCoin
    <1>3. /\ tip' = [q \in Outpoint |-> Written(view[q], tip[q])]
          /\ tipBest' = viewBest
          /\ thrown' = thrown
      BY <1>2 DEF FlushView
    <1>4. \A q \in Outpoint : TipCoin(q)' = ViewCoin(q)
      BY <1>2, <1>3 DEF FlushView, TipCoin
    <1>5. \A q \in Outpoint : view'[q] = Absent
      BY DEF FlushView, EmptyCache
    <1>6. \A q \in Outpoint : ViewCoin(q)' = ViewCoin(q)
      BY <1>4, <1>5 DEF ViewCoin, Absent
    <1>7. \A q \in Outpoint : ViewCoin(q) \in Coin \cup {Spent}
      BY <1>1 DEF Layered, Good, Entry, ViewCoin
    <1>8. \A q \in Outpoint : Good(view'[q], TipCoin(q)')
      BY <1>4, <1>5, <1>7, AbsentGood
    <1>9. Layered'
      BY <1>1, <1>2, <1>3, <1>4, <1>7, <1>8 DEF FlushView, Layered
    <1>10. tip' \in [Outpoint -> Entry]
      BY <1>2, <1>3 DEF Good
    <1>11. Absent \in Entry
      BY DEF Absent, Entry
    <1>12. Rest'
      BY <1>1, <1>3, <1>10, <1>11 DEF FlushView, Rest, NoLeftover, EmptyCache
    <1>13. QED
      BY <1>3, <1>4, <1>6, <1>9, <1>12, LayeredInv

(* A view that is dropped leaves pcoinsTip as it was.                      *)
LEMMA DropViewEffect ==
    ASSUME Inv, DropView
    PROVE  /\ Inv'
           /\ \A q \in Outpoint : TipCoin(q)' = TipCoin(q) /\ ViewCoin(q)' = TipCoin(q)
    <1>1. Rest /\ Layered
      BY InvRest
    <1>2. \A q \in Outpoint : TipCoin(q)' = TipCoin(q)
      BY DEF DropView, TipCoin
    <1>3. \A q \in Outpoint : view'[q] = Absent
      BY DEF DropView, EmptyCache
    <1>4. \A q \in Outpoint : ViewCoin(q)' = TipCoin(q)
      BY <1>2, <1>3 DEF ViewCoin, Absent
    <1>5. Layered'
      BY <1>1, <1>2, <1>3, AbsentGood DEF DropView, Layered
    <1>6. Absent \in Entry
      BY DEF Absent, Entry
    <1>7. Rest'
      BY <1>1, <1>6 DEF DropView, Rest, NoLeftover, EmptyCache
    <1>8. QED
      BY <1>2, <1>4, <1>5, <1>7, LayeredInv

(* Flushing pcoinsTip into the database changes no answer.                 *)
LEMMA FlushTipEffect ==
    ASSUME Inv, FlushTip
    PROVE  /\ Inv'
           /\ \A q \in Outpoint : TipCoin(q)' = TipCoin(q) /\ ViewCoin(q)' = ViewCoin(q)
    <1>1. Rest /\ Layered
      BY InvRest
    <1>2. \A q \in Outpoint : db'[q] = TipCoin(q)
      BY <1>1, DBWrittenGood DEF FlushTip, Layered, TipCoin
    <1>3. \A q \in Outpoint : tip'[q] = Absent
      BY DEF FlushTip, EmptyCache
    <1>4. \A q \in Outpoint : TipCoin(q)' = TipCoin(q)
      BY <1>2, <1>3 DEF TipCoin, Absent
    <1>5. \A q \in Outpoint : ViewCoin(q)' = ViewCoin(q)
      BY <1>4 DEF FlushTip, ViewCoin
    <1>6. Layered'
      BY <1>1, <1>2, <1>3, <1>4, AbsentGood DEF FlushTip, Layered
    <1>7. Absent \in Entry
      BY DEF Absent, Entry
    <1>8. db' \in [Outpoint -> Coin \cup {Spent}]
      BY <1>1, <1>2 DEF FlushTip, Layered
    <1>9. Rest'
      BY <1>1, <1>7, <1>8 DEF FlushTip, Rest, NoLeftover, EmptyCache
    <1>10. QED
      BY <1>4, <1>5, <1>6, <1>9, LayeredInv

(* Uncache changes no answer.                                              *)
LEMMA UncacheEffect ==
    ASSUME Inv, NEW o \in Outpoint, Uncache(o)
    PROVE  /\ Inv'
           /\ \A q \in Outpoint : TipCoin(q)' = TipCoin(q) /\ ViewCoin(q)' = ViewCoin(q)
    <1>1. Rest /\ Layered
      BY InvRest
    <1>2. tip'[o] = Absent /\ \A q \in Outpoint \ {o} : tip'[q] = tip[q]
      BY <1>1 DEF Uncache, Rest
    <1>3. tip[o].coin = db[o]
      BY <1>1 DEF Uncache, Layered, Good, Truthful
    <1>4. \A q \in Outpoint : TipCoin(q)' = TipCoin(q)
      BY <1>2, <1>3 DEF Uncache, TipCoin, Absent
    <1>5. \A q \in Outpoint : ViewCoin(q)' = ViewCoin(q)
      BY <1>4 DEF Uncache, ViewCoin
    <1>6. Layered'
      BY <1>1, <1>2, <1>4, AbsentGood DEF Uncache, Layered
    <1>7. Absent \in Entry
      BY DEF Absent, Entry
    <1>8. Rest'
      BY <1>1, <1>7 DEF Uncache, Rest, NoLeftover
    <1>9. QED
      BY <1>4, <1>5, <1>6, <1>8, LayeredInv

(* Steps that leave the coins of all layers alone.                         *)
LEMMA SameCoins ==
    ASSUME Inv, UNCHANGED <<db, tip, view>>
    PROVE  /\ Layered'
           /\ \A q \in Outpoint : TipCoin(q)' = TipCoin(q) /\ ViewCoin(q)' = ViewCoin(q)
    BY InvRest DEF Layered, TipCoin, ViewCoin

(* Empty caches satisfy the invariant.                                     *)
LEMMA InitInv == Init => Inv
    <1> SUFFICES ASSUME Init PROVE Inv
      OBVIOUS
    <1>1. Absent \in Entry
      BY DEF Absent, Entry
    <1>2. TypeOK
      BY <1>1 DEF Init, TypeOK, EmptyCache
    <1>3. FlagsTruthful
      BY DEF Init, FlagsTruthful, Truthful, EmptyCache, Absent
    <1>4. QED
      BY <1>2, <1>3 DEF Init, Inv, NoLogicError, NoLeftover

(* Every step keeps the invariant.                                         *)
LEMMA NextInv == Inv /\ [Next]_vars => Inv'
    <1> SUFFICES ASSUME Inv, [Next]_vars PROVE Inv'
      OBVIOUS
    <1>1. Rest
      BY InvRest
    <1>2. CASE OpenView
      BY <1>1, <1>2, SameCoins, LayeredInv DEF OpenView, Rest, NoLeftover
    <1>3. ASSUME NEW o \in Outpoint, AccessTip(o) \/ AccessView(o) \/ SpendCoin(o) \/ Uncache(o)
          PROVE  Inv'
      BY <1>3, AccessTipEffect, AccessViewEffect, SpendCoinEffect, UncacheEffect
    <1>4. ASSUME NEW o \in Outpoint, NEW c \in Coin, NEW ow \in BOOLEAN, AddCoin(o, c, ow)
          PROVE  Inv'
      BY <1>4, AddCoinEffect
    <1>5. ASSUME NEW b \in Block, SetBestBlock(b)
          PROVE  Inv'
      BY <1>1, <1>5, SameCoins, LayeredInv DEF SetBestBlock, Rest, NoLeftover
    <1>6. CASE GetBestBlock
      BY <1>1, <1>6, SameCoins, LayeredInv DEF GetBestBlock, TipBest, ViewBest, Rest, NoLeftover
    <1>7. CASE FlushView
      BY <1>7, FlushViewEffect
    <1>8. CASE DropView
      BY <1>8, DropViewEffect
    <1>9. CASE FlushTip
      BY <1>9, FlushTipEffect
    <1>10. CASE UNCHANGED vars
      BY <1>1, <1>10, SameCoins, LayeredInv DEF vars, Rest, NoLeftover
    <1>11. QED
      BY <1>2, <1>3, <1>4, <1>5, <1>6, <1>7, <1>8, <1>9, <1>10 DEF Next

(* In every state of every run of the caches the types hold, the FRESH and *)
(* DIRTY flags are truthful and no logic error has been thrown             *)
(* (CCoinsViewCache::AddCoin, SpendCoin, BatchWrite, Flush, Uncache).      *)
THEOREM CacheInvariant == Spec => []Inv
    <1>1. QED
      BY InitInv, NextInv, PTL DEF Spec

(* The types of the caches' state hold in every run.                       *)
THEOREM CacheTypes == Spec => []TypeOK
    <1>1. Inv => TypeOK
      BY DEF Inv
    <1>2. QED
      BY <1>1, CacheInvariant, PTL

(* A FRESH coin is unknown to the parent and a clean one repeats it, so    *)
(* SpendCoin and BatchWrite may drop what they drop.                       *)
THEOREM CacheFlagsTruthful == Spec => []FlagsTruthful
    <1>1. Inv => FlagsTruthful
      BY DEF Inv
    <1>2. QED
      BY <1>1, CacheInvariant, PTL

(* "FRESH flag misapplied" and "Adding new coin that replaces non-pruned   *)
(* entry" are never thrown.                                                *)
THEOREM CacheNeverThrows == Spec => []NoLogicError
    <1>1. Inv => NoLogicError
      BY DEF Inv
    <1>2. QED
      BY <1>1, CacheInvariant, PTL

-----------------------------------------------------------------------------
(* The refinement mapping: what pcoinsTip and the view answer.             *)
Utxo == [o \in Outpoint |-> TipCoin(o)]
Work == [o \in Outpoint |-> ViewCoin(o)]

(* The initial states map to initial states of CoinsView.                  *)
LEMMA InitImplements == Init => Abstract!Init
    <1> SUFFICES ASSUME Init PROVE Abstract!Init
      OBVIOUS
    <1>1. \A o \in Outpoint : TipCoin(o) = Spent /\ ViewCoin(o) = Spent
      BY DEF Init, EmptyCache, Absent, TipCoin, ViewCoin
    <1>2. QED
      BY <1>1 DEF Init, Abstract!Init, TipBest, ViewBest

(* Every step maps to a step of CoinsView or to a stutter.                 *)
LEMMA NextImplements == Inv /\ [Next]_vars => [Abstract!Next]_(Abstract!vars)
    <1> SUFFICES ASSUME Inv, [Next]_vars PROVE [Abstract!Next]_(Abstract!vars)
      OBVIOUS
    <1>1. Rest
      BY InvRest
    <1>2. ASSUME UNCHANGED <<db, tip, view>>
          PROVE  Utxo' = Utxo /\ Work' = Work
      BY <1>2, SameCoins DEF Utxo, Work
    <1>3. CASE OpenView
      <2>1. Abstract!Open
        BY <1>2, <1>3 DEF OpenView, Abstract!Open, Utxo, Work, TipBest, ViewBest
      <2>2. QED
        BY <2>1 DEF Abstract!Next
    <1>4. ASSUME NEW o \in Outpoint, AccessTip(o)
          PROVE  Abstract!Next
      <2>1. Utxo' = Utxo /\ Work' = Work /\ result' = Work[o]
        BY <1>4, AccessTipEffect DEF Utxo, Work
      <2>2. Abstract!Access(o)
        BY <1>4, <2>1 DEF AccessTip, Abstract!Access, Utxo, Work, TipBest, ViewBest
      <2>3. QED
        BY <2>2 DEF Abstract!Next
    <1>5. ASSUME NEW o \in Outpoint, AccessView(o)
          PROVE  Abstract!Next
      <2>1. Utxo' = Utxo /\ Work' = Work /\ result' = Work[o]
        BY <1>5, AccessViewEffect DEF Utxo, Work
      <2>2. Abstract!Access(o)
        BY <1>5, <2>1 DEF AccessView, Abstract!Access, Utxo, Work, TipBest, ViewBest
      <2>3. QED
        BY <2>2 DEF Abstract!Next
    <1>6. ASSUME NEW o \in Outpoint, SpendCoin(o)
          PROVE  Abstract!Next
      <2>1. Utxo' = Utxo /\ Work' = [Work EXCEPT ![o] = Spent] /\ result' = Work[o]
        BY <1>6, SpendCoinEffect DEF Utxo, Work
      <2>2. Abstract!Spend(o)
        BY <1>6, <2>1 DEF SpendCoin, Abstract!Spend, Utxo, Work, TipBest, ViewBest
      <2>3. QED
        BY <2>2 DEF Abstract!Next
    <1>7. ASSUME NEW o \in Outpoint, Uncache(o)
          PROVE  UNCHANGED Abstract!vars
      <2>1. Utxo' = Utxo /\ Work' = Work
        BY <1>7, UncacheEffect DEF Utxo, Work
      <2>2. QED
        BY <1>7, <2>1 DEF Uncache, Abstract!vars, Utxo, Work, TipBest, ViewBest
    <1>8. ASSUME NEW o \in Outpoint, NEW c \in Coin, NEW ow \in BOOLEAN, AddCoin(o, c, ow)
          PROVE  Abstract!Next
      <2>1. /\ Utxo' = Utxo
            /\ Work' = IF c \in Unspendable THEN Work ELSE [Work EXCEPT ![o] = c]
        BY <1>8, AddCoinEffect DEF Utxo, Work
      <2>2. Abstract!Add(o, c)
        BY <1>8, <2>1 DEF AddCoin, Abstract!Add, Utxo, Work, TipBest, ViewBest
      <2>3. QED
        BY <2>2 DEF Abstract!Next
    <1>9. ASSUME NEW b \in Block, SetBestBlock(b)
          PROVE  Abstract!Next
      <2>1. Abstract!SetBest(b)
        BY <1>2, <1>9 DEF SetBestBlock, Abstract!SetBest, Utxo, Work, TipBest, ViewBest
      <2>2. QED
        BY <2>1 DEF Abstract!Next
    <1>10. CASE GetBestBlock
      <2>1. Utxo' = Utxo /\ Work' = Work
        BY <1>2, <1>10 DEF GetBestBlock
      <2>2. TipBest' = TipBest /\ ViewBest' = ViewBest
        BY <1>1, <1>10 DEF GetBestBlock, TipBest, ViewBest, Rest, NoLeftover
      <2>3. QED
        BY <1>10, <2>1, <2>2 DEF GetBestBlock, Abstract!vars, Utxo, Work
    <1>11. CASE FlushView
      <2>1. Utxo' = Work /\ Work' = Work
        BY <1>11, FlushViewEffect DEF Utxo, Work
      <2>2. TipBest' = ViewBest /\ ViewBest' = ViewBest
        BY <1>1, <1>11, FlushViewEffect DEF FlushView, TipBest, ViewBest, Rest
      <2>3. Abstract!Commit
        BY <1>11, <2>1, <2>2 DEF FlushView, Abstract!Commit, Utxo, Work
      <2>4. QED
        BY <2>3 DEF Abstract!Next
    <1>12. CASE DropView
      <2>1. Utxo' = Utxo /\ Work' = Utxo
        BY <1>12, DropViewEffect DEF Utxo, Work
      <2>2. TipBest' = TipBest /\ ViewBest' = TipBest
        BY <1>12 DEF DropView, TipBest, ViewBest
      <2>3. Abstract!Drop
        BY <1>12, <2>1, <2>2 DEF DropView, Abstract!Drop, Utxo, Work
      <2>4. QED
        BY <2>3 DEF Abstract!Next
    <1>13. CASE FlushTip
      <2>1. Utxo' = Utxo /\ Work' = Work
        BY <1>13, FlushTipEffect DEF Utxo, Work
      <2>2. TipBest' = TipBest /\ ViewBest' = ViewBest
        BY <1>13 DEF FlushTip, TipBest, ViewBest
      <2>3. QED
        BY <1>13, <2>1, <2>2 DEF FlushTip, Abstract!vars, Utxo, Work
    <1>14. CASE UNCHANGED vars
      <2>1. Utxo' = Utxo /\ Work' = Work
        BY <1>2, <1>14 DEF vars
      <2>2. QED
        BY <1>14, <2>1 DEF vars, Abstract!vars, Utxo, Work, TipBest, ViewBest
    <1>15. QED
      BY <1>3, <1>4, <1>5, <1>6, <1>7, <1>8, <1>9, <1>10, <1>11, <1>12, <1>13, <1>14 DEF Next

(* The two caches and the database are, to every caller, the single map of *)
(* CoinsView: caching, flushing and uncaching are invisible, and a block   *)
(* view is committed whole or dropped whole.                               *)
THEOREM CacheImplementsView == Spec => ImplementsView
    <1>1. QED
      BY CacheInvariant, InitImplements, NextImplements, PTL DEF Spec, ImplementsView, Abstract!Spec
=============================================================================
