----------------------------- MODULE CoinsView -----------------------------
(***************************************************************************)
(* What the stack of coin caches promises (src/src/coins.h, class          *)
(* CCoinsView): a map from outpoints to coins together with the block it   *)
(* is the state after.  A block is connected or disconnected on a scratch  *)
(* view that is committed as a whole or dropped as a whole.  There is no   *)
(* cache, no flag and no database here.                                    *)
(***************************************************************************)

CONSTANTS Outpoint, Coin, Unspendable, Block, Spent

VARIABLES
    utxo,       \* the coins of the tip of the chain (pcoinsTip)
    best,       \* the block utxo is the state after
    open,       \* TRUE while a scratch view exists
    work,       \* the coins of the scratch view
    workBest,   \* the block the scratch view is the state after
    result      \* the coin most recently handed to a caller

vars == <<utxo, best, open, work, workBest, result>>

(* While no scratch view exists, work and workBest repeat the tip.         *)
Init ==
    /\ utxo = [o \in Outpoint |-> Spent]
    /\ best \in Block
    /\ open = FALSE
    /\ work = utxo
    /\ workBest = best
    /\ result = Spent

Open ==
    /\ ~open
    /\ open' = TRUE
    /\ UNCHANGED <<utxo, best, work, workBest, result>>

Access(o) ==
    /\ result' = work[o]
    /\ UNCHANGED <<utxo, best, open, work, workBest>>

Add(o, c) ==
    /\ open
    /\ work' = IF c \in Unspendable THEN work ELSE [work EXCEPT ![o] = c]
    /\ UNCHANGED <<utxo, best, open, workBest, result>>

Spend(o) ==
    /\ open
    /\ result' = work[o]
    /\ work' = [work EXCEPT ![o] = Spent]
    /\ UNCHANGED <<utxo, best, open, workBest>>

SetBest(b) ==
    /\ open
    /\ workBest' = b
    /\ UNCHANGED <<utxo, best, open, work, result>>

Commit ==
    /\ open
    /\ open' = FALSE
    /\ utxo' = work
    /\ best' = workBest
    /\ UNCHANGED <<work, workBest, result>>

Drop ==
    /\ open
    /\ open' = FALSE
    /\ work' = utxo
    /\ workBest' = best
    /\ UNCHANGED <<utxo, best, result>>

Next ==
    \/ Open
    \/ \E o \in Outpoint : Access(o) \/ Spend(o)
    \/ \E o \in Outpoint, c \in Coin : Add(o, c)
    \/ \E b \in Block : SetBest(b)
    \/ Commit
    \/ Drop

Spec == Init /\ [][Next]_vars
=============================================================================
