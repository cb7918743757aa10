------------------------------ MODULE MCMempool ------------------------------
(* Model checking of Mempool: par has a child kid, and both spends the two *)
(* of them; iss and riv issue the same asset, and riv spends the coin that *)
(* par spends; rei, and after it again, reissue an older asset, and again  *)
(* spends the coinbase transaction cb; use spends an output of iss.        *)
EXTENDS Mempool

CONSTANTS par, kid, both, iss, riv, rei, again, cb, use, N, M, Children

MCTx == {par, kid, both, iss, riv, rei, again, cb} \cup IF Children THEN {use} ELSE {}
MCvin == [t \in MCTx |->
    CASE t = par -> <<<<Base, 1>>>>
      [] t = kid -> <<<<par, 1>>>>
      [] t = both -> <<<<kid, 1>>, <<par, 2>>>>
      [] t = riv -> <<<<Base, 1>>>>
      [] t = iss -> <<<<Base, 2>>>>
      [] t = rei -> <<<<Base, 3>>>>
      [] t = again -> <<<<rei, 1>>, <<cb, 1>>>>
      [] t = use -> <<<<iss, 1>>>>
      [] t = cb -> <<>>]
MCFee == [t \in MCTx |-> IF t = riv THEN 5 ELSE IF t = kid THEN 0 ELSE 1]
MCLockHeight == [t \in MCTx |-> IF t = both THEN 2 ELSE 0]
MCIssue == [t \in MCTx |-> IF t \in {iss, riv} THEN N ELSE None]
MCReissue == [t \in MCTx |-> IF t \in {rei, again} THEN M ELSE None]
MCBlocks == {<<cb, par>>, <<par, kid>>, <<kid>>, <<riv>>, <<iss>>, <<rei>>}
=============================================================================
