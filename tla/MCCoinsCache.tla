---------------------------- MODULE MCCoinsCache ----------------------------
(* Model checking of CoinsCache: two outputs, two spendable coins and one  *)
(* unspendable one, two blocks.                                            *)
EXTENDS CoinsCache

CONSTANTS o1, o2, c1, c2, cU, b1, b2

MCOutpoint == {o1, o2}
MCCoin == {c1, c2, cU}
MCUnspendable == {cU}
MCBlock == {b1, b2}
=============================================================================
