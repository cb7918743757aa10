------------------------------ MODULE MCCoinsDB ------------------------------
(* Model checking of CoinsDB on two branches of two blocks.  The same      *)
(* transaction is in a1 and b1 (o1); o2 is created on both branches at     *)
(* different heights; o3 is created and spent inside b2.                   *)
EXTENDS CoinsDB

CONSTANTS g, a1, a2, b1, b2, o1, o2, o3

MCBlock == {g, a1, a2, b1, b2}
MCParent == [x \in MCBlock |-> CASE x \in {g, a1, b1} -> g [] x = a2 -> a1 [] x = b2 -> b1]
MCHeight == [x \in MCBlock |-> CASE x = g -> 0 [] x \in {a1, b1} -> 1 [] x \in {a2, b2} -> 2]
MCOutpoint == {o1, o2, o3}
MCCreates == [x \in MCBlock |-> CASE x = a1 -> {o1, o2} [] x = a2 -> {o3} [] x = b1 -> {o1}
                                  [] x = b2 -> {o2, o3} [] x = g -> {}]
MCSpends == [x \in MCBlock |-> CASE x = a2 -> {o1} [] x = b2 -> {o1, o3} [] OTHER -> {}]
=============================================================================
