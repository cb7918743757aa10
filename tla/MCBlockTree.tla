----------------------------- MODULE MCBlockTree -----------------------------
(* Model checking of BlockTree on a tree of two branches, one of which     *)
(* forks again:                                                            *)
(*                                                                         *)
(*      g - a1 - a2 - a3                                                   *)
(*      |     \- c2                                                        *)
(*      \- b1 - b2                                                         *)
EXTENDS BlockTree

CONSTANTS g, a1, a2, a3, b1, b2, c2, Shape

(* The blocks of each shape of the tree.                                   *)
MCBlock ==
    CASE Shape = "forked" -> {g, a1, a2, a3, b1, b2}
      [] Shape = "bushy"  -> {g, a1, a2, a3, c2, b1}
      [] Shape = "full"   -> {g, a1, a2, a3, c2, b1, b2}
      [] Shape = "small"  -> {g, a1, a2, c2, b1}

MCParent == [x \in MCBlock |-> CASE x \in {g, a1, b1} -> g
                                 [] x \in {a2, c2} -> a1
                                 [] x = a3 -> a2
                                 [] x = b2 -> b1]
MCHeight == [x \in MCBlock |-> CASE x = g -> 0
                                 [] x \in {a1, b1} -> 1
                                 [] x \in {a2, b2, c2} -> 2
                                 [] x = a3 -> 3]
MCWork == [x \in MCBlock |-> MCHeight[x] + 1]
MCAddr == [x \in MCBlock |-> CASE x = g -> 0 [] x = b1 -> 1 [] x = a1 -> 2 [] x = a2 -> 3
                               [] x = c2 -> 4 [] x = b2 -> 5 [] x = a3 -> 6]
=============================================================================
