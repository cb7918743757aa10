--------------------------- MODULE MCBlockDownload ---------------------------
(* Model checking of BlockDownload: the chain g, a1, a2, a3 of the prompt  *)
(* peer, and a block y3 on a2 that does not connect.                      *)
EXTENDS BlockDownload

CONSTANTS good, slow, g, a1, a2, a3, y3

MCBlock == {g, a1, a2, a3, y3}
MCParent == [b \in MCBlock \ {g} |->
    CASE b = a1 -> g
      [] b = a2 -> a1
      [] b \in {a3, y3} -> a2]
MCKinds == [p \in {good, slow} |-> IF p = good THEN {"outbound"} ELSE {"outbound", "whitelisted"}]
MCBest == [p \in {good} |-> a3]
=============================================================================
