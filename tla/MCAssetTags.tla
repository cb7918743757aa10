----------------------------- MODULE MCAssetTags -----------------------------
(* Model checking of AssetTags on a root qualifier r and its sub qualifier *)
(* s; s stands for the keys that have no relation to others as well.       *)
EXTENDS AssetTags

CONSTANTS r, s

MCKey == {r, s}
MCSub == {s}
MCRoot == [x \in MCSub |-> r]
=============================================================================
