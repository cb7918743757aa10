----------------------------- MODULE MCAssetData -----------------------------
(* Model checking of AssetData on a restricted asset A and a plain one B.  *)
(* A is issued, and reissued with finer units, with another hash and       *)
(* verifier string, and for the last time, also in the block of another    *)
(* reissue; B is issued and reissued beside it.  Two reissues of A may be  *)
(* in the pool.  Three sets of blocks with which the code fails: Rivals    *)
(* has two issues of a name on competing branches, Together an issue and a *)
(* reissue in one block, Twice two reissues that both change something.    *)
EXTENDS AssetData

CONSTANTS A, B, h, h2, v, w

issue == [kind |-> "issue", asset |-> A, units |-> 0, ipfs |-> None, reissuable |-> TRUE, verifier |-> v]
rival == [issue EXCEPT !.ipfs = h2]
finer == [kind |-> "reissue", asset |-> A, units |-> 1, ipfs |-> None, reissuable |-> TRUE, verifier |-> None]
renew == [finer EXCEPT !.units = None, !.ipfs = h, !.verifier = w]
final == [finer EXCEPT !.units = None, !.reissuable = FALSE]
issueB == [issue EXCEPT !.asset = B, !.verifier = None]
renewB == [finer EXCEPT !.asset = B, !.ipfs = h]

OneEach == {<<issue>>, <<finer>>, <<renew>>, <<final>>, <<issue, issueB>>, <<renewB, renew>>, <<issueB>>,
            <<finer, final>>}
Pooled == {finer, final}
Rivals == {<<issue>>, <<rival>>, <<finer>>}
Together == {<<issue>>, <<issue, finer>>, <<issue, renew>>}
Twice == {<<issue>>, <<finer, renew>>}
=============================================================================
