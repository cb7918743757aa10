---------------------------- MODULE MCCheckQueue ----------------------------
(* Model checking of CheckQueue: two workers, two threads that connect     *)
(* blocks, blocks of up to four checks, batches of up to two.              *)
EXTENDS CheckQueue

CONSTANTS w1, w2, m1, m2

TwoWorkers == {w1, w2}
TwoMasters == {m1, m2}
=============================================================================
