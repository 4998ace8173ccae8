----------------------------- MODULE MCRunQueue -----------------------------
(* A small instance of RunQueue: a few receipts, two workers.              *)
EXTENDS RunQueue, TLC

CONSTANTS r1, r2, w1, w2, q1

MCIds == {r1, r2}
MCWorkers == {w1, w2}
MCOthers == {{}, {q1}}
=============================================================================
