--------------------------- MODULE MCTransferQueue ---------------------------
(* TLC instance of TransferQueue: more jobs than slots, more workers than    *)
(* slots, so that the limit binds and cancels hit jobs in every position.    *)
EXTENDS TransferQueue, TLC

CONSTANTS j1, j2, j3, c1, w1, w2, w3

MCJobIds == {j1, j2, j3}
MCCallIds == {c1}
MCWorkers == {w1, w2, w3}
MCSymmetry == Permutations(MCJobIds) \cup Permutations(MCWorkers)
==============================================================================
