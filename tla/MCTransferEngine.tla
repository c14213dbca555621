--------------------------- MODULE MCTransferEngine ---------------------------
(* Small instances of the transfer engine for TLC. *)
EXTENDS TransferEngine, TLC

CONSTANTS o1, o2

MCSymmetry == Permutations(Ops)
==============================================================================
