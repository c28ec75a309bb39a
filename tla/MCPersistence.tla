---------------------------- MODULE MCPersistence ----------------------------
(* Persistence for TLC: a NAND file of two blocks. *)
EXTENDS Persistence, TLC

CONSTANTS b1, b2

MCSymmetry == Permutations({b1, b2})
==============================================================================
