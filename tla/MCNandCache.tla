----------------------------- MODULE MCNandCache -----------------------------
(* NandCache as TLC runs it; the sizes and the faults are in the .cfg files. *)
EXTENDS NandCache
==============================================================================
