---------------------------- MODULE MCNandDriver ----------------------------
(* Pages of two main and one spare cell are the smallest that tell the     *)
(* halves and the spare area apart.                                        *)
EXTENDS NandDriver

==============================================================================
