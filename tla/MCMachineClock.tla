--------------------------- MODULE MCMachineClock ---------------------------
(* MachineClock as TLC runs it; the lengths of a day and a second are in   *)
(* the .cfg file.                                                          *)
EXTENDS MachineClock
==============================================================================
