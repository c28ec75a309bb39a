----------------------------- MODULE MCNorDriver -----------------------------
(* Two banks of the flash with pages of two cells, on a machine that shows *)
(* RAM in bank 0 and one that does not.  Bits 0, 4 and 5 of a byte tell    *)
(* those apart that matter when one is taken for another: 0xF0 taken for   *)
(* data clears bit 0.                                                      *)
EXTENDS NorDriver, TLC

MCAddrs  == {"5555", "d555", "AAAA", "8000", "8001"}
MCAt5555 == {"5555", "d555"}
MCPageOf == "5555" :> 2 @@ "d555" :> 6 @@ "AAAA" :> 5 @@ "8000" :> 4 @@ "8001" :> 4
MCOffsetOf == [a \in MCAddrs |-> IF a \in {"8000", "AAAA"} THEN 0 ELSE 1]
MCSectorCells == "nc1020" :> 1 @@ "pc1000" :> 2
MCInfoAt == [a \in MCAddrs |-> IF a \in {"8001", "AAAA"} THEN 1 ELSE 0]
MCBytes  == {"AA", "55", "90", "A0", "80", "A8", "88", "78", "70", "30", "10", "F0"}
MCPatternOf ==
  [b \in MCBytes |->
     CASE b \in {"30", "F0", "78", "70"} -> {4, 5}
       [] b = "55"                       -> {0, 4}
       [] b \in {"10", "90"}             -> {4}
       [] b \in {"AA", "A0", "A8"}       -> {5}
       [] b \in {"80", "88"}             -> {}]

(* Banks 0 and 1 of the flash, one that is not there, and one of the ROM;  *)
(* page 6 a quarter of the flash's bank 0 or RAM; another volume with other *)
(* RAM in page 1; another place of the zero page.                           *)
Reg(bs, roa, bbs) ==
  [bs |-> bs, roa |-> roa, bbs |-> bbs, vol |-> 0, ramb |-> FALSE, zp |-> 0]
MCRegisterSets ==
  {Reg(0, FALSE, 0), Reg(1, FALSE, 0), Reg(2, FALSE, 0), Reg(1, TRUE, 0), Reg(1, TRUE, 1),
   Reg(128, TRUE, 0), [Reg(1, TRUE, 0) EXCEPT !.vol = 1, !.ramb = TRUE],
   [Reg(1, TRUE, 0) EXCEPT !.zp = 4]}
==============================================================================
