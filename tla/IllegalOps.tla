---------------------------- MODULE IllegalOps -----------------------------
(* The opcodes a 6502 does not document (cpu.cpp), which both cores skip:  *)
(* the bytes and cycles they have on a 6502.  The 65C02's own instructions *)
(* are among them, WAI and STP too, so that the core never sees those.     *)
EXTENDS Bytes

Nops1 == {\h1A, \h3A, \h5A, \h7A, \hDA, \hFA}
Jams  == {\h02, \h12, \h22, \h32, \h42, \h52, \h62, \h72, \h92, \hB2, \hD2, \hF2}

(* The opcodes that take n cycles. *)
Taking == [n \in 2..8 |->
  CASE n = 2 -> Nops1 \cup {\h0B, \h2B, \h4B, \h6B, \h80, \h82, \h89, \h8B, \hAB, \hC2, \hCB, \hE2, \hEB}
    [] n = 3 -> {\h04, \h44, \h64, \h87, \hA7}
    [] n = 4 -> {\h14, \h34, \h54, \h74, \h97, \hB7, \hD4, \hF4, \h0C, \h1C, \h3C, \h5C, \h7C, \h8F,
                 \hAF, \hBB, \hBF, \hDC, \hFC}
    [] n = 5 -> {\h07, \h27, \h47, \h67, \hB3, \hC7, \hE7, \h9B, \h9C, \h9E, \h9F}
    [] n = 6 -> {\h17, \h37, \h57, \h77, \h83, \h93, \hA3, \hD7, \hF7, \h0F, \h2F, \h4F, \h6F,
                 \hCF, \hEF} \cup Jams
    [] n = 7 -> {\h1B, \h1F, \h3B, \h3F, \h5B, \h5F, \h7B, \h7F, \hDB, \hDF, \hFB, \hFF}
    [] n = 8 -> {\h03, \h13, \h23, \h33, \h43, \h53, \h63, \h73, \hC3, \hD3, \hE3, \hF3}]

Illegal          == UNION {Taking[n] : n \in 2..8}
illegal_op_cycle == [c \in Illegal |-> CHOOSE n \in 2..8 : c \in Taking[n]]

(* With an absolute address, without an operand, or with one byte. *)
illegal_op_byte ==
  [c \in Illegal |->
     CASE c \in Nops1 \cup Jams -> 1
       [] c % 16 \in 12..15 \/ (c % 16 = 11 /\ (c \div 16) % 2 = 1) -> 3
       [] OTHER -> 2]
=============================================================================
