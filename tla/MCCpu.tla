------------------------------- MODULE MCCpu --------------------------------
(* Instructions of every opcode between interrupts of every kind.  The IRQ *)
(* handler keeps the accumulator and lets an IRQ interrupt it; the NMI     *)
(* handler adds decimally.  Operands lie where indexing crosses a page and *)
(* at the end of the zero page; the stack starts full or about to wrap.    *)
EXTENDS Cpu, TLC

Bytes(first, code) == [a \in first..(first + Len(code) - 1) |-> code[a - first + 1]]
IRQCode == <<\h48, \h58, \hA9, \h80, \h68, \h40>>   \* PHA CLI LDA# PLA RTI
NMICode == <<\h48, \hF8, \h69, \h15, \h68, \h40>>   \* PHA SED ADC# PLA RTI
MCHandlerCode == \hE000..\hE005 \cup \hE100..\hE105
Memory == Bytes(\hFFFA, <<0, \hE1, 0, 2, 0, \hE0>>) @@ Bytes(\hE000, IRQCode)
          @@ Bytes(\hE100, NMICode)
          @@ Bytes(\h20, <<\hFF, \h02, \h81>>) @@ Bytes(\h80, <<\h40, \h03>>)
          @@ Bytes(\h100, <<\h03>>) @@ Bytes(\h2FF, <<\h99, \h01, \h80, 0, \hFF>>)

Start(a, x, y, sp, ps) ==
  [CpuInitialize(Memory) EXCEPT !.a = a, !.x = x, !.y = y, !.sp = sp, !.ps = ps]
MCStarts == {Start(\h99, 1, 3, 1, {}), Start(\h50, \hDF, 1, 255, {"C", "D", "I"})}

(* Each documented opcode, and others of one, two and three bytes. *)
Codes    == (Byte \ Illegal) \cup {\h02, \h1A, \h04, \h0B, \h1B}
Anything == {<<c, b, \h02>> : c \in Codes, b \in {\h20, \hFF}}
Sums     == {<<c, b, \h02>> : c \in {\h69, \hE9}, b \in {0, 1, \h09, \h10, \h49, \h50, \h51, \h90, \h99}}
(* CLI, SED, BRK *)
Few      == {<<c, 0, 0>> : c \in {\h58, \hF8, \h00}}
MCFirmware == <<Few, Anything \cup Sums>>
=============================================================================
