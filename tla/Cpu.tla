-------------------------------- MODULE Cpu ---------------------------------
(* The processor as the machine's loop drives it (cpu.cpp, cpu_loop_new.cpp): *)
(* interrupts are asked for between batches of instructions, an NMI is     *)
(* taken at the start of a batch, an IRQ before an instruction.  The        *)
(* firmware is any sequence of instructions, its interrupt handlers are    *)
(* fixed.  The loop itself and what the interrupts are for: MachineClock.  *)
EXTENDS W65C02, Sequences

CONSTANTS
  Starts,         \* the cores to start from, their memory holding the handlers
  HandlerCode,    \* the addresses of the handlers
  Firmware,       \* at n the instructions the firmware's n-th may be, as three
                  \* bytes of which the shorter ones use the first
  MaxRequests     \* bound: interrupts asked for

VARIABLES
  s,              \* the core
  phase,          \* "idle" between batches, "fetch" or "execute" in one
  done,           \* the firmware's instructions so far
  requests,       \* interrupts asked for so far
  saved,          \* history: what the interrupts that last interrupted, newest first
  deep            \* history: an NMI found less than three bytes of stack

vars == <<s, phase, done, requests, saved, deep>>

(* The cores with a memory. *)
Cores(mem) ==
  [a : Byte, x : Byte, y : Byte, sp : Byte, pc : Word, ps : SUBSET DOMAIN FlagBit,
   mem : {mem}, irq : BOOLEAN, nmi : BOOLEAN, cyc : 0..15]
IsMemory(mem) == \A addr \in DOMAIN mem : addr \in Word /\ mem[addr] \in Byte

ASSUME CpuAssumption ==
  /\ \A c \in Starts : c \in Cores(c.mem) /\ IsMemory(c.mem)
  /\ Firmware \in Seq(SUBSET (Byte \X Byte \X Byte)) /\ MaxRequests \in Nat

TypeOK ==
  /\ deep \/ s \in Cores(s.mem)
  /\ IsMemory(s.mem)
  /\ phase \in {"idle", "fetch", "execute"}
  /\ done \in 0..Len(Firmware) /\ requests \in 0..MaxRequests
  /\ deep \in BOOLEAN

Init == s \in Starts /\ phase = "idle" /\ done = 0 /\ requests = 0 /\ saved = <<>> /\ deep = FALSE

(* What an interrupt must give back: the core but for its memory, and but  *)
(* for mB, which the machine does not see.                                 *)
Context(c)    ==
  [a |-> c.a, x |-> c.x, y |-> c.y, sp |-> c.sp, pc |-> c.pc, ps |-> c.ps \ {"B"}]
Interrupt(c)  == saved' = <<Context(c)>> \o saved
InHandler     == s.pc \in HandlerCode

Ask(core) ==
  /\ phase = "idle" /\ requests < MaxRequests
  /\ requests' = requests + 1
  /\ s' = core
  /\ UNCHANGED <<phase, done, deep>>
AskNMI == Ask(set_nmi_pending(s)) /\ UNCHANGED saved
AskIRQ == Ask(set_irq_pending(s)) /\ UNCHANGED saved
IRQNow == /\ Ask(irq_now([s EXCEPT !.cyc = 0]))
          /\ IF "I" \in s.ps THEN UNCHANGED saved ELSE Interrupt(s)

Begin ==
  /\ phase = "idle" /\ phase' = "fetch"
  /\ s' = Enter([s EXCEPT !.cyc = 0])
  /\ IF s.nmi THEN Interrupt(s) /\ deep' = (deep \/ s.sp < 3) ELSE UNCHANGED <<saved, deep>>
  /\ UNCHANGED <<done, requests>>

(* The firmware's next instruction: any, at the place where it has come to. *)
Place ==
  /\ phase = "fetch" /\ ~TakesIRQ(s) /\ ~InHandler /\ done < Len(Firmware)
  /\ \E code \in Firmware[done + 1] :
       s' = CPU_POKE(CPU_POKE(CPU_POKE(s, s.pc, code[1]), s.pc + 1, code[2]), s.pc + 2, code[3])
  /\ phase' = "execute"
  /\ done' = done + 1
  /\ UNCHANGED <<requests, saved, deep>>

(* One round of execute's loop, after which the batch ends or goes on. *)
Execute ==
  /\ phase = "execute" \/ (phase = "fetch" /\ (TakesIRQ(s) \/ InHandler))
  /\ s' = Round(s)
  /\ LET code == CPU_PEEK(s, s.pc)
     IN  CASE TakesIRQ(s)                    -> Interrupt(s)
           [] ~TakesIRQ(s) /\ code = \h00    -> Interrupt(Jump(s, s.pc + 2))
           [] ~TakesIRQ(s) /\ code = \h40 /\ saved # <<>> -> saved' = Tail(saved)
           [] OTHER                          -> UNCHANGED saved
  /\ phase' \in {"fetch", "idle"}
  /\ UNCHANGED <<done, requests, deep>>

Next == AskNMI \/ AskIRQ \/ IRQNow \/ Begin \/ Place \/ Execute
Spec == Init /\ [][Next]_vars

-----------------------------------------------------------------------------
(* Properties *)

(* What an interrupt or BRK interrupts goes on with the registers, flags,  *)
(* stack pointer and place it had, once the handler returns, however many  *)
(* others came in between.  Not if an NMI found less than three bytes of   *)
(* stack: its pushes do not wrap (w65c02op.cpp:1496).                      *)
(* (xBRK, xRTI, w65c02macro.h:321, 693, CpuExecuteNMI, CpuExecuteIRQ,      *)
(* w65c02op.cpp:1482-1545)                                                 *)
InterruptsAreTransparent ==
  [][saved # <<>> /\ saved' = Tail(saved) /\ ~deep => Context(s') = Head(saved)]_vars

(* In decimal mode ADC and SBC of decimal numbers give the decimal sum and *)
(* difference and their carry, and the Z of the 65C02.  (xADC, xSBC,       *)
(* w65c02macro.h:108-143, 743-775)                                         *)
IsDecimal(b) == b \in Byte /\ b % 16 < 10 /\ b \div 16 < 10
Decimal(b)   == 10 * (b \div 16) + (b % 16)
DecimalStep ==
  LET code   == CPU_PEEK(s, s.pc)
      v      == CPU_PEEK(s, s.pc + 1)
      c      == Carry(s)
      result == IF code = \h69 THEN Decimal(s.a) + Decimal(v) + c
                ELSE Decimal(s.a) - Decimal(v) - (1 - c)
  IN  Execute /\ ~TakesIRQ(s) /\ code \in {\h69, \hE9} /\ "D" \in s.ps
        /\ IsDecimal(s.a) /\ IsDecimal(v)
      => /\ IsDecimal(s.a') /\ Decimal(s.a') = result % 100
         /\ ("C" \in s.ps') = (IF code = \h69 THEN result > 99 ELSE result >= 0)
         /\ ("Z" \in s.ps') = (s.a' = 0)
DecimalIsDecimal == [][DecimalStep]_vars

-----------------------------------------------------------------------------
(* The two cores *)

Emux == INSTANCE C6502
Image(c) ==
  [A |-> c.a, X |-> c.x, Y |-> c.y, SP |-> c.sp, PC |-> c.pc, P |-> c.ps \ {"B"}, mem |-> c.mem,
   irqPending |-> c.irq, nmiPending |-> c.nmi, clk |-> 12 * c.cyc]

(* Where they are known to differ: only w65c02 adds decimally, clears D on *)
(* an interrupt and takes a zero page pointer at 0xff from 0x100; only     *)
(* c6502 takes the high byte of JMP's pointer from the same page, an IRQ   *)
(* within CLI and RTI, and an IRQ that was asked for twice twice; the      *)
(* status of an NMI has a B that BRK left; and the cycles of illegal       *)
(* opcodes, of BVS, and of STA (zp),Y into another page.                   *)
DiffersAt(t) ==
  LET code    == CPU_PEEK(t, t.pc)
      op      == Opcode[code][1]
      mode    == Opcode[code][2]
      pointer == CPU_PEEK(t, t.pc + 1)
      after   == CpuExecuteOP(t)
  IN  \/ code \in Illegal
      \/ op \in {"ADC", "SBC", "BRK"} /\ "D" \in t.ps
      \/ op = "BVS"
      \/ op \in {"CLI", "RTI"} /\ TakesIRQ(after)
      \/ mode \in {"indy", "indy2"} /\ pointer = 255
      \/ mode = "indx" /\ (pointer + t.x) % 256 = 255
      \/ mode = "ind" /\ pointer = 255
      \/ op = "STA" /\ mode = "indy"
           /\ PageCrossed(CPU_PEEKW(t, pointer), t.y) = 1
Differs ==
  \/ Execute /\ TakesIRQ(s) /\ "D" \in s.ps
  \/ Execute /\ DiffersAt(Interrupted(s))
  \/ Begin /\ s.nmi /\ "B" \in s.ps
  \/ IRQNow /\ "I" \notin s.ps /\ (s.irq \/ "D" \in s.ps)

(* At every instruction and every interrupt the two cores do the same,     *)
(* cycles included, but for these differences: "it's mainly used for       *)
(* comparing with handpsp's cpu".  (compare/c6502.cpp:2, cpu.cpp:25-83)    *)
Still(e) == [e EXCEPT !.clk = 0]
SameStep ==
  /\ Begin   => Image(s') = Emux!Enter(Still(Image(s)))
  /\ Execute => Image(s') = Emux!Round(Still(Image(s)))
  /\ AskNMI  => Image(s') = Emux!NMI(Image(s))
  /\ AskIRQ  => Image(s') = Emux!Pend(Image(s))
  /\ IRQNow  => Image(s') = Emux!IRQ(Still(Image(s)))
CoresAgree == [][Differs \/ deep' \/ SameStep]_vars
=============================================================================
