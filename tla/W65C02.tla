------------------------------- MODULE W65C02 -------------------------------
(* The 6502 core the device runs (ansi/w65c02op.cpp, w65c02macro.h,        *)
(* w65c02cpu.cpp) and the loop that runs it (cpu.cpp), over plain memory:  *)
(* operators that take a core to the core after an instruction or an       *)
(* interrupt.  A core is a record                                          *)
(*   a, x, y, sp, pc   mA, mX, mY, mSP, mPC                                *)
(*   ps                the set of mN, mV, mB, mD, mI, mZ, mC that are set    *)
(*   mem               what Load and Store see                             *)
(*   irq, nmi          g_irq, g_nmi                                        *)
(*   cyc               the cycles the last instruction or interrupt took   *)
(* mPC counts beyond 16 bits now and then, but is only used through its    *)
(* low 16 bits: pc is those.  mSP is an int that not all of the code keeps *)
(* within a byte.                                                          *)
EXTENDS IllegalOps

CPU_PEEK(s, addr)    == At(s.mem, addr)
CPU_PEEKW(s, addr)   == WordAt(s.mem, addr)
CPU_POKE(s, addr, b) == [s EXCEPT !.mem = Written(@, addr, b)]

Flag(s, f, on) == [s EXCEPT !.ps = IF on THEN @ \cup {f} ELSE @ \ {f}]
SET_NZ(s, b)   == Flag(Flag(s, "Z", b = 0), "N", Bit(b, 7))
Load(s, r, b)  == SET_NZ([s EXCEPT ![r] = b], b)
Jump(s, addr)  == [s EXCEPT !.pc = addr % 65536]

PUSHUnwrapped(s, b) == [CPU_POKE(s, 256 + s.sp, b) EXCEPT !.sp = @ - 1]   \* mutant
PUSH(s, b)  == [CPU_POKE(s, 256 + s.sp, b) EXCEPT !.sp = (@ - 1) % 256]
PUSHW(s, w) == PUSH(PUSH(s, HiByte(w)), w)
Popped(s)   == [s EXCEPT !.sp = (@ + 1) % 256]
PULL(s)     == CPU_PEEK(s, 256 + ((s.sp + 1) % 256))
PULLW(s)    == PULL(s) + 256 * PULL(Popped(s))

PS(s)        == StatusOf(s.ps)
setPS(s, b)  == [s EXCEPT !.ps = FlagsOf(b)]

CpuInitialize(mem) ==
  [a |-> 0, x |-> 0, y |-> 0, sp |-> 255, pc |-> WordAt(mem, \hFFFC),
   ps |-> FlagsOf(\h24), mem |-> mem, irq |-> FALSE, nmi |-> FALSE, cyc |-> 0]

-----------------------------------------------------------------------------
(* Addressing.  The bytes of the operand, where it lies, and the cycle     *)
(* that indexing into another page takes.                                  *)
Size(mode) == CASE mode = "" -> 0
                [] mode \in {"abs", "absx", "absy", "ind"} -> 2
                [] OTHER -> 1

ZeroPage(s)   == CPU_PEEK(s, s.pc)
Absolute(s)   == CPU_PEEKW(s, s.pc)
Base(mode, s) ==
  CASE mode \in {"abs", "absx", "absy"} -> Absolute(s)
    [] mode \in {"indy", "indy2"}       -> CPU_PEEKW(s, ZeroPage(s))
    [] OTHER                            -> ZeroPage(s)

Operand(mode, s) ==
  CASE mode = ""                         -> 0
    [] mode = "imm"                      -> s.pc
    [] mode \in {"abs", "zp"}            -> Base(mode, s)
    [] mode = "zpx"                      -> (ZeroPage(s) + s.x) % 256
    [] mode = "zpy"                      -> (ZeroPage(s) + s.y) % 256
    [] mode = "absx"                     -> (Base(mode, s) + s.x) % 65536
    [] mode \in {"absy", "indy", "indy2"} -> (Base(mode, s) + s.y) % 65536
    [] mode = "indx"                     -> CPU_PEEKW(s, (ZeroPage(s) + s.x) % 256)
    [] mode = "ind"                      -> CPU_PEEKW(s, Absolute(s))

PageCrossed(from, by) == IF HiByte(from) # HiByte(from + by) THEN 1 ELSE 0
Extra(mode, s) ==
  CASE mode = "absx"               -> PageCrossed(Base(mode, s), s.x)
    [] mode \in {"absy", "indy2"}  -> PageCrossed(Base(mode, s), s.y)
    [] OTHER                       -> 0

-----------------------------------------------------------------------------
(* Instructions: the core after the operand's bytes were fetched, and the  *)
(* byte v at the operand or its address o, give the core afterwards.       *)
Carry(s)       == IF "C" \in s.ps THEN 1 ELSE 0
Sum(s, v, r)   == Flag(Flag(Load(s, "a", r % 256), "C", r > 255),
                       "V", Bit(s.a, 7) = Bit(v, 7) /\ Bit(s.a, 7) # Bit(r, 7))
DecimalSum(s, v) ==
  LET lo  == (s.a % 16) + (v % 16) + Carry(s)
      hi  == 16 * ((s.a \div 16) + (v \div 16)) + (IF lo > 9 THEN 16 ELSE 0)
      lo6 == IF lo > 9 THEN lo + 6 ELSE lo
      hi6 == IF hi > \h90 THEN hi + \h60 ELSE hi
  IN  Flag(Flag(Load(s, "a", (lo6 % 16) + 16 * ((hi6 \div 16) % 16)), "C", hi6 > 255),
           "V", Bit(s.a, 7) = Bit(v, 7) /\ Bit(s.a, 7) # Bit(hi, 7))
ADC(s, v) == IF "D" \in s.ps THEN DecimalSum(s, v) ELSE Sum(s, v, s.a + v + Carry(s))

Difference(s, v) == s.a - v - (1 - Carry(s))
DecimalDifferenceUnadjusted(s, v) ==   \* mutant: the low digit keeps its binary borrow
  LET lo  == (s.a % 16) - (v % 16) - (1 - Carry(s))
      hi  == 16 * ((s.a \div 16) - (v \div 16)) - (IF Bit(lo, 7) THEN 16 ELSE 0)
      hi6 == IF (hi \div 256) % 16 # 0 THEN hi - \h60 ELSE hi
  IN  (lo % 16) + 16 * ((hi6 \div 16) % 16)
DecimalDifference(s, v) ==
  LET lo  == (s.a % 16) - (v % 16) - (1 - Carry(s))
      lo6 == IF (lo \div 16) % 16 # 0 THEN lo - 6 ELSE lo
      hi  == 16 * ((s.a \div 16) - (v \div 16)) - (IF Bit(lo6, 7) THEN 16 ELSE 0)
      hi6 == IF (hi \div 256) % 16 # 0 THEN hi - \h60 ELSE hi
  IN  (lo6 % 16) + 16 * ((hi6 \div 16) % 16)
SBC(s, v) ==
  LET d == Difference(s, v)
      r == IF "D" \in s.ps THEN DecimalDifference(s, v) ELSE d % 256
  IN  Flag(Flag(Load(s, "a", r), "C", d >= 0),
           "V", Bit(s.a, 7) # Bit(v, 7) /\ Bit(s.a, 7) # Bit(d, 7))

AND(s, v) == Load(s, "a", And(s.a, v))
EOR(s, v) == Load(s, "a", Xor(s.a, v))
ORA(s, v) == Load(s, "a", Or(s.a, v))
BIT(s, v) == Flag(Flag(Flag(s, "Z", And(s.a, v) = 0), "N", Bit(v, 7)), "V", Bit(v, 6))
Compared  == [CMP |-> "a", CPX |-> "x", CPY |-> "y"]
CompareAbove(s, r, v) == SET_NZ(Flag(s, "C", s[r] > v), (s[r] - v) % 256)   \* mutant
Compare(s, r, v) == SET_NZ(Flag(s, "C", s[r] >= v), (s[r] - v) % 256)

(* Shifts and rotations: the byte and the bit that leaves it. *)
ASL(s, v) == <<(2 * v) % 256, Bit(v, 7)>>
LSR(s, v) == <<v \div 2, Bit(v, 0)>>
ROL(s, v) == <<(2 * v + Carry(s)) % 256, Bit(v, 7)>>
ROR(s, v) == <<(v \div 2) + 128 * Carry(s), Bit(v, 0)>>
Shift(op, s, v) ==
  CASE op \in {"ASL", "ASLA"} -> ASL(s, v)
    [] op \in {"LSR", "LSRA"} -> LSR(s, v)
    [] op \in {"ROL", "ROLA"} -> ROL(s, v)
    [] op \in {"ROR", "RORA"} -> ROR(s, v)
ShiftA(op, s)      == LET r == Shift(op, s, s.a) IN Load(Flag(s, "C", r[2]), "a", r[1])
ShiftAt(op, s, o)  == LET r == Shift(op, s, CPU_PEEK(s, o))
                      IN  SET_NZ(CPU_POKE(Flag(s, "C", r[2]), o, r[1]), r[1])
StepAt(s, o, n)    == LET b == (CPU_PEEK(s, o) + n) % 256 IN SET_NZ(CPU_POKE(s, o, b), b)

Loaded   == [LDA |-> "a", LDX |-> "x", LDY |-> "y"]
Stored   == [STA |-> "a", STX |-> "x", STY |-> "y"]
Moved    == [TAX |-> <<"a", "x">>, TAY |-> <<"a", "y">>, TSX |-> <<"sp", "x">>,
             TXA |-> <<"x", "a">>, TYA |-> <<"y", "a">>]
TXS(s)   == [s EXCEPT !.sp = s.x]
Stepped  == [INX |-> <<"x", 1>>, INY |-> <<"y", 1>>, DEX |-> <<"x", -1>>, DEY |-> <<"y", -1>>]
Cleared  == [CLC |-> "C", CLD |-> "D", CLI |-> "I", CLV |-> "V"]
Set      == [SEC |-> "C", SED |-> "D", SEI |-> "I"]

(* A branch takes a cycle when taken and another into a different page. *)
Branches == [BCC |-> <<"C", FALSE>>, BCS |-> <<"C", TRUE>>, BEQ |-> <<"Z", TRUE>>,
             BMI |-> <<"N", TRUE>>, BNE |-> <<"Z", FALSE>>, BPL |-> <<"N", FALSE>>,
             BVC |-> <<"V", FALSE>>, BVS |-> <<"V", TRUE>>]
Branch(op, s) ==
  LET next == (s.pc + 1) % 65536
      by   == Signed(CPU_PEEK(s, s.pc))
  IN  IF (Branches[op][1] \in s.ps) = Branches[op][2]
      THEN [Jump(s, next + by) EXCEPT !.cyc = @ + 1 + PageCrossed(next, by)]
      ELSE Jump(s, next)

PHP(s) == PUSH(s, StatusOf(s.ps \cup {"B"}))
PLP(s) == [setPS(Popped(s), PULL(s)) EXCEPT !.ps = @ \ {"B"}]
PLA(s) == Load(Popped(s), "a", PULL(s))
JSR(s, o) == Jump(PUSHW(s, (s.pc - 1) % 65536), o)
RTS(s) == Jump(Popped(Popped(s)), PULLW(s) + 1)
RTIPlaceFirst(s) == LET t == Popped(Popped(s))   \* mutant: the status last
                    IN  setPS(Jump(Popped(t), PULLW(s)), PULL(t))
RTI(s) == LET t == setPS(Popped(s), PULL(s)) IN Jump(Popped(Popped(t)), PULLW(t))
BRK(s) ==
  LET t == PHP(PUSHW(s, (s.pc + 1) % 65536))
  IN  Jump(Flag(Flag(t, "D", FALSE), "I", TRUE), CPU_PEEKW(t, \hFFFE))

Run(op, s, o) ==
  CASE op = "ADC" -> ADC(s, CPU_PEEK(s, o))
    [] op = "SBC" -> SBC(s, CPU_PEEK(s, o))
    [] op = "AND" -> AND(s, CPU_PEEK(s, o))
    [] op = "EOR" -> EOR(s, CPU_PEEK(s, o))
    [] op = "ORA" -> ORA(s, CPU_PEEK(s, o))
    [] op = "BIT" -> BIT(s, CPU_PEEK(s, o))
    [] op \in DOMAIN Compared -> Compare(s, Compared[op], CPU_PEEK(s, o))
    [] op \in {"ASL", "LSR", "ROL", "ROR"}     -> ShiftAt(op, s, o)
    [] op \in {"ASLA", "LSRA", "ROLA", "RORA"} -> ShiftA(op, s)
    [] op = "INC" -> StepAt(s, o, 1)
    [] op = "DEC" -> StepAt(s, o, -1)
    [] op \in DOMAIN Stepped  -> Load(s, Stepped[op][1], (s[Stepped[op][1]] + Stepped[op][2]) % 256)
    [] op \in DOMAIN Loaded   -> Load(s, Loaded[op], CPU_PEEK(s, o))
    [] op \in DOMAIN Stored   -> CPU_POKE(s, o, s[Stored[op]])
    [] op \in DOMAIN Moved    -> Load(s, Moved[op][2], s[Moved[op][1]])
    [] op = "TXS" -> TXS(s)
    [] op \in DOMAIN Cleared  -> Flag(s, Cleared[op], FALSE)
    [] op \in DOMAIN Set      -> Flag(s, Set[op], TRUE)
    [] op \in DOMAIN Branches -> Branch(op, s)
    [] op = "PHA" -> PUSH(s, s.a)
    [] op = "PHP" -> PHP(s)
    [] op = "PLA" -> PLA(s)
    [] op = "PLP" -> PLP(s)
    [] op = "JMP" -> Jump(s, o)
    [] op = "JSR" -> JSR(s, o)
    [] op = "RTS" -> RTS(s)
    [] op = "RTI" -> RTI(s)
    [] op = "BRK" -> BRK(s)
    [] op = "NOP" -> s
-----------------------------------------------------------------------------
(* The opcodes: instruction, addressing, cycles.  An empty mode has no     *)
(* operand or fetches it in the instruction.                               *)
Row0(c) == CASE c = \h00 -> <<"BRK", "", 7>> [] c = \h01 -> <<"ORA", "indx", 6>>
             [] c = \h05 -> <<"ORA", "zp", 3>> [] c = \h06 -> <<"ASL", "zp", 5>>
             [] c = \h08 -> <<"PHP", "", 3>> [] c = \h09 -> <<"ORA", "imm", 2>>
             [] c = \h0A -> <<"ASLA", "", 2>> [] c = \h0D -> <<"ORA", "abs", 4>>
             [] c = \h0E -> <<"ASL", "abs", 6>>
Row1(c) == CASE c = \h10 -> <<"BPL", "", 2>> [] c = \h11 -> <<"ORA", "indy2", 5>>
             [] c = \h15 -> <<"ORA", "zpx", 4>> [] c = \h16 -> <<"ASL", "zpx", 6>>
             [] c = \h18 -> <<"CLC", "", 2>> [] c = \h19 -> <<"ORA", "absy", 4>>
             [] c = \h1D -> <<"ORA", "absx", 4>> [] c = \h1E -> <<"ASL", "absx", 7>>
Row2(c) == CASE c = \h20 -> <<"JSR", "abs", 6>> [] c = \h21 -> <<"AND", "indx", 6>>
             [] c = \h24 -> <<"BIT", "zp", 3>> [] c = \h25 -> <<"AND", "zp", 3>>
             [] c = \h26 -> <<"ROL", "zp", 5>> [] c = \h28 -> <<"PLP", "", 4>>
             [] c = \h29 -> <<"AND", "imm", 2>> [] c = \h2A -> <<"ROLA", "", 2>>
             [] c = \h2C -> <<"BIT", "abs", 4>> [] c = \h2D -> <<"AND", "abs", 4>>
             [] c = \h2E -> <<"ROL", "abs", 6>>
Row3(c) == CASE c = \h30 -> <<"BMI", "", 2>> [] c = \h31 -> <<"AND", "indy2", 5>>
             [] c = \h35 -> <<"AND", "zpx", 4>> [] c = \h36 -> <<"ROL", "zpx", 6>>
             [] c = \h38 -> <<"SEC", "", 2>> [] c = \h39 -> <<"AND", "absy", 4>>
             [] c = \h3D -> <<"AND", "absx", 4>> [] c = \h3E -> <<"ROL", "absx", 7>>
Row4(c) == CASE c = \h40 -> <<"RTI", "", 6>> [] c = \h41 -> <<"EOR", "indx", 6>>
             [] c = \h45 -> <<"EOR", "zp", 3>> [] c = \h46 -> <<"LSR", "zp", 5>>
             [] c = \h48 -> <<"PHA", "", 3>> [] c = \h49 -> <<"EOR", "imm", 2>>
             [] c = \h4A -> <<"LSRA", "", 2>> [] c = \h4C -> <<"JMP", "abs", 3>>
             [] c = \h4D -> <<"EOR", "abs", 4>> [] c = \h4E -> <<"LSR", "abs", 6>>
Row5(c) == CASE c = \h50 -> <<"BVC", "", 2>> [] c = \h51 -> <<"EOR", "indy2", 5>>
             [] c = \h55 -> <<"EOR", "zpx", 4>> [] c = \h56 -> <<"LSR", "zpx", 6>>
             [] c = \h58 -> <<"CLI", "", 2>> [] c = \h59 -> <<"EOR", "absy", 4>>
             [] c = \h5D -> <<"EOR", "absx", 4>> [] c = \h5E -> <<"LSR", "absx", 7>>
Row6(c) == CASE c = \h60 -> <<"RTS", "", 6>> [] c = \h61 -> <<"ADC", "indx", 6>>
             [] c = \h65 -> <<"ADC", "zp", 3>> [] c = \h66 -> <<"ROR", "zp", 5>>
             [] c = \h68 -> <<"PLA", "", 4>> [] c = \h69 -> <<"ADC", "imm", 2>>
             [] c = \h6A -> <<"RORA", "", 2>> [] c = \h6C -> <<"JMP", "ind", 5>>
             [] c = \h6D -> <<"ADC", "abs", 4>> [] c = \h6E -> <<"ROR", "abs", 6>>
Row7(c) == CASE c = \h70 -> <<"BVS", "", 2>> [] c = \h71 -> <<"ADC", "indy2", 5>>
             [] c = \h75 -> <<"ADC", "zpx", 4>> [] c = \h76 -> <<"ROR", "zpx", 6>>
             [] c = \h78 -> <<"SEI", "", 2>> [] c = \h79 -> <<"ADC", "absy", 4>>
             [] c = \h7D -> <<"ADC", "absx", 4>> [] c = \h7E -> <<"ROR", "absx", 7>>
Row8(c) == CASE c = \h81 -> <<"STA", "indx", 6>> [] c = \h84 -> <<"STY", "zp", 3>>
             [] c = \h85 -> <<"STA", "zp", 3>> [] c = \h86 -> <<"STX", "zp", 3>>
             [] c = \h88 -> <<"DEY", "", 2>> [] c = \h8A -> <<"TXA", "", 2>>
             [] c = \h8C -> <<"STY", "abs", 4>> [] c = \h8D -> <<"STA", "abs", 4>>
             [] c = \h8E -> <<"STX", "abs", 4>>
Row9(c) == CASE c = \h90 -> <<"BCC", "", 2>> [] c = \h91 -> <<"STA", "indy", 6>>
             [] c = \h94 -> <<"STY", "zpx", 4>> [] c = \h95 -> <<"STA", "zpx", 4>>
             [] c = \h96 -> <<"STX", "zpy", 4>> [] c = \h98 -> <<"TYA", "", 2>>
             [] c = \h99 -> <<"STA", "absy", 5>> [] c = \h9A -> <<"TXS", "", 2>>
             [] c = \h9D -> <<"STA", "absx", 5>>
RowA(c) == CASE c = \hA0 -> <<"LDY", "imm", 2>> [] c = \hA1 -> <<"LDA", "indx", 6>>
             [] c = \hA2 -> <<"LDX", "imm", 2>> [] c = \hA4 -> <<"LDY", "zp", 3>>
             [] c = \hA5 -> <<"LDA", "zp", 3>> [] c = \hA6 -> <<"LDX", "zp", 3>>
             [] c = \hA8 -> <<"TAY", "", 2>> [] c = \hA9 -> <<"LDA", "imm", 2>>
             [] c = \hAA -> <<"TAX", "", 2>> [] c = \hAC -> <<"LDY", "abs", 4>>
             [] c = \hAD -> <<"LDA", "abs", 4>> [] c = \hAE -> <<"LDX", "abs", 4>>
RowB(c) == CASE c = \hB0 -> <<"BCS", "", 2>> [] c = \hB1 -> <<"LDA", "indy2", 5>>
             [] c = \hB4 -> <<"LDY", "zpx", 4>> [] c = \hB5 -> <<"LDA", "zpx", 4>>
             [] c = \hB6 -> <<"LDX", "zpy", 4>> [] c = \hB8 -> <<"CLV", "", 2>>
             [] c = \hB9 -> <<"LDA", "absy", 4>> [] c = \hBA -> <<"TSX", "", 2>>
             [] c = \hBC -> <<"LDY", "absx", 4>> [] c = \hBD -> <<"LDA", "absx", 4>>
             [] c = \hBE -> <<"LDX", "absy", 4>>
RowC(c) == CASE c = \hC0 -> <<"CPY", "imm", 2>> [] c = \hC1 -> <<"CMP", "indx", 6>>
             [] c = \hC4 -> <<"CPY", "zp", 3>> [] c = \hC5 -> <<"CMP", "zp", 3>>
             [] c = \hC6 -> <<"DEC", "zp", 5>> [] c = \hC8 -> <<"INY", "", 2>>
             [] c = \hC9 -> <<"CMP", "imm", 2>> [] c = \hCA -> <<"DEX", "", 2>>
             [] c = \hCC -> <<"CPY", "abs", 4>> [] c = \hCD -> <<"CMP", "abs", 4>>
             [] c = \hCE -> <<"DEC", "abs", 6>>
RowD(c) == CASE c = \hD0 -> <<"BNE", "", 2>> [] c = \hD1 -> <<"CMP", "indy2", 5>>
             [] c = \hD5 -> <<"CMP", "zpx", 4>> [] c = \hD6 -> <<"DEC", "zpx", 6>>
             [] c = \hD8 -> <<"CLD", "", 2>> [] c = \hD9 -> <<"CMP", "absy", 4>>
             [] c = \hDD -> <<"CMP", "absx", 4>> [] c = \hDE -> <<"DEC", "absx", 7>>
RowE(c) == CASE c = \hE0 -> <<"CPX", "imm", 2>> [] c = \hE1 -> <<"SBC", "indx", 6>>
             [] c = \hE4 -> <<"CPX", "zp", 3>> [] c = \hE5 -> <<"SBC", "zp", 3>>
             [] c = \hE6 -> <<"INC", "zp", 5>> [] c = \hE8 -> <<"INX", "", 2>>
             [] c = \hE9 -> <<"SBC", "imm", 2>> [] c = \hEA -> <<"NOP", "", 2>>
             [] c = \hEC -> <<"CPX", "abs", 4>> [] c = \hED -> <<"SBC", "abs", 4>>
             [] c = \hEE -> <<"INC", "abs", 6>>
RowF(c) == CASE c = \hF0 -> <<"BEQ", "", 2>> [] c = \hF1 -> <<"SBC", "indy2", 5>>
             [] c = \hF5 -> <<"SBC", "zpx", 4>> [] c = \hF6 -> <<"INC", "zpx", 6>>
             [] c = \hF8 -> <<"SED", "", 2>> [] c = \hF9 -> <<"SBC", "absy", 4>>
             [] c = \hFD -> <<"SBC", "absx", 4>> [] c = \hFE -> <<"INC", "absx", 7>>
Opcode ==
  [c \in Byte \ Illegal |->
     CASE c \div 16 = 0 -> Row0(c) [] c \div 16 = 1 -> Row1(c)
       [] c \div 16 = 2 -> Row2(c) [] c \div 16 = 3 -> Row3(c)
       [] c \div 16 = 4 -> Row4(c) [] c \div 16 = 5 -> Row5(c)
       [] c \div 16 = 6 -> Row6(c) [] c \div 16 = 7 -> Row7(c)
       [] c \div 16 = 8 -> Row8(c) [] c \div 16 = 9 -> Row9(c)
       [] c \div 16 = 10 -> RowA(c) [] c \div 16 = 11 -> RowB(c)
       [] c \div 16 = 12 -> RowC(c) [] c \div 16 = 13 -> RowD(c)
       [] c \div 16 = 14 -> RowE(c) [] c \div 16 = 15 -> RowF(c)]

CpuExecuteOP(s) ==
  LET code == CPU_PEEK(s, s.pc)
      t    == Jump(s, s.pc + 1)
  IN  IF code \in Illegal
      THEN [Jump(t, t.pc + illegal_op_byte[code] - 1) EXCEPT !.cyc = illegal_op_cycle[code]]
      ELSE LET op   == Opcode[code][1]
               mode == Opcode[code][2]
           IN  Run(op, [Jump(t, t.pc + Size(mode)) EXCEPT !.cyc = Opcode[code][3] + Extra(mode, t)],
                   Operand(mode, t))

-----------------------------------------------------------------------------
(* Interrupts.  An NMI pushes without keeping mSP within its byte. *)
PushNMI(s, b) == [CPU_POKE(s, 256 + s.sp, b) EXCEPT !.sp = @ - 1]
CpuExecuteNMI(s) ==
  LET t == PushNMI(PushNMI(PushNMI(s, HiByte(s.pc)), s.pc), PS(s))
  IN  [Jump(t, CPU_PEEKW(t, \hFFFA)) EXCEPT !.cyc = 7]
CpuExecuteIRQ(s) ==
  LET t == PUSH(PUSHW(s, s.pc), StatusOf(s.ps \ {"B"}))
  IN  [Jump(Flag(Flag(t, "I", TRUE), "D", FALSE), CPU_PEEKW(t, \hFFFE)) EXCEPT !.cyc = 7]

set_nmi_pending(s) == [s EXCEPT !.nmi = TRUE]
set_irq_pending(s) == [s EXCEPT !.irq = TRUE]
irq_now(s) == IF "I" \in s.ps THEN set_irq_pending(s)
              ELSE [CpuExecuteIRQ(s) EXCEPT !.irq = FALSE]

(* What execute does before its loop, and in each round of it. *)
TakesNMI(s) == s.nmi
TakesIRQ(s) == s.irq /\ "I" \notin s.ps
Enter(s) == IF TakesNMI(s) THEN Flag(CpuExecuteNMI([s EXCEPT !.nmi = FALSE]), "I", TRUE) ELSE s
Interrupted(s) == IF TakesIRQ(s) THEN CpuExecuteIRQ([s EXCEPT !.irq = FALSE]) ELSE s
Round(s) == LET t == Interrupted(s)
                u == CpuExecuteOP([t EXCEPT !.cyc = 0])
            IN  [u EXCEPT !.cyc = @ + (IF TakesIRQ(s) THEN t.cyc ELSE 0)]
=============================================================================
